---------------------------- MODULE Discard_proofs ----------------------------
(***************************************************************************)
(* Theorems about Discard, for every alphabet of units, every limit and    *)
(* every length of the streams.  (Terminates, which rests on fairness, is  *)
(* for TLC to check.)                                                      *)
(***************************************************************************)
EXTENDS Discard, Wire_proofs, SequenceTheorems, TLAPS

-----------------------------------------------------------------------------
(* The inductive invariant.  The depth of the recursion is tied to the       *)
(* position by the place in the code: between the reading of a tag and the   *)
(* loop over what it announces, one more unit is consumed than loops are     *)
(* active.  Outside any call no loop is active.                              *)

DepthByPlace ==
    /\ pc = "body" => Len(stack) <= head - from
    /\ pc = "idle" => stack = <<>>

IInv == TypeOK /\ LoopsAlive /\ DepthBounded /\ DepthByPlace

\* Facts about the constants, and what a counter of the loop may be.
LEMMA Constants ==
    /\ StrMax \in Nat /\ BinMax \in Nat /\ ElmMax \in Nat /\ FldMax \in Nat /\ UintMax \in Nat
    /\ 2 * FldMax <= UintMax /\ ElmMax <= UintMax
    /\ \A u \in Unit : u.kind \in Kind /\ u.n \in Nat
BY LimitsAssumption, UintAssumption, UnitAssumption

\* A counter that is not zero is decremented without wrapping around.
LEMMA DecrementedInRange ==
    ASSUME NEW nr \in 1 .. UintMax
    PROVE  Decremented(nr) = nr - 1
BY UintAssumption DEF Decremented

LEMMA InitIInv == Init => IInv
<1> SUFFICES ASSUME Init PROVE IInv
  OBVIOUS
<1> USE DEF Init
<1>1. wire \in Seq(Unit)
  <2>1. PICK len \in 1 .. MaxLen : wire \in [1 .. len -> Unit]
    OBVIOUS
  <2>2. len \in Nat
    BY MaxLenAssumption
  <2> QED
    BY <2>1, <2>2, IsASeq
<1>2. <<>> \in Seq(0 .. UintMax) /\ Len(<<>>) = 0
  BY EmptySeq
<1>3. Len(wire) \in Nat /\ 0 \in 0 .. UintMax
  BY <1>1, LenProperties, Constants
<1> QED
  BY <1>1, <1>2, <1>3 DEF IInv, TypeOK, LoopsAlive, DepthBounded, DepthByPlace

-----------------------------------------------------------------------------
(* What the functions dpack_discard_body() dispatches to preserve.          *)

\* A function that returns leaves the invariant alone, provided the decoder
\* moved forward and stays within the stream.
LEMMA ReturnKeeps ==
    ASSUME IInv, pc = "body",
           NEW code \in {"OK", "ENODATA", "ENOTSUP"},
           NEW p \in head .. Len(wire), Return(code, p)
    PROVE  IInv'
<1>1. Len(wire) \in Nat /\ Len(stack) \in Nat /\ head \in Nat /\ from \in Nat
  BY LenProperties DEF IInv, TypeOK
<1> QED
  BY <1>1 DEF IInv, TypeOK, LoopsAlive, DepthBounded, DepthByPlace, Return

LEMMA SkipKeeps ==
    ASSUME IInv, pc = "body", NEW size \in Nat, NEW p \in head .. Len(wire),
           Skip(size, p)
    PROVE  IInv'
<1>1. Len(wire) \in Nat /\ head \in Nat
  BY LenProperties DEF IInv, TypeOK
<1>2. CASE p + size <= Len(wire)
  <2>1. p + size \in head .. Len(wire)
    BY <1>1, <1>2
  <2>2. Return("OK", p + size)
    BY <1>1, <1>2 DEF Skip
  <2> QED
    BY <2>1, <2>2, ReturnKeeps
<1>3. CASE ~(p + size <= Len(wire))
  <2>1. Return("ENODATA", p)
    BY <1>3 DEF Skip
  <2> QED
    BY <2>1, ReturnKeeps
<1> QED
  BY <1>2, <1>3

LEMMA PayloadKeeps ==
    ASSUME IInv, pc = "body", NEW cnt \in Nat, NEW max \in Nat,
           NEW p \in head .. Len(wire), DiscardPayload(cnt, max, p)
    PROVE  IInv'
<1>1. CASE cnt <= max /\ Skip(cnt, p)
  BY <1>1, SkipKeeps
<1>2. CASE Return("ENOTSUP", p)
  BY <1>2, ReturnKeeps
<1> QED
  BY <1>1, <1>2 DEF DiscardPayload

\* A new loop begins with a counter that is neither zero nor too large, and
\* the unit that announced it pays for its depth.
LEMMA CollectionKeeps ==
    ASSUME IInv, pc = "body", NEW nr \in Nat, NEW p \in head .. Len(wire),
           NEW max \in Nat, NEW arity \in {1, 2}, arity * max <= UintMax,
           DiscardCollection(nr, max, arity, p)
    PROVE  IInv'
<1>1. CASE Return("OK", p)
  BY <1>1, ReturnKeeps
<1>2. CASE Return("ENOTSUP", p)
  BY <1>2, ReturnKeeps
<1>3. CASE /\ nr > 0 /\ nr <= max
           /\ pc' = "tag"
           /\ head' = p
           /\ stack' = Append(stack, arity * nr)
           /\ UNCHANGED <<wire, tag, ret, from, asked>>
  <2>1. arity * nr \in 1 .. UintMax
    BY <1>3, Constants
  <2>2. /\ Len(wire) \in Nat /\ Len(stack) \in Nat /\ head \in Nat /\ from \in Nat
        /\ stack \in Seq(0 .. UintMax)
    BY LenProperties DEF IInv, TypeOK
  <2>3. stack' \in Seq(0 .. UintMax) /\ Len(stack') = Len(stack) + 1
    BY <1>3, <2>1, <2>2, AppendProperties
  <2>4. \A i \in DOMAIN stack' : stack'[i] # 0
    <3> SUFFICES ASSUME NEW i \in 1 .. Len(stack) + 1 PROVE stack'[i] # 0
      BY <2>3, LenProperties
    <3>1. CASE i \in 1 .. Len(stack)
      <4>1. stack'[i] = stack[i]
        BY <1>3, <2>1, <2>2, <3>1, AppendProperties
      <4>2. i \in DOMAIN stack
        BY <2>2, <3>1, LenProperties
      <4> QED
        BY <4>1, <4>2 DEF IInv, LoopsAlive
    <3>2. CASE i = Len(stack) + 1
      BY <1>3, <2>1, <2>2, <3>2, AppendProperties
    <3> QED
      BY <2>2, <3>1, <3>2
  <2> QED
    BY <1>3, <2>2, <2>3, <2>4 DEF IInv, TypeOK, LoopsAlive, DepthBounded, DepthByPlace
<1> QED
  BY <1>1, <1>2, <1>3 DEF DiscardCollection

\* The loops around the innermost one.
LEMMA CallersShorter ==
    ASSUME IInv, stack # <<>>
    PROVE  /\ Callers \in Seq(0 .. UintMax) /\ Len(Callers) = Len(stack) - 1
           /\ \A i \in 1 .. Len(stack) - 1 : Callers[i] = stack[i]
           /\ \A i \in DOMAIN Callers : Callers[i] # 0
<1>0. Len(stack) \in Nat /\ stack \in Seq(0 .. UintMax)
  BY LenProperties DEF IInv, TypeOK
<1>1. Len(stack) > 0
  BY <1>0, EmptySeq
<1>2. ASSUME NEW i \in 1 .. Len(stack) - 1 PROVE stack[i] \in 0 .. UintMax
  <2>1. i \in 1 .. Len(stack)
    BY <1>0
  <2> QED
    BY <1>0, <2>1, ElementOfSeq
<1> DEFINE n == Len(stack) - 1
<1>3. n \in Nat /\ 1 \in Int /\ n \in Int
  BY <1>0, <1>1
<1>4. /\ Callers \in Seq(0 .. UintMax) /\ Len(Callers) = Len(stack) - 1
      /\ \A i \in 1 .. Len(stack) - 1 : Callers[i] = stack[i]
  <2> HIDE DEF n
  <2>1. \A i \in 1 .. n : stack[i] \in 0 .. UintMax
    BY <1>2 DEF n
  <2>2. /\ SubSeq(stack, 1, n) \in Seq(0 .. UintMax)
        /\ Len(SubSeq(stack, 1, n)) = IF 1 <= n THEN n - 1 + 1 ELSE 0
        /\ \A i \in 1 .. n - 1 + 1 : SubSeq(stack, 1, n)[i] = stack[1 + i - 1]
    BY <1>3, <2>1, SubSeqProperties
  <2>3. /\ Len(SubSeq(stack, 1, n)) = n
        /\ \A i \in 1 .. n : SubSeq(stack, 1, n)[i] = stack[i]
    BY <1>3, <2>2
  <2> QED
    BY <2>2, <2>3 DEF Callers, n
<1>5. DOMAIN Callers = 1 .. Len(stack) - 1 /\ DOMAIN stack = 1 .. Len(stack)
  BY <1>0, <1>4, LenProperties
<1> QED
  BY <1>0, <1>4, <1>5 DEF IInv, LoopsAlive

-----------------------------------------------------------------------------
(* One step per action. *)

LEMMA NextIInv == IInv /\ [Next]_vars => IInv'
<1> SUFFICES ASSUME IInv, [Next]_vars PROVE IInv'
  OBVIOUS
<1>0. /\ Len(wire) \in Nat /\ Len(stack) \in Nat /\ head \in Nat /\ from \in Nat
      /\ wire \in Seq(Unit) /\ stack \in Seq(0 .. UintMax)
      /\ head <= Len(wire) /\ from <= head
      /\ 0 \in 0 .. UintMax /\ 1 \in 0 .. UintMax
  <2>1. 1 <= UintMax
    BY LimitsAssumption, Constants
  <2> QED
    BY <2>1, LenProperties, Constants DEF IInv, TypeOK
<1>1. ASSUME head < Len(wire)
      PROVE  wire[head + 1] \in Unit
  BY <1>0, <1>1, ElementOfSeq
<1>3. tag.n \in Nat
  BY Constants DEF IInv, TypeOK, NoTag
<1>4. CASE DecoderDiscard
  BY <1>0, <1>4 DEF DecoderDiscard, IInv, TypeOK, LoopsAlive, DepthBounded, DepthByPlace
<1>5. ASSUME NEW count \in Counts, NEW max \in {ElmMax, FldMax},
             MaybeDiscardItems(count, max)
      PROVE  IInv'
  <2>1. count \in 1 .. UintMax
    BY CountsAssumption
  <2>2. /\ <<count>> \in Seq(0 .. UintMax) /\ Len(<<count>>) = 1
        /\ \A i \in DOMAIN <<count>> : <<count>>[i] # 0
    BY <2>1, Constants
  <2>3. CASE count <= max
    <3>1. /\ stack' = <<count>> /\ pc' = "tag" /\ from' = head /\ asked' = count
          /\ UNCHANGED <<wire, head, tag, ret>>
      BY <1>0, <1>5, <2>1, <2>3, Constants DEF MaybeDiscardItems
    <3>2. /\ stack' \in Seq(0 .. UintMax) /\ Len(stack') = 1
          /\ \A i \in DOMAIN stack' : stack'[i] # 0
      BY <2>2, <3>1
    <3> QED
      BY <1>0, <2>1, <3>1, <3>2
         DEF IInv, TypeOK, LoopsAlive, DepthBounded, DepthByPlace
  <2>4. CASE ~(count <= max)
    <3>1. /\ ret' = "ENOTSUP" /\ asked' = 0 /\ from' = head /\ pc = "idle"
          /\ UNCHANGED <<wire, head, pc, tag, stack>>
      BY <1>5, <2>4 DEF MaybeDiscardItems
    <3>2. stack = <<>> /\ Len(stack) = 0
      BY <3>1, EmptySeq DEF IInv, DepthByPlace
    <3> QED
      BY <1>0, <3>1, <3>2
         DEF IInv, TypeOK, LoopsAlive, DepthBounded, DepthByPlace
  <2> QED
    BY <2>3, <2>4
<1>6. CASE ReadTag
  BY <1>0, <1>1, <1>6
     DEF ReadTag, Left, IInv, TypeOK, LoopsAlive, DepthBounded, DepthByPlace
<1>7. CASE NoMoreTag
  BY <1>0, <1>7 DEF NoMoreTag, IInv, TypeOK, LoopsAlive, DepthBounded, DepthByPlace
<1>8. CASE DiscardAtom
  BY <1>0, <1>8, ReturnKeeps DEF DiscardAtom
<1>9. CASE DiscardScalar
  BY <1>0, <1>3, <1>9, SkipKeeps DEF DiscardScalar
<1>10. CASE DiscardFixed
  <2>1. CASE DiscardPayload(tag.n, StrMax, head)
    BY <1>0, <1>3, <1>10, <2>1, Constants, PayloadKeeps DEF DiscardFixed
  <2>2. CASE DiscardCollection(tag.n, ElmMax, 1, head)
    <3>1. 1 * ElmMax <= UintMax /\ pc = "body"
      BY <1>10, Constants DEF DiscardFixed
    <3> QED
      BY <1>0, <1>3, <2>2, <3>1, Constants, CollectionKeeps
  <2>3. CASE DiscardCollection(tag.n, FldMax, 2, head)
    <3>1. 2 * FldMax <= UintMax /\ pc = "body"
      BY <1>10, Constants DEF DiscardFixed
    <3> QED
      BY <1>0, <1>3, <2>3, <3>1, Constants, CollectionKeeps
  <2> QED
    BY <1>10, <2>1, <2>2, <2>3 DEF DiscardFixed
<1>11. CASE DiscardCounted
  <2> DEFINE cnt == wire[head + 1].n
  <2>1. pc = "body" /\ head + 1 \in head .. Len(wire) /\ cnt \in Nat
    BY <1>0, <1>1, <1>11, Constants DEF DiscardCounted, Left
  <2> HIDE DEF cnt
  <2>2. CASE DiscardPayload(cnt, StrMax, head + 1)
    BY <2>1, <2>2, Constants, PayloadKeeps
  <2>3. CASE DiscardPayload(cnt, BinMax, head + 1)
    BY <2>1, <2>3, Constants, PayloadKeeps
  <2>4. CASE DiscardCollection(cnt, ElmMax, 1, head + 1)
    <3>1. 1 * ElmMax <= UintMax
      BY Constants
    <3> QED
      BY <2>1, <2>4, <3>1, Constants, CollectionKeeps
  <2>5. CASE DiscardCollection(cnt, FldMax, 2, head + 1)
    BY <2>1, <2>5, Constants, CollectionKeeps
  <2> QED
    BY <1>11, <2>2, <2>3, <2>4, <2>5 DEF DiscardCounted, cnt
<1>12. CASE NoCount
  BY <1>0, <1>12, ReturnKeeps DEF NoCount
<1>13. CASE DiscardUnsupported
  BY <1>0, <1>13, ReturnKeeps DEF DiscardUnsupported
<1>14. CASE NextItem
  <2>1. Len(stack) \in DOMAIN stack /\ Nr \in 1 .. UintMax
    BY <1>0, <1>14, EmptySeq, LenProperties, ElementOfSeq, Constants
       DEF NextItem, IInv, LoopsAlive, Nr
  <2>2. Decremented(Nr) \in 1 .. UintMax
    BY <1>14, <2>1, DecrementedInRange, Constants DEF NextItem
  <2>3. /\ stack' \in Seq(0 .. UintMax) /\ Len(stack') = Len(stack)
        /\ \A i \in DOMAIN stack' : stack'[i] # 0
    BY <1>0, <1>14, <2>1, <2>2, ExceptSeq DEF NextItem, IInv, LoopsAlive
  <2> QED
    BY <1>0, <1>14, <2>3
       DEF NextItem, IInv, TypeOK, LoopsAlive, DepthBounded, DepthByPlace
<1>15. ASSUME stack # <<>>
       PROVE  /\ Callers \in Seq(0 .. UintMax) /\ Len(Callers) = Len(stack) - 1
              /\ \A i \in DOMAIN Callers : Callers[i] # 0
  BY <1>15, CallersShorter
<1>16. CASE LastItem
  BY <1>0, <1>15, <1>16
     DEF LastItem, IInv, TypeOK, LoopsAlive, DepthBounded, DepthByPlace
<1>17. CASE ItemFailed
  BY <1>0, <1>15, <1>17
     DEF ItemFailed, IInv, TypeOK, LoopsAlive, DepthBounded, DepthByPlace
<1>18. CASE Finish
  BY <1>0, <1>18 DEF Finish, IInv, TypeOK, LoopsAlive, DepthBounded, DepthByPlace
<1>19. CASE UNCHANGED vars
  BY <1>19 DEF vars, IInv, TypeOK, LoopsAlive, DepthBounded, DepthByPlace
<1> QED
  BY <1>4, <1>5, <1>6, <1>7, <1>8, <1>9, <1>10, <1>11, <1>12, <1>13, <1>14, <1>16,
     <1>17, <1>18, <1>19 DEF Next, Step

-----------------------------------------------------------------------------
(* Agreement with the layout.  At every step, what the call comes to is what *)
(* discarding the items still to come from here comes to.  Each loop owes    *)
(* the items of its counter, one of which is the collection that the loop    *)
(* inside it, if any, is discarding: `sums' adds them up, loop by loop.      *)

Owing(loops, sums) ==
    /\ sums[0] = 1
    /\ \A i \in 1 .. Len(loops) : sums[i] = sums[i - 1] + loops[i] - 1

\* n items are still to come, the one under way included.
Owes(loops, n) ==
    \E sums \in [0 .. Len(loops) -> Nat \ {0}] : Owing(loops, sums) /\ sums[Len(loops)] = n

Goal == SkipItems(wire, from, asked)

\* The tag of an item is read, not what follows.
InBody(q, n) ==
    /\ head = q + 1 /\ tag = wire[q + 1]
    /\ Goal = SkipItems(wire, q, n)

Layout ==
    /\ pc # "idle" => asked > 0
    /\ pc = "tag" => \E n \in Nat \ {0} : Owes(stack, n) /\ Goal = SkipItems(wire, head, n)
    /\ pc = "body" =>
         \E n \in Nat \ {0}, q \in 0 .. Len(wire) - 1 : Owes(stack, n) /\ InBody(q, n)
    /\ pc = "return" /\ ret = "OK" =>
         \E n \in Nat \ {0} : Owes(stack, n) /\ Goal = SkipItems(wire, head, n - 1)
    /\ pc = "return" /\ ret # "OK" => Goal = [head |-> head, ret |-> ret]
    /\ AgreesWithLayout

LEMMA StreamTyped ==
    ASSUME IInv
    PROVE  /\ wire \in Stream /\ Len(wire) \in Nat /\ head \in 0 .. Len(wire) /\ from \in 0 .. Len(wire)
           /\ stack \in Seq(0 .. UintMax) /\ Len(stack) \in Nat /\ asked \in Nat
           /\ \A q \in 0 .. Len(wire) - 1 : wire[q + 1] \in Symbol
<1>1. wire \in Stream
  BY StreamOfUnits DEF IInv, TypeOK
<1> QED
  BY <1>1, StreamPositions, LenProperties, Constants DEF IInv, TypeOK

\* No loop: the item itself is all there is to come.
LEMMA OwesOne ==
    ASSUME NEW loops, Len(loops) = 0, NEW n
    PROVE  Owes(loops, n) <=> n = 1
<1>1. ASSUME n = 1 PROVE Owes(loops, n)
  <2> DEFINE f == [i \in 0 .. 0 |-> 1]
  <2>1. f \in [0 .. Len(loops) -> Nat \ {0}] /\ f[0] = 1 /\ f[Len(loops)] = 1
    OBVIOUS
  <2>2. Owing(loops, f)
    BY <2>1 DEF Owing
  <2> HIDE DEF f
  <2> QED
    BY <1>1, <2>1, <2>2 DEF Owes
<1> QED
  BY <1>1 DEF Owes, Owing

\* A loop that begins owes its items in place of the collection that they are in.
LEMMA OwesMore ==
    ASSUME NEW loops, NEW more, NEW len \in Nat, Len(loops) = len, Len(more) = len + 1,
           \A i \in 1 .. len : more[i] = loops[i],
           NEW c \in Nat \ {0}, more[len + 1] = c,
           NEW n, Owes(loops, n), NEW total, total = n - 1 + c
    PROVE  Owes(more, total)
<1>1. PICK f \in [0 .. len -> Nat \ {0}] : Owing(loops, f) /\ n = f[len]
  BY DEF Owes
<1> DEFINE g == [i \in 0 .. len + 1 |-> IF i = len + 1 THEN n - 1 + c ELSE f[i]]
<1>2. n \in Nat \ {0} /\ n - 1 + c \in Nat \ {0}
  BY <1>1
<1>3. g \in [0 .. len + 1 -> Nat \ {0}]
  BY <1>2
<1>4. g[0] = 1 /\ g[len + 1] = n - 1 + c
  BY <1>1 DEF Owing
<1>5. ASSUME NEW i \in 1 .. len + 1 PROVE g[i] = g[i - 1] + more[i] - 1
  <2>1. CASE i = len + 1
    <3>1. g[i - 1] = n /\ g[i] = n - 1 + c
      BY <1>1, <2>1
    <3> QED
      BY <1>2, <2>1, <3>1
  <2>2. CASE i # len + 1
    <3>1. i \in 1 .. len /\ i - 1 \in 0 .. len /\ i - 1 # len + 1
      BY <2>2
    <3>2. g[i] = f[i] /\ g[i - 1] = f[i - 1] /\ more[i] = loops[i]
      BY <3>1
    <3> QED
      BY <1>1, <3>1, <3>2 DEF Owing
  <2> QED
    BY <2>1, <2>2
<1> HIDE DEF g
<1> QED
  BY <1>3, <1>4, <1>5 DEF Owes, Owing

\* A loop that is over owed one item, and one that goes on owes one less.
LEMMA OwesLess ==
    ASSUME NEW loops, NEW less, NEW len \in Nat \ {0}, Len(loops) = len,
           loops[len] \in Nat \ {0},
           \/ Len(less) = len - 1 /\ loops[len] = 1
           \/ Len(less) = len /\ less[len] = loops[len] - 1 /\ less[len] # 0,
           \A i \in 1 .. len - 1 : less[i] = loops[i],
           NEW n, Owes(loops, n), NEW rest, rest = n - 1
    PROVE  /\ Len(less) # len => Owes(less, n)
           /\ Len(less) = len => Owes(less, rest)
<1>1. PICK f \in [0 .. len -> Nat \ {0}] : Owing(loops, f) /\ n = f[len]
  BY DEF Owes
<1>2. f[len] = f[len - 1] + loops[len] - 1 /\ f[len] \in Nat \ {0} /\ f[len - 1] \in Nat \ {0}
  BY <1>1 DEF Owing
<1>3. CASE Len(less) = len - 1 /\ loops[len] = 1
  <2> DEFINE g == [i \in 0 .. len - 1 |-> f[i]]
  <2>1. g \in [0 .. len - 1 -> Nat \ {0}] /\ g[0] = 1 /\ g[len - 1] = n
    BY <1>1, <1>2, <1>3 DEF Owing
  <2>2. ASSUME NEW i \in 1 .. len - 1 PROVE g[i] = g[i - 1] + less[i] - 1
    <3>1. i \in 1 .. len /\ i \in 0 .. len - 1 /\ i - 1 \in 0 .. len - 1
      OBVIOUS
    <3>2. f[i] = f[i - 1] + loops[i] - 1
      BY <1>1, <3>1 DEF Owing
    <3>3. g[i] = f[i] /\ g[i - 1] = f[i - 1]
      BY <3>1
    <3> HIDE DEF g
    <3> QED
      BY <3>2, <3>3
  <2> HIDE DEF g
  <2>3. Owing(less, g)
    BY <1>3, <2>1, <2>2 DEF Owing
  <2>4. Len(less) # len /\ 0 .. Len(less) = 0 .. len - 1 /\ g[Len(less)] = n
    BY <1>3, <2>1
  <2>5. Owes(less, n)
    BY <2>1, <2>3, <2>4 DEF Owes
  <2> QED
    BY <2>4, <2>5
<1>4. CASE Len(less) = len /\ less[len] = loops[len] - 1 /\ less[len] # 0
  <2> DEFINE g == [i \in 0 .. len |-> IF i = len THEN n - 1 ELSE f[i]]
  <2>1. g \in [0 .. len -> Nat \ {0}] /\ g[0] = 1 /\ g[len] = n - 1
    BY <1>1, <1>2, <1>4 DEF Owing
  <2>2. ASSUME NEW i \in 1 .. len PROVE g[i] = g[i - 1] + less[i] - 1
    <3>1. CASE i = len
      <4>1. g[i] = n - 1 /\ g[i - 1] = f[len - 1] /\ less[i] = loops[len] - 1
        BY <1>4, <3>1
      <4> QED
        BY <1>1, <1>2, <4>1
    <3>2. CASE i # len
      <4>1. i \in 1 .. len - 1 /\ i - 1 \in 0 .. len /\ i - 1 # len
        BY <3>2
      <4>2. g[i] = f[i] /\ g[i - 1] = f[i - 1] /\ less[i] = loops[i]
        BY <4>1
      <4> QED
        BY <1>1, <4>1, <4>2 DEF Owing
    <3> QED
      BY <3>1, <3>2
  <2> HIDE DEF g
  <2> QED
    BY <1>4, <2>1, <2>2 DEF Owes, Owing
<1> QED
  BY <1>3, <1>4

-----------------------------------------------------------------------------
(* The steps of an item. *)

\* A function that dpack_discard_body() calls returns, with its item behind.
LEMMA ReturnAgrees ==
    ASSUME IInv, Layout, pc = "body", NEW q \in 0 .. Len(wire) - 1, NEW n \in Nat \ {0},
           Owes(stack, n), NEW p \in 0 .. Len(wire), NEW code, Return(code, p),
           \/ code = "OK" /\ Goal = SkipItems(wire, p, n - 1)
           \/ code # "OK" /\ Goal = [head |-> p, ret |-> code]
    PROVE  Layout'
BY DEF Return, Layout, Goal, AgreesWithLayout

\* What dpack_discard_body() finds in the stream, from the item at position q.
LEMMA SkipAgrees ==
    ASSUME IInv, Layout, pc = "body", NEW q \in 0 .. Len(wire) - 1, NEW n \in Nat \ {0},
           Owes(stack, n), InBody(q, n), q + HeaderSize(wire, q) <= Len(wire), Supported(wire, q),
           Children(wire, q) = 0, Skip(PayloadSize(wire, q), q + HeaderSize(wire, q))
    PROVE  Layout'
<1> DEFINE p == q + HeaderSize(wire, q)
           size == PayloadSize(wire, q)
<1>1. /\ wire \in Stream /\ Len(wire) \in Nat
      /\ HeaderSize(wire, q) \in {1, 2} /\ size \in Nat /\ NextTag(wire, q) = p + size
  BY StreamTyped, Forward DEF NextTag
<1>2. CASE p + size <= Len(wire) /\ Return("OK", p + size)
  <2>1. Readable(wire, q)
    BY <1>1, <1>2 DEF Readable
  <2>2. SkipItems(wire, q, n) = SkipItems(wire, p + size, n - 1)
    BY <1>1, <2>1, SkipInto
  <2>3. p + size \in 0 .. Len(wire)
    BY <1>1, <1>2
  <2> HIDE DEF p, size
  <2> QED
    BY <1>2, <2>2, <2>3, ReturnAgrees DEF InBody
<1>3. CASE p + size > Len(wire) /\ Return("ENODATA", p)
  <2>1. SkipItems(wire, q, n) = [head |-> p, ret |-> "ENODATA"]
    BY <1>1, <1>3, SkipStops
  <2>2. p \in 0 .. Len(wire)
    BY <1>1
  <2> HIDE DEF p, size
  <2> QED
    BY <1>3, <2>1, <2>2, ReturnAgrees DEF InBody
<1> QED
  BY <1>2, <1>3 DEF Skip

LEMMA UnsupportedAgrees ==
    ASSUME IInv, Layout, pc = "body", NEW q \in 0 .. Len(wire) - 1, NEW n \in Nat \ {0},
           Owes(stack, n), InBody(q, n), q + HeaderSize(wire, q) <= Len(wire), ~Supported(wire, q),
           Return("ENOTSUP", q + HeaderSize(wire, q))
    PROVE  Layout'
<1> DEFINE p == q + HeaderSize(wire, q)
<1>1. wire \in Stream /\ Len(wire) \in Nat /\ HeaderSize(wire, q) \in {1, 2}
  BY StreamTyped, Forward
<1>2. SkipItems(wire, q, n) = [head |-> p, ret |-> "ENOTSUP"]
  BY <1>1, SkipStops
<1>3. p \in 0 .. Len(wire)
  BY <1>1
<1> HIDE DEF p
<1> QED
  BY <1>2, <1>3, ReturnAgrees DEF InBody, p

LEMMA GoesInto ==
    ASSUME IInv, NEW q \in 0 .. Len(wire) - 1, NEW n \in Nat \ {0}, Readable(wire, q)
    PROVE  /\ SkipItems(wire, q, n) = SkipItems(wire, NextTag(wire, q), n - 1 + Children(wire, q))
           /\ Children(wire, q) \in Nat
<1>1. wire \in Stream /\ q \in 0 .. Len(wire)
  BY StreamTyped
<1> QED
  BY <1>1, SkipInto

\* An empty collection is behind at once; another one begins a loop, that owes the
\* items it contains in place of itself.
LEMMA CollectionAgrees ==
    ASSUME IInv, Layout, pc = "body", NEW q \in 0 .. Len(wire) - 1, NEW n \in Nat \ {0},
           Owes(stack, n), InBody(q, n), q + HeaderSize(wire, q) <= Len(wire),
           NEW nr \in Nat, NEW max \in Nat, NEW arity \in {1, 2}, Children(wire, q) = arity * nr,
           Supported(wire, q) <=> nr <= max, PayloadSize(wire, q) = 0,
           DiscardCollection(nr, max, arity, q + HeaderSize(wire, q))
    PROVE  Layout'
<1> DEFINE p == q + HeaderSize(wire, q)
           c == Children(wire, q)
<1>1. /\ wire \in Stream /\ Len(wire) \in Nat
      /\ HeaderSize(wire, q) \in {1, 2} /\ NextTag(wire, q) = p
  BY StreamTyped, Forward DEF NextTag
<1>2. p \in 0 .. Len(wire)
  BY <1>1
<1>3. ASSUME nr <= max
      PROVE  SkipItems(wire, q, n) = SkipItems(wire, p, n - 1 + c) /\ c \in Nat
  <2>1. Readable(wire, q)
    BY <1>1, <1>3 DEF Readable
  <2>2. /\ SkipItems(wire, q, n) = SkipItems(wire, NextTag(wire, q), n - 1 + Children(wire, q))
        /\ Children(wire, q) \in Nat
    BY <2>1, GoesInto
  <2> HIDE DEF p
  <2> QED
    BY <1>1, <2>2
<1>4. CASE nr = 0 /\ Return("OK", p)
  <2>1. nr <= max /\ 1 * nr = 0 /\ 2 * nr = 0
    BY <1>4
  <2>2. c = 0
    BY <2>1
  <2>3. Goal = SkipItems(wire, p, n - 1)
    BY <1>3, <2>1, <2>2 DEF InBody
  <2> HIDE DEF p
  <2> QED
    BY <1>2, <1>4, <2>3, ReturnAgrees
<1>5. CASE nr > max /\ Return("ENOTSUP", p)
  BY <1>5, UnsupportedAgrees
<1>6. CASE /\ nr > 0 /\ nr <= max
           /\ pc' = "tag"
           /\ head' = p
           /\ stack' = Append(stack, arity * nr)
           /\ UNCHANGED <<wire, tag, ret, from, asked>>
  <2>1. arity * nr \in Nat \ {0} /\ c = arity * nr
    BY <1>6
  <2> HIDE DEF c
  <2>2. /\ Len(stack) \in Nat /\ Len(stack') = Len(stack) + 1
        /\ \A i \in 1 .. Len(stack) : stack'[i] = stack[i]
        /\ stack'[Len(stack) + 1] = c
    BY <1>6, <2>1, StreamTyped, AppendProperties
  <2> DEFINE total == n - 1 + c
             more == stack'
             len == Len(stack)
  <2>3. Owes(more, total)
    <3>1. /\ len \in Nat /\ Len(more) = len + 1 /\ total = n - 1 + c
          /\ \A i \in 1 .. len : more[i] = stack[i]
          /\ more[len + 1] = c /\ c \in Nat \ {0}
      BY <2>1, <2>2
    <3> HIDE DEF total, more, len
    <3>2. Len(stack) = len
      BY DEF len
    <3> QED
      BY ONLY <3>1, <3>2, Owes(stack, n), OwesMore
  <2>4. Goal' = SkipItems(wire', head', n - 1 + c)
    BY <1>3, <1>6 DEF Goal, InBody
  <2>5. n - 1 + c \in Nat \ {0}
    BY <2>1
  <2>6. pc' = "tag" /\ asked' > 0
    BY <1>6 DEF Layout
  <2> QED
    BY <2>3, <2>4, <2>5, <2>6 DEF Layout, AgreesWithLayout
<1> QED
  BY <1>4, <1>5, <1>6 DEF DiscardCollection

\* A string or a binary, once its length is known.
LEMMA PayloadAgrees ==
    ASSUME IInv, Layout, pc = "body", NEW q \in 0 .. Len(wire) - 1, NEW n \in Nat \ {0},
           Owes(stack, n), InBody(q, n), q + HeaderSize(wire, q) <= Len(wire),
           Children(wire, q) = 0, NEW max,
           Supported(wire, q) <=> PayloadSize(wire, q) <= max, PayloadSize(wire, q) > max <=> ~Supported(wire, q),
           DiscardPayload(PayloadSize(wire, q), max, q + HeaderSize(wire, q))
    PROVE  Layout'
BY SkipAgrees, UnsupportedAgrees DEF DiscardPayload

LEMMA BodyAgrees ==
    ASSUME IInv, Layout, DiscardAtom \/ DiscardScalar \/ DiscardFixed \/ DiscardCounted
                           \/ NoCount \/ DiscardUnsupported
    PROVE  Layout'
<1> USE DEF HeaderSize, Counted, Count, Supported, PayloadSize, Children
<1>1. pc = "body"
  BY DEF DiscardAtom, DiscardScalar, DiscardFixed, DiscardCounted, NoCount, DiscardUnsupported
<1>2. PICK n \in Nat \ {0}, q \in 0 .. Len(wire) - 1 : Owes(stack, n) /\ InBody(q, n)
  BY <1>1 DEF Layout
<1>3. /\ wire \in Stream /\ Len(wire) \in Nat /\ wire[q + 1] \in Symbol
      /\ head = q + 1 /\ tag = wire[q + 1]
  BY <1>2, StreamTyped DEF InBody
<1>4. tag.n \in Nat /\ tag.kind \in Kind
  BY <1>3 DEF Symbol
<1>5. CASE DiscardAtom
  <2>1. tag.kind = "atom" /\ Return("OK", head)
    BY <1>5 DEF DiscardAtom
  <2>2. HeaderSize(wire, q) = 1 /\ Supported(wire, q) /\ Children(wire, q) = 0
    BY <1>3, <2>1
  <2>3. Skip(PayloadSize(wire, q), q + HeaderSize(wire, q))
    BY <1>3, <2>1, <2>2 DEF Skip
  <2> HIDE DEF HeaderSize, Counted, Count, Supported, PayloadSize, Children
  <2> QED
    BY <1>1, <1>2, <1>3, <2>2, <2>3, SkipAgrees
<1>6. CASE DiscardScalar
  <2>1. tag.kind = "scalar" /\ Skip(tag.n, head)
    BY <1>6 DEF DiscardScalar
  <2>2. /\ HeaderSize(wire, q) = 1 /\ Supported(wire, q) /\ Children(wire, q) = 0
        /\ PayloadSize(wire, q) = tag.n
    BY <1>3, <2>1
  <2> HIDE DEF HeaderSize, Counted, Count, Supported, PayloadSize, Children
  <2> QED
    BY <1>1, <1>2, <1>3, <2>1, <2>2, SkipAgrees
<1>7. CASE DiscardFixed
  <2>1. CASE tag.kind = "fixstr" /\ DiscardPayload(tag.n, StrMax, head)
    <3>1. /\ HeaderSize(wire, q) = 1 /\ Children(wire, q) = 0 /\ PayloadSize(wire, q) = tag.n
          /\ Supported(wire, q) <=> tag.n <= StrMax
      BY <1>3, <2>1
    <3> HIDE DEF HeaderSize, Counted, Count, Supported, PayloadSize, Children
    <3>2. tag.n > StrMax <=> ~(tag.n <= StrMax)
      BY <1>4, Constants
    <3> QED
      BY <1>1, <1>2, <1>3, <2>1, <3>1, <3>2, PayloadAgrees
  <2>2. CASE tag.kind = "fixarr" /\ DiscardCollection(tag.n, ElmMax, 1, head)
    <3>1. /\ HeaderSize(wire, q) = 1 /\ Children(wire, q) = 1 * tag.n /\ PayloadSize(wire, q) = 0
          /\ Supported(wire, q) <=> tag.n <= ElmMax
      BY <1>3, <1>4, <2>2
    <3> HIDE DEF HeaderSize, Counted, Count, Supported, PayloadSize, Children
    <3> QED
      BY <1>1, <1>2, <1>3, <1>4, <2>2, <3>1, CollectionAgrees, Constants
  <2>3. CASE tag.kind = "fixmap" /\ DiscardCollection(tag.n, FldMax, 2, head)
    <3>1. /\ HeaderSize(wire, q) = 1 /\ Children(wire, q) = 2 * tag.n /\ PayloadSize(wire, q) = 0
          /\ Supported(wire, q) <=> tag.n <= FldMax
      BY <1>3, <1>4, <2>3
    <3> HIDE DEF HeaderSize, Counted, Count, Supported, PayloadSize, Children
    <3> QED
      BY <1>1, <1>2, <1>3, <1>4, <2>3, <3>1, CollectionAgrees, Constants
  <2> QED
    BY <1>7, <2>1, <2>2, <2>3 DEF DiscardFixed
<1>8. CASE DiscardCounted
  <2> DEFINE cnt == wire[head + 1].n
  <2>1. head + 1 = q + 2 /\ q + 2 <= Len(wire) /\ q + 1 \in 0 .. Len(wire) - 1
    BY <1>3, <1>8 DEF DiscardCounted, Left
  <2>2. cnt \in Nat /\ cnt = wire[q + 2].n
    <3>1. wire[(q + 1) + 1] \in Symbol
      BY <2>1, StreamTyped
    <3> QED
      BY <2>1, <3>1 DEF Symbol
  <2> HIDE DEF cnt
  <2>3. CASE tag.kind = "str" /\ DiscardPayload(cnt, StrMax, head + 1)
    <3>1. /\ HeaderSize(wire, q) = 2 /\ Children(wire, q) = 0 /\ PayloadSize(wire, q) = cnt
          /\ Supported(wire, q) <=> cnt <= StrMax
      BY <1>3, <2>2, <2>3
    <3> HIDE DEF HeaderSize, Counted, Count, Supported, PayloadSize, Children
    <3>2. cnt > StrMax <=> ~(cnt <= StrMax)
      BY <2>2, Constants
    <3> QED
      BY <1>1, <1>2, <1>3, <2>1, <2>3, <3>1, <3>2, PayloadAgrees
  <2>4. CASE tag.kind = "bin" /\ DiscardPayload(cnt, BinMax, head + 1)
    <3>1. /\ HeaderSize(wire, q) = 2 /\ Children(wire, q) = 0 /\ PayloadSize(wire, q) = cnt
          /\ Supported(wire, q) <=> cnt <= BinMax
      BY <1>3, <2>2, <2>4
    <3> HIDE DEF HeaderSize, Counted, Count, Supported, PayloadSize, Children
    <3>2. cnt > BinMax <=> ~(cnt <= BinMax)
      BY <2>2, Constants
    <3> QED
      BY <1>1, <1>2, <1>3, <2>1, <2>4, <3>1, <3>2, PayloadAgrees
  <2>5. CASE tag.kind = "arr" /\ DiscardCollection(cnt, ElmMax, 1, head + 1)
    <3>1. /\ HeaderSize(wire, q) = 2 /\ Children(wire, q) = 1 * cnt /\ PayloadSize(wire, q) = 0
          /\ Supported(wire, q) <=> cnt <= ElmMax
      BY <1>3, <2>2, <2>5
    <3> HIDE DEF HeaderSize, Counted, Count, Supported, PayloadSize, Children
    <3> QED
      BY <1>1, <1>2, <1>3, <2>1, <2>2, <2>5, <3>1, CollectionAgrees, Constants
  <2>6. CASE tag.kind = "map" /\ DiscardCollection(cnt, FldMax, 2, head + 1)
    <3>1. /\ HeaderSize(wire, q) = 2 /\ Children(wire, q) = 2 * cnt /\ PayloadSize(wire, q) = 0
          /\ Supported(wire, q) <=> cnt <= FldMax
      BY <1>3, <2>2, <2>6
    <3> HIDE DEF HeaderSize, Counted, Count, Supported, PayloadSize, Children
    <3> QED
      BY <1>1, <1>2, <1>3, <2>1, <2>2, <2>6, <3>1, CollectionAgrees, Constants
  <2> QED
    BY <1>8, <2>3, <2>4, <2>5, <2>6 DEF DiscardCounted, cnt
<1>9. CASE NoCount
  <2>1. HeaderSize(wire, q) = 2 /\ head = Len(wire) /\ Return("ENODATA", head)
    BY <1>3, <1>9, StreamTyped DEF NoCount, Left
  <2> HIDE DEF HeaderSize, Counted, Count, Supported, PayloadSize, Children
  <2>2. q + HeaderSize(wire, q) > Len(wire) /\ q # Len(wire) /\ q \in 0 .. Len(wire)
    BY <1>3, <2>1
  <2>3. SkipItems(wire, q, n) = [head |-> q + 1, ret |-> "ENODATA"]
    BY <1>3, <2>2, SkipStops
  <2>4. Goal = [head |-> head, ret |-> "ENODATA"]
    BY <1>2, <1>3, <2>3 DEF InBody
  <2> QED
    BY <1>1, <1>2, <2>1, <2>4, StreamTyped, ReturnAgrees
<1>10. CASE DiscardUnsupported
  <2>1. tag.kind = "ext" /\ Return("ENOTSUP", head)
    BY <1>10 DEF DiscardUnsupported
  <2>2. HeaderSize(wire, q) = 1 /\ ~Supported(wire, q)
    BY <1>3, <2>1
  <2> HIDE DEF HeaderSize, Counted, Count, Supported, PayloadSize, Children
  <2> QED
    BY <1>1, <1>2, <1>3, <2>1, <2>2, UnsupportedAgrees
<1> QED
  BY <1>5, <1>6, <1>7, <1>8, <1>9, <1>10

-----------------------------------------------------------------------------
(* The calls, the loops and the return. *)

LEMMA CallAgrees ==
    ASSUME IInv, Layout, pc = "idle", ret = "OK", NEW count \in Nat \ {0},
           pc' = "tag", from' = head, asked' = count, UNCHANGED <<wire, head, ret>>,
           Owes(stack', count)
    PROVE  Layout'
BY DEF Layout, Goal, AgreesWithLayout

LEMMA TagAgrees ==
    ASSUME IInv, Layout, ReadTag \/ NoMoreTag
    PROVE  Layout'
<1>1. PICK n \in Nat \ {0} : Owes(stack, n) /\ Goal = SkipItems(wire, head, n)
  BY DEF ReadTag, NoMoreTag, Layout
<1>2. wire \in Stream /\ Len(wire) \in Nat /\ head \in 0 .. Len(wire)
  BY StreamTyped
<1>3. CASE ReadTag
  <2>1. head \in 0 .. Len(wire) - 1
    BY <1>2, <1>3 DEF ReadTag, Left
  <2>2. PICK q \in 0 .. Len(wire) - 1 : q = head
    BY <2>1
  <2>3. InBody(q, n)'
    BY <1>1, <1>3, <2>2 DEF ReadTag, InBody, Goal
  <2>4. pc' = "body" /\ pc = "tag" /\ UNCHANGED <<wire, stack, asked>>
    BY <1>3 DEF ReadTag
  <2> QED
    BY <1>1, <2>2, <2>3, <2>4 DEF Layout, AgreesWithLayout
<1>4. CASE NoMoreTag
  <2>1. head = Len(wire)
    BY <1>2, <1>4 DEF NoMoreTag, Left
  <2>2. Goal = [head |-> head, ret |-> "ENODATA"]
    BY <1>1, <1>2, <2>1, SkipStops
  <2> QED
    BY <1>4, <2>2 DEF NoMoreTag, Layout, Goal, AgreesWithLayout
<1> QED
  BY <1>3, <1>4

LEMMA LoopAgrees ==
    ASSUME IInv, Layout, NextItem \/ LastItem \/ ItemFailed \/ Finish
    PROVE  Layout'
<1>0. /\ wire \in Stream /\ head \in 0 .. Len(wire)
      /\ stack \in Seq(0 .. UintMax) /\ Len(stack) \in Nat
      /\ pc = "return"
  BY StreamTyped DEF NextItem, LastItem, ItemFailed, Finish
<1>1. ASSUME ret = "OK"
      PROVE  \E n \in Nat \ {0} : Owes(stack, n) /\ Goal = SkipItems(wire, head, n - 1)
  BY <1>0, <1>1 DEF Layout
<1>2. ASSUME stack # <<>>
      PROVE  /\ Len(stack) \in Nat \ {0} /\ Nr \in 1 .. UintMax /\ Decremented(Nr) = Nr - 1
  <2>1. Len(stack) \in Nat \ {0}
    BY <1>0, <1>2, EmptySeq
  <2>2. Nr \in 0 .. UintMax /\ Nr # 0
    <3>1. Len(stack) \in DOMAIN stack /\ Len(stack) \in 1 .. Len(stack)
      BY <1>0, <2>1, LenProperties
    <3>2. stack[Len(stack)] \in 0 .. UintMax
      BY <1>0, <3>1, ElementOfSeq
    <3> QED
      BY <3>1, <3>2 DEF Nr, IInv, LoopsAlive
  <2> QED
    BY <2>1, <2>2, DecrementedInRange, Constants
<1>3. CASE NextItem
  <2>1. PICK n \in Nat \ {0} : Owes(stack, n) /\ Goal = SkipItems(wire, head, n - 1)
    BY <1>1, <1>3 DEF NextItem
  <2>2. /\ Len(stack) \in Nat \ {0} /\ Nr \in 1 .. UintMax /\ Nr - 1 # 0
        /\ stack' = [stack EXCEPT ![Len(stack)] = Nr - 1]
        /\ pc' = "tag" /\ UNCHANGED <<wire, head, from, asked>>
    BY <1>2, <1>3 DEF NextItem
  <2>3. /\ Len(stack') = Len(stack) /\ stack'[Len(stack)] = Nr - 1
        /\ \A i \in 1 .. Len(stack) - 1 : stack'[i] = stack[i]
    <3>1. Nr - 1 \in 0 .. UintMax
      BY <2>2, Constants
    <3> QED
      BY <1>0, <2>2, <3>1, ExceptSeq
  <2>4. Owes(stack', n - 1)
    <3> DEFINE rest == n - 1
    <3> DEFINE len == Len(stack)
               more == stack'
    <3>1. /\ stack[len] \in Nat \ {0}
          /\ stack[len] - 1 # 0
      BY <2>2, Constants DEF Nr
    <3>2. more[len] = stack[len] - 1 /\ more[len] # 0
      BY <2>3, <3>1 DEF Nr
    <3>3. len \in Nat \ {0} /\ Len(more) = len /\ \A i \in 1 .. len - 1 : more[i] = stack[i]
      BY <2>2, <2>3
    <3>4. rest = n - 1
      OBVIOUS
    <3> HIDE DEF rest, len, more
    <3>5. len = Len(stack)
      BY DEF len
    <3>6. Owes(more, rest)
      BY <2>1, <3>1, <3>2, <3>3, <3>4, <3>5, OwesLess
    <3> QED
      BY <3>6 DEF rest, more
  <2>5. n - 1 \in Nat \ {0}
    BY <2>4 DEF Owes
  <2> QED
    BY <1>0, <2>1, <2>2, <2>4, <2>5 DEF Layout, Goal, AgreesWithLayout
<1>4. CASE LastItem
  <2>1. PICK n \in Nat \ {0} : Owes(stack, n) /\ Goal = SkipItems(wire, head, n - 1)
    BY <1>1, <1>4 DEF LastItem
  <2>2. /\ Len(stack) \in Nat \ {0} /\ stack[Len(stack)] = 1
        /\ stack' = Callers /\ UNCHANGED <<wire, head, pc, ret, from, asked>>
    BY <1>2, <1>4 DEF LastItem, Nr
  <2>3. Len(Callers) = Len(stack) - 1 /\ \A i \in 1 .. Len(stack) - 1 : Callers[i] = stack[i]
    BY <1>0, <1>4, CallersShorter DEF LastItem
  <2>4. Owes(stack', n)
    <3> DEFINE len == Len(stack)
               rest == n - 1
    <3>1. /\ len \in Nat \ {0} /\ stack[len] \in Nat \ {0} /\ stack[len] = 1
          /\ Len(Callers) = len - 1 /\ \A i \in 1 .. len - 1 : Callers[i] = stack[i]
      BY <2>2, <2>3
    <3>2. rest = n - 1 /\ Len(Callers) # len
      BY <3>1
    <3> HIDE DEF rest, len
    <3>3. len = Len(stack)
      BY DEF len
    <3>4. Owes(Callers, n)
      BY ONLY <2>1, <3>1, <3>2, <3>3, OwesLess
    <3> QED
      BY <2>2, <3>4
  <2> QED
    BY <1>0, <2>1, <2>2, <2>4 DEF Layout, Goal, AgreesWithLayout
<1>5. CASE ItemFailed
  BY <1>0, <1>5 DEF ItemFailed, Layout, Goal, AgreesWithLayout
<1>6. CASE Finish
  <2>1. Goal = [head |-> head, ret |-> ret]
    <3>1. CASE ret = "OK"
      <4>1. PICK n \in Nat \ {0} : Owes(stack, n) /\ Goal = SkipItems(wire, head, n - 1)
        BY <1>1, <3>1
      <4>2. n = 1
        BY <1>6, <4>1, EmptySeq, OwesOne DEF Finish
      <4> QED
        BY <1>0, <3>1, <4>1, <4>2, SkipNone
    <3>2. CASE ret # "OK"
      BY <1>0, <3>2 DEF Layout
    <3> QED
      BY <3>1, <3>2
  <2> QED
    BY <1>6, <2>1 DEF Finish, Layout, Goal, AgreesWithLayout
<1> QED
  BY <1>3, <1>4, <1>5, <1>6

LEMMA InitLayout == Init => Layout
BY DEF Init, Layout, AgreesWithLayout

LEMMA NextLayout == IInv /\ Layout /\ [Next]_vars => Layout'
<1> SUFFICES ASSUME IInv, Layout, [Next]_vars PROVE Layout'
  OBVIOUS
<1>1. CASE DecoderDiscard
  <2>1. Owes(stack', 1)
    BY <1>1, EmptySeq, OwesOne DEF DecoderDiscard, IInv, DepthByPlace
  <2> QED
    BY <1>1, <2>1, CallAgrees DEF DecoderDiscard
<1>2. ASSUME NEW count \in Counts, NEW max \in {ElmMax, FldMax}, MaybeDiscardItems(count, max)
      PROVE  Layout'
  <2>1. CASE /\ count <= max /\ asked' = count /\ pc' = "tag" /\ stack' = <<count>>
             /\ UNCHANGED ret
    <3>1. count \in Nat \ {0}
      BY CountsAssumption, Constants
    <3>2. Len(<<>>) = 0 /\ Owes(<<>>, 1)
      BY EmptySeq, OwesOne
    <3>3. Len(stack') = 0 + 1 /\ stack'[0 + 1] = count
      BY <2>1
    <3> DEFINE more == stack'
               none == <<>>
               len == 0
               n == 1
    <3>4. /\ count = n - 1 + count /\ Len(none) = len /\ Owes(none, n) /\ len \in Nat
          /\ Len(more) = len + 1 /\ more[len + 1] = count
          /\ \A i \in 1 .. len : more[i] = none[i]
      BY <3>1, <3>2, <3>3
    <3> HIDE DEF more, none, len, n
    <3>5. Owes(more, count)
      BY <3>1, <3>4, OwesMore
    <3> QED
      BY <1>2, <2>1, <3>1, <3>5, CallAgrees DEF MaybeDiscardItems, more
  <2>2. CASE asked' = 0 /\ UNCHANGED <<pc, stack>>
    BY <1>2, <2>2 DEF MaybeDiscardItems, Layout, AgreesWithLayout
  <2> QED
    BY <1>2, <2>1, <2>2 DEF MaybeDiscardItems
<1>3. CASE UNCHANGED vars
  BY <1>3 DEF vars, Layout, InBody, Goal, AgreesWithLayout
<1> QED
  BY <1>1, <1>2, <1>3, TagAgrees, BodyAgrees, LoopAgrees DEF Next, Step

-----------------------------------------------------------------------------
(* The theorems *)

\* Every variable keeps its type and the decoder never passes the end of the
\* stream, whatever the stream holds.
THEOREM TypeCorrect == Spec => []TypeOK
<1>1. IInv => TypeOK
  BY DEF IInv
<1> QED
  BY <1>1, InitIInv, NextIInv, PTL DEF Spec

\* No loop of dpack_discard_items() runs with a null count, from which its
\* unsigned counter would wrap around (common.c:193), whatever the stream holds.
THEOREM NoNullLoop == Spec => []LoopsAlive
<1>1. IInv => LoopsAlive
  BY DEF IInv
<1> QED
  BY <1>1, InitIInv, NextIInv, PTL DEF Spec

\* The depth of the recursion of dpack_discard_body() is bounded by the number
\* of units consumed since the call, whatever the stream holds.
THEOREM BoundedDepth == Spec => []DepthBounded
<1>1. IInv => DepthBounded
  BY DEF IInv
<1> QED
  BY <1>1, InitIInv, NextIInv, PTL DEF Spec

\* When a call returns, the decoder is past exactly the items asked for, nested ones
\* included, or stands where the layout of the stream makes it fail, with the error
\* met first: the recursion of dpack_discard_items() and dpack_discard_body(), whatever its
\* depth, is the flat count of SkipItems (common.c:179-196,420-524).
THEOREM LayoutFollowed == Spec => []AgreesWithLayout
<1>1. IInv /\ Layout => AgreesWithLayout
  BY DEF Layout
<1>2. IInv /\ Layout /\ [Next]_vars => (IInv /\ Layout)'
  BY NextIInv, NextLayout
<1>3. Init => IInv /\ Layout
  BY InitIInv, InitLayout
<1> QED
  BY <1>1, <1>2, <1>3, PTL DEF Spec
=============================================================================
