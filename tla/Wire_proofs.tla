----------------------------- MODULE Wire_proofs ------------------------------
(***************************************************************************)
(* Laws of SkipItems, for every stream and every limit: its recursive      *)
(* equation, where it leaves a decoder, and how the discarding of items    *)
(* one after the other composes.  The proofs about the decoders rest on    *)
(* them.                                                                   *)
(*                                                                         *)
(* Induction is over sets of numbers: a set of positions that a position   *)
(* belongs to as soon as all those after it do is the set of all of them.  *)
(***************************************************************************)
EXTENDS Wire, WellFoundedInduction, TLAPS

-----------------------------------------------------------------------------
(* Induction *)

NatLess == { pair \in Nat \X Nat : pair[1] < pair[2] }

LEMMA NatLessWellFounded == IsWellFoundedOn(NatLess, Nat)
BY NatLessThanWellFounded DEF OpToRel, NatLess

LEMMA Least ==
    ASSUME NEW T \in SUBSET Nat, T # {}
    PROVE  \E n \in T : \A m \in T : n <= m
<1>1. PICK x \in T : \A y \in T : <<y, x>> \notin NatLess
  BY NatLessWellFounded, WFMin, Zenon
<1>2. \A y \in T : x <= y
  <2> TAKE y \in T
  <2>1. <<y, x>> \notin NatLess
    BY <1>1
  <2>2. ~(y < x)
    BY <2>1 DEF NatLess
  <2> QED
    BY <2>2
<1> QED
  BY <1>2

\* A set that holds 0 and the successor of each of its members is Nat.
LEMMA Induction ==
    ASSUME NEW S \in SUBSET Nat, 0 \in S, \A n \in S : n + 1 \in S
    PROVE  S = Nat
<1> SUFFICES ASSUME Nat \ S # {} PROVE FALSE
  OBVIOUS
<1>1. PICK n \in Nat \ S : \A m \in Nat \ S : n <= m
  BY Least
<1>2. n - 1 \in Nat
  OBVIOUS
<1>3. n - 1 \in S
  BY <1>1, <1>2
<1> QED
  BY <1>2, <1>3

\* A set of positions that holds each position as soon as it holds those after it
\* holds all of them.
LEMMA BackwardInduction ==
    ASSUME NEW size \in Nat, NEW S,
           \A q \in 0 .. size : (\A r \in q + 1 .. size : r \in S) => q \in S
    PROVE  \A q \in 0 .. size : q \in S
<1> DEFINE T == { k \in 0 .. size : size - k \notin S }
<1> SUFFICES ASSUME NEW q \in 0 .. size, q \notin S PROVE FALSE
  OBVIOUS
<1>1. size - q \in T
  OBVIOUS
<1>2. T \in SUBSET Nat
  OBVIOUS
<1>3. PICK k \in T : \A m \in T : k <= m
  BY <1>1, <1>2, Least
<1>4. ASSUME NEW r \in size - k + 1 .. size PROVE r \in S
  <2>1. size - r \in 0 .. size /\ size - r < k /\ size - (size - r) = r
    OBVIOUS
  <2>2. size - r \notin T
    BY <1>3, <2>1
  <2> QED
    BY <2>1, <2>2
<1>5. size - k \in 0 .. size
  OBVIOUS
<1> QED
  BY <1>4, <1>5

-----------------------------------------------------------------------------
(* The layout of one item. *)

\* Any tag, count or byte of payload; the alphabet Unit is a choice among them.
Symbol == [kind : Kind, n : Nat]
Stream == Seq(Symbol)

LEMMA StreamOfUnits ==
    ASSUME NEW w \in Seq(Unit)
    PROVE  w \in Stream
<1>1. Unit \subseteq Symbol
  BY UnitAssumption DEF Symbol
<1> QED
  BY <1>1 DEF Stream

LEMMA StreamPositions ==
    ASSUME NEW w \in Stream
    PROVE  Len(w) \in Nat /\ DOMAIN w = 1 .. Len(w) /\ \A i \in 1 .. Len(w) : w[i] \in Symbol
BY DEF Stream

\* The tag is followed by another position of the stream, if by anything.
LEMMA Forward ==
    ASSUME NEW w \in Stream, NEW q \in 0 .. Len(w) - 1, q + HeaderSize(w, q) <= Len(w)
    PROVE  /\ HeaderSize(w, q) \in {1, 2}
           /\ Count(w, q) \in Nat /\ PayloadSize(w, q) \in Nat /\ Children(w, q) \in Nat
           /\ NextTag(w, q) \in Nat /\ NextTag(w, q) > q
           /\ NextTag(w, q) >= q + HeaderSize(w, q)
<1>1. w[q + 1] \in Symbol
  BY StreamPositions
<1>2. HeaderSize(w, q) \in {1, 2}
  BY DEF HeaderSize
<1>3. Count(w, q) \in Nat
  <2>1. CASE Counted(w[q + 1])
    <3>1. w[q + 2] \in Symbol
      BY <2>1, StreamPositions DEF HeaderSize
    <3> QED
      BY <2>1, <3>1 DEF Count, Symbol
  <2>2. CASE ~Counted(w[q + 1])
    BY <1>1, <2>2 DEF Count, Symbol
  <2> QED
    BY <2>1, <2>2
<1>4. Children(w, q) \in Nat /\ PayloadSize(w, q) \in Nat
  BY <1>3 DEF Children, PayloadSize
<1> HIDE DEF HeaderSize, PayloadSize
<1> QED
  BY <1>2, <1>3, <1>4 DEF NextTag

-----------------------------------------------------------------------------
(* The equation *)

\* What Skim(w)[q] is, given the function g of the positions after q.
Skimmed(w, g, q) ==
    [ need \in Nat |->
        IF need = 0 THEN
            [head |-> q, ret |-> "OK"]
        ELSE IF q = Len(w) THEN
            [head |-> q, ret |-> "ENODATA"]
        ELSE IF q + HeaderSize(w, q) > Len(w) THEN
            [head |-> q + 1, ret |-> "ENODATA"]
        ELSE IF ~Supported(w, q) THEN
            [head |-> q + HeaderSize(w, q), ret |-> "ENOTSUP"]
        ELSE IF NextTag(w, q) > Len(w) THEN
            [head |-> q + HeaderSize(w, q), ret |-> "ENODATA"]
        ELSE
            g[NextTag(w, q)][need - 1 + Children(w, q)] ]

\* Only the positions after q matter.
LEMMA SkimmedLocal ==
    ASSUME NEW w \in Stream, NEW q \in 0 .. Len(w), NEW g, NEW h,
           \A r \in q + 1 .. Len(w) : g[r] = h[r]
    PROVE  Skimmed(w, g, q) = Skimmed(w, h, q)
<1>1. Len(w) \in Nat
  BY StreamPositions
<1>2. ASSUME q # Len(w), ~(q + HeaderSize(w, q) > Len(w)), ~(NextTag(w, q) > Len(w))
      PROVE  g[NextTag(w, q)] = h[NextTag(w, q)]
  <2>1. q \in 0 .. Len(w) - 1 /\ q + HeaderSize(w, q) <= Len(w)
    BY <1>1, <1>2 DEF HeaderSize
  <2> QED
    BY <1>1, <1>2, <2>1, Forward
<1> QED
  BY <1>2 DEF Skimmed

LEMMA SkimExists ==
    ASSUME NEW w \in Stream
    PROVE  \E g : g = [q \in 0 .. Len(w) |-> Skimmed(w, g, q)]
<1> DEFINE D == 0 .. Len(w)
           Solves(g, k) == /\ g = [q \in D |-> g[q]]
                           /\ \A q \in D : q + k > Len(w) => g[q] = Skimmed(w, g, q)
           S == { k \in Nat : \E g : Solves(g, k) }
<1>0. Len(w) \in Nat
  BY StreamPositions
<1>1. 0 \in S
  <2>1. Solves([q \in D |-> 0], 0)
    BY <1>0
  <2> QED
    BY <2>1
<1>2. ASSUME NEW k \in S PROVE k + 1 \in S
  <2>1. PICK g : Solves(g, k)
    OBVIOUS
  <2> DEFINE h == [q \in D |-> Skimmed(w, g, q)]
  <2>2. ASSUME NEW q \in D, q + (k + 1) > Len(w)
        PROVE  Skimmed(w, h, q) = Skimmed(w, g, q)
    <3>1. ASSUME NEW r \in q + 1 .. Len(w) PROVE h[r] = g[r]
      <4>1. r \in D /\ r + k > Len(w)
        BY <1>0, <2>2
      <4>2. g[r] = Skimmed(w, g, r)
        BY <2>1, <4>1
      <4> QED
        BY <4>1, <4>2
    <3> HIDE DEF h
    <3> QED
      BY <3>1, SkimmedLocal
  <2>3. Solves(h, k + 1)
    BY <2>2
  <2> HIDE DEF h
  <2> QED
    BY <2>3
<1> HIDE DEF S
<1>3. S = Nat
  <2>1. S \in SUBSET Nat
    BY DEF S
  <2> QED
    BY <1>1, <1>2, <2>1, Induction
<1>4. PICK g : Solves(g, Len(w) + 1)
  <2>1. Len(w) + 1 \in S
    BY <1>0, <1>3
  <2> QED
    BY <2>1 DEF S
<1>5. \A q \in D : g[q] = Skimmed(w, g, q)
  BY <1>0, <1>4
<1> QED
  BY <1>4, <1>5, Zenon

LEMMA SkimEquation ==
    ASSUME NEW w \in Stream, NEW q \in 0 .. Len(w)
    PROVE  Skim(w)[q] = Skimmed(w, Skim(w), q)
<1>1. Skim(w) = CHOOSE g : g = [r \in 0 .. Len(w) |-> Skimmed(w, g, r)]
  BY DEF Skim, Skimmed
<1>2. Skim(w) = [r \in 0 .. Len(w) |-> Skimmed(w, Skim(w), r)]
  BY <1>1, SkimExists, Zenon
<1> HIDE DEF Skim
<1> QED
  BY <1>2

\* No item to discard: nothing is done.
LEMMA SkipNone ==
    ASSUME NEW w \in Stream, NEW q \in 0 .. Len(w)
    PROVE  SkipItems(w, q, 0) = [head |-> q, ret |-> "OK"]
BY SkimEquation DEF SkipItems, Skimmed

\* Some items to discard, the first of which is the one at position q.
LEMMA SkipSome ==
    ASSUME NEW w \in Stream, NEW q \in 0 .. Len(w), NEW need \in Nat \ {0}
    PROVE  SkipItems(w, q, need) =
             IF q = Len(w) THEN
                 [head |-> q, ret |-> "ENODATA"]
             ELSE IF q + HeaderSize(w, q) > Len(w) THEN
                 [head |-> q + 1, ret |-> "ENODATA"]
             ELSE IF ~Supported(w, q) THEN
                 [head |-> q + HeaderSize(w, q), ret |-> "ENOTSUP"]
             ELSE IF NextTag(w, q) > Len(w) THEN
                 [head |-> q + HeaderSize(w, q), ret |-> "ENODATA"]
             ELSE
                 SkipItems(w, NextTag(w, q), need - 1 + Children(w, q))
<1>1. Skim(w)[q][need] = Skimmed(w, Skim(w), q)[need]
  BY SkimEquation
<1> QED
  BY <1>1 DEF SkipItems, Skimmed

-----------------------------------------------------------------------------
(* Laws *)

SkipCode == {"OK", "ENODATA", "ENOTSUP"}

\* The item at position q, or the part of it before the items that it contains,
\* is whole and supported.
Readable(w, q) ==
    /\ q + 1 <= Len(w)
    /\ q + HeaderSize(w, q) <= Len(w)
    /\ Supported(w, q)
    /\ NextTag(w, q) <= Len(w)

\* Past a readable item, or into it, there are as many items to come as it contains.
LEMMA SkipInto ==
    ASSUME NEW w \in Stream, NEW q \in 0 .. Len(w), Readable(w, q), NEW need \in Nat \ {0}
    PROVE  /\ SkipItems(w, q, need) = SkipItems(w, NextTag(w, q), need - 1 + Children(w, q))
           /\ NextTag(w, q) \in q + 1 .. Len(w)
           /\ Children(w, q) \in Nat
<1>1. Len(w) \in Nat
  BY StreamPositions
<1>2. q \in 0 .. Len(w) - 1 /\ q # Len(w) /\ q + HeaderSize(w, q) <= Len(w)
  BY <1>1 DEF Readable
<1>3. /\ HeaderSize(w, q) \in {1, 2} /\ NextTag(w, q) \in Nat /\ NextTag(w, q) > q
      /\ Children(w, q) \in Nat
  BY <1>2, Forward
<1>4. ~(q + HeaderSize(w, q) > Len(w)) /\ ~(NextTag(w, q) > Len(w)) /\ Supported(w, q)
  BY <1>1, <1>3 DEF Readable
<1>5. SkipItems(w, q, need) = SkipItems(w, NextTag(w, q), need - 1 + Children(w, q))
  BY <1>2, <1>4, SkipSome
<1> QED
  BY <1>1, <1>3, <1>4, <1>5

\* What stops a decoder: there is no tag, no count, the item is not supported, its
\* payload is cut short.
LEMMA SkipStops ==
    ASSUME NEW w \in Stream, NEW q \in 0 .. Len(w), NEW need \in Nat \ {0}
    PROVE  /\ q = Len(w) => SkipItems(w, q, need) = [head |-> q, ret |-> "ENODATA"]
           /\ q # Len(w) /\ q + HeaderSize(w, q) > Len(w) =>
                SkipItems(w, q, need) = [head |-> q + 1, ret |-> "ENODATA"]
           /\ q # Len(w) /\ q + HeaderSize(w, q) <= Len(w) /\ ~Supported(w, q) =>
                SkipItems(w, q, need) = [head |-> q + HeaderSize(w, q), ret |-> "ENOTSUP"]
           /\ /\ q # Len(w) /\ q + HeaderSize(w, q) <= Len(w) /\ Supported(w, q)
              /\ NextTag(w, q) > Len(w)
              => SkipItems(w, q, need) = [head |-> q + HeaderSize(w, q), ret |-> "ENODATA"]
<1>1. Len(w) \in Nat /\ HeaderSize(w, q) \in {1, 2}
  BY StreamPositions DEF HeaderSize
<1>2. q + HeaderSize(w, q) <= Len(w) <=> ~(q + HeaderSize(w, q) > Len(w))
  BY <1>1
<1>3. q = Len(w) => SkipItems(w, q, need) = [head |-> q, ret |-> "ENODATA"]
  BY SkipSome
<1>4. q # Len(w) /\ q + HeaderSize(w, q) > Len(w) =>
        SkipItems(w, q, need) = [head |-> q + 1, ret |-> "ENODATA"]
  BY SkipSome
<1>5. q # Len(w) /\ ~(q + HeaderSize(w, q) > Len(w)) /\ ~Supported(w, q) =>
        SkipItems(w, q, need) = [head |-> q + HeaderSize(w, q), ret |-> "ENOTSUP"]
  BY SkipSome
<1>6. /\ q # Len(w) /\ ~(q + HeaderSize(w, q) > Len(w)) /\ Supported(w, q)
      /\ NextTag(w, q) > Len(w)
      => SkipItems(w, q, need) = [head |-> q + HeaderSize(w, q), ret |-> "ENODATA"]
  BY SkipSome
<1> QED
  BY <1>2, <1>3, <1>4, <1>5, <1>6

\* An item that is not readable stops the decoder, however many items are to come.
LEMMA SkipBlocked ==
    ASSUME NEW w \in Stream, NEW q \in 0 .. Len(w), ~Readable(w, q), NEW need \in Nat \ {0}
    PROVE  /\ SkipItems(w, q, need) = SkipItems(w, q, 1)
           /\ SkipItems(w, q, need) \in [head : q .. Len(w), ret : SkipCode \ {"OK"}]
<1>1. Len(w) \in Nat
  BY StreamPositions
<1>2. HeaderSize(w, q) \in {1, 2}
  BY DEF HeaderSize
<1>3. /\ q # Len(w) => q + 1 <= Len(w)
      /\ (q + HeaderSize(w, q) <= Len(w) \/ q + HeaderSize(w, q) > Len(w))
  BY <1>1, <1>2
<1>4. CASE q = Len(w)
  BY <1>1, <1>4, SkipStops DEF SkipCode
<1>5. CASE q # Len(w) /\ q + HeaderSize(w, q) > Len(w)
  <2>1. q + 1 \in q .. Len(w)
    BY <1>1, <1>5
  <2> QED
    BY <1>5, <2>1, SkipStops DEF SkipCode
<1>6. CASE q # Len(w) /\ q + HeaderSize(w, q) <= Len(w)
  <2>1. NextTag(w, q) \in Nat
    BY <1>1, <1>6, Forward
  <2>2. ~Supported(w, q) \/ NextTag(w, q) > Len(w)
    BY <1>1, <1>3, <1>6, <2>1 DEF Readable
  <2>3. q + HeaderSize(w, q) \in q .. Len(w)
    BY <1>1, <1>2, <1>6
  <2> QED
    BY <1>6, <2>2, <2>3, SkipStops DEF SkipCode
<1> QED
  BY <1>3, <1>4, <1>5, <1>6

\* Discarding never goes back, nor past the end of the stream.
THEOREM SkipStaysInside ==
    ASSUME NEW w \in Stream, NEW p \in 0 .. Len(w), NEW nr \in Nat
    PROVE  SkipItems(w, p, nr) \in [head : p .. Len(w), ret : SkipCode]
<1> DEFINE Inside(q, need) == SkipItems(w, q, need) \in [head : q .. Len(w), ret : SkipCode]
           S == { q \in 0 .. Len(w) : \A need \in Nat : Inside(q, need) }
<1>1. Len(w) \in Nat
  BY StreamPositions
<1>2. ASSUME NEW q \in 0 .. Len(w), \A r \in q + 1 .. Len(w) : r \in S, NEW need \in Nat
      PROVE  Inside(q, need)
  <2>1. CASE need = 0
    BY <1>1, <2>1, SkipNone DEF SkipCode
  <2>2. CASE need # 0 /\ Readable(w, q)
    <3> DEFINE r == NextTag(w, q)
               more == need - 1 + Children(w, q)
    <3>1. /\ SkipItems(w, q, need) = SkipItems(w, r, more)
          /\ r \in q + 1 .. Len(w) /\ Children(w, q) \in Nat
      BY <2>2, SkipInto
    <3>2. more \in Nat
      BY <2>2, <3>1
    <3>3. Inside(r, more)
      BY <1>2, <3>1, <3>2
    <3> HIDE DEF r, more
    <3> QED
      BY <1>1, <3>1, <3>3
  <2>3. CASE need # 0 /\ ~Readable(w, q)
    BY <2>3, SkipBlocked
  <2> QED
    BY <2>1, <2>2, <2>3
<1>3. \A q \in 0 .. Len(w) : (\A r \in q + 1 .. Len(w) : r \in S) => q \in S
  BY <1>2
<1> HIDE DEF S
<1>4. p \in S
  BY <1>1, <1>3, BackwardInduction
<1> QED
  BY <1>4 DEF S

\* Discarding n items, then m more, is discarding n + m of them: an error met among
\* the first ones is that of the whole.
THEOREM SkipComposes ==
    ASSUME NEW w \in Stream, NEW p \in 0 .. Len(w), NEW n \in Nat, NEW m \in Nat
    PROVE  SkipItems(w, p, n + m) =
             IF SkipItems(w, p, n).ret = "OK" THEN SkipItems(w, SkipItems(w, p, n).head, m)
             ELSE SkipItems(w, p, n)
<1> DEFINE Split(q, i, j) ==
             SkipItems(w, q, i + j) =
               IF SkipItems(w, q, i).ret = "OK" THEN SkipItems(w, SkipItems(w, q, i).head, j)
               ELSE SkipItems(w, q, i)
           S == { q \in 0 .. Len(w) : \A i, j \in Nat : Split(q, i, j) }
<1>1. Len(w) \in Nat
  BY StreamPositions
<1>2. ASSUME NEW q \in 0 .. Len(w), \A r \in q + 1 .. Len(w) : r \in S,
             NEW i \in Nat, NEW j \in Nat
      PROVE  Split(q, i, j)
  <2>1. CASE i = 0
    BY <2>1, SkipNone
  <2>2. CASE i # 0 /\ Readable(w, q)
    <3> DEFINE r == NextTag(w, q)
               c == Children(w, q)
    <3>1. /\ SkipItems(w, q, i) = SkipItems(w, r, i - 1 + c)
          /\ SkipItems(w, q, i + j) = SkipItems(w, r, i + j - 1 + c)
          /\ r \in q + 1 .. Len(w) /\ c \in Nat
      BY <2>2, SkipInto
    <3> HIDE DEF r, c
    <3>2. i - 1 + c \in Nat /\ (i - 1 + c) + j = i + j - 1 + c
      BY <2>2, <3>1
    <3>3. Split(r, i - 1 + c, j)
      BY <1>2, <3>1, <3>2
    <3> QED
      BY <3>1, <3>2, <3>3
  <2>3. CASE i # 0 /\ ~Readable(w, q)
    <3>1. /\ SkipItems(w, q, i) = SkipItems(w, q, 1)
          /\ SkipItems(w, q, i + j) = SkipItems(w, q, 1)
          /\ SkipItems(w, q, i).ret # "OK"
      BY <2>3, SkipBlocked
    <3> QED
      BY <3>1
  <2> QED
    BY <2>1, <2>2, <2>3
<1>3. \A q \in 0 .. Len(w) : (\A r \in q + 1 .. Len(w) : r \in S) => q \in S
  BY <1>2
<1> HIDE DEF S
<1>4. p \in S
  BY <1>1, <1>3, BackwardInduction
<1> QED
  BY <1>4 DEF S

\* The same, from what discarding the first items came to.
LEMMA SkipFurther ==
    ASSUME NEW w \in Stream, NEW p \in 0 .. Len(w), NEW n \in Nat, NEW m \in Nat, NEW q,
           SkipItems(w, p, n) = [head |-> q, ret |-> "OK"]
    PROVE  SkipItems(w, p, n + m) = SkipItems(w, q, m) /\ q \in p .. Len(w)
<1>1. SkipItems(w, p, n).head = q /\ SkipItems(w, p, n).ret = "OK"
  OBVIOUS
<1>2. SkipItems(w, p, n + m) = SkipItems(w, q, m)
  BY <1>1, SkipComposes
<1>3. q \in p .. Len(w)
  BY <1>1, SkipStaysInside
<1> QED
  BY <1>2, <1>3

\* When more items are behind, so are fewer.
LEMMA SkipFewer ==
    ASSUME NEW w \in Stream, NEW p \in 0 .. Len(w), NEW n \in Nat, NEW m \in Nat,
           SkipItems(w, p, n + m).ret = "OK"
    PROVE  SkipItems(w, p, n).ret = "OK"
BY SkipComposes
=============================================================================
