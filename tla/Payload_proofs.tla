---------------------------- MODULE Payload_proofs ----------------------------
(***************************************************************************)
(* Theorems about Payload, for every stream, every limit and any number of *)
(* calls: what is allocated is held or freed and nothing is written        *)
(* outside; then what a call decodes, and where it leaves the decoder,     *)
(* which rests on the laws of SkipItems in module Wire_proofs.             *)
(***************************************************************************)
EXTENDS Payload, Wire_proofs, SequenceTheorems

-----------------------------------------------------------------------------
(* The inductive invariant of the memory. *)

\* The arguments that the assertions of the API let through.
Legal(c) ==
    /\ c \in Call
    /\ c.to = "lvstr" => c.of = "str"
    /\ c.to = "caller" => c.size = IF c.of = "str" THEN c.hi + 1 ELSE c.hi

\* The variables that the stream does not decide.
Typed ==
    /\ wire \in Seq(Unit)
    /\ pc \in {"idle", "tag", "length", "alloc", "dup", "cede", "copy"}
    /\ Legal(call)
    /\ len \in Nat /\ size \in Nat

\* The calls made, the last one being under way or over.
Logging ==
    /\ \E S : log \in Seq(S)
    /\ \A i \in 1 .. Len(log) :
          log[i] = [call |-> log[i].call, ret |-> log[i].ret, at |-> log[i].at]
    /\ pc # "idle" => Len(log) > 0 /\ log[Len(log)].call = call

\* The steps of a call depend on where it stores what it decodes.
Placed ==
    /\ pc \in {"alloc", "dup", "cede"} => call.to # "caller"
    /\ pc = "copy" => call.to = "caller"

\* The calls that are over: each block is held by the application, lost by one of
\* them, or in use by the call under way.
Closed == 1 .. (IF pc = "idle" THEN Len(log) ELSE Len(log) - 1)
Holding == held = { b \in Closed : log[b].call.to # "caller" /\ log[b].ret = "OK" }
Lost(b) == b \in Closed /\ log[b].call.of = "bin" /\ log[b].ret = "ENODATA"
Accounted == \A b \in heap \ held : Lost(b) \/ (pc \in {"dup", "cede"} /\ b = Len(log))

\* Nothing is written before there is room for it.
Unwritten == pc \in {"tag", "length", "alloc", "dup", "copy"} => value = <<>>
Room ==
    /\ pc \in {"tag", "length", "copy"} => size = call.size
    /\ pc = "dup" => size = IF call.of = "str" THEN len + 1 ELSE len
    /\ pc = "copy" => len <= call.hi

IInv ==
    /\ Typed /\ Logging /\ Placed /\ Holding /\ Accounted
    /\ Unwritten /\ Room /\ WrittenInside

-----------------------------------------------------------------------------
(* Facts about the constants and the operators. *)

LEMMA Constants ==
    /\ StrMax \in Nat /\ BinMax \in Nat /\ LvMax \in Nat
    /\ \A u \in Unit : u.n \in Nat
BY LimitsAssumption, UnitAssumption, LvAssumption

LEMMA CallsLegal == \A c \in Calls : Legal(c)
BY Constants
   DEF Calls, Legal, Call, Dup, Cede, Copy, Ranges, StrdupCalls, StrdupEquCalls, StrdupMaxCalls,
       StrdupRangeCalls, StrcpyCalls, StrcpyEquCalls, StrcpyRangeCalls, BindupCalls,
       BindupEquCalls, BindupMaxCalls, BindupRangeCalls, BincpyCalls, BincpyEquCalls,
       BincpyRangeCalls, LvstrCalls, LvstrEquCalls, LvstrMaxCalls, LvstrRangeCalls

LEMMA PayloadLength ==
    ASSUME len \in Nat
    PROVE  Len(Payload) = len /\ Len(Append(Payload, Null)) = len + 1
<1> DEFINE S == { wire[head + i].n : i \in 1 .. len }
<1>1. Payload \in Seq(S)
  BY DEF Payload
<1>2. Len(Payload) = len
  BY <1>1 DEF Payload
<1>3. Payload \in Seq(S \cup {Null})
  BY <1>1
<1> QED
  BY <1>2, <1>3, AppendProperties

-----------------------------------------------------------------------------
(* Each step preserves the invariant. *)

LEMMA InitIInv == Init => IInv
<1> SUFFICES ASSUME Init PROVE IInv
  OBVIOUS
<1>1. wire \in Seq(Unit)
  BY StreamsAssumption DEF Init
<1>2. Legal(NoCall)
  BY DEF Legal, NoCall, Dup, Call
<1>3. log = <<>> /\ log \in Seq({}) /\ Len(log) = 0 /\ value = <<>> /\ Len(value) = 0
  BY EmptySeq DEF Init
<1>4. Typed
  BY <1>1, <1>2 DEF Init, Typed
<1> QED
  BY <1>3, <1>4
     DEF Init, IInv, Logging, Placed, Closed, Holding, Accounted, Unwritten, Room, WrittenInside

\* A call begins: the calls that are over are the same.
LEMMA BeginKeeps ==
    ASSUME IInv, NEW c \in Calls, Begin(c)
    PROVE  IInv'
<1> DEFINE e == [call |-> c, ret |-> "none", at |-> head]
<1>1. Legal(c) /\ c.size \in Nat
  BY CallsLegal DEF Legal, Call
<1>2. PICK S : log \in Seq(S)
  BY DEF IInv, Logging
<1>3. log \in Seq(S \cup {e}) /\ e \in S \cup {e}
  BY <1>2
<1>4. log' = Append(log, e) /\ pc = "idle" /\ pc' = "tag"
  BY DEF Begin
<1>5. /\ log' \in Seq(S \cup {e}) /\ Len(log') = Len(log) + 1 /\ Len(log) \in Nat
      /\ \A i \in 1 .. Len(log) : log'[i] = log[i]
      /\ log'[Len(log) + 1] = e
  BY <1>3, <1>4, AppendProperties, LenProperties
<1>6. Closed' = Closed /\ Closed = 1 .. Len(log)
  BY <1>4, <1>5 DEF Closed
<1>7. Typed'
  BY <1>1 DEF Begin, decoder, IInv, Typed
<1>8. Logging'
  <2>1. e = [call |-> e.call, ret |-> e.ret, at |-> e.at] /\ e.call = c
    OBVIOUS
  <2>2. ASSUME NEW i \in 1 .. Len(log')
        PROVE  log'[i] = [call |-> log'[i].call, ret |-> log'[i].ret, at |-> log'[i].at]
    <3>1. i \in 1 .. Len(log) \/ i = Len(log) + 1
      BY <1>5
    <3> QED
      BY <1>5, <2>1, <3>1 DEF IInv, Logging
  <2> QED
    BY <1>5, <2>1, <2>2 DEF Begin, Logging
<1>9. Holding' /\ Accounted'
  BY <1>4, <1>5, <1>6 DEF Begin, IInv, Holding, Accounted, Lost
<1>10. Len(value') = 0
  BY EmptySeq DEF Begin
<1> QED
  BY <1>1, <1>4, <1>7, <1>8, <1>9, <1>10
     DEF Begin, IInv, Placed, Unwritten, Room, WrittenInside

\* What Return says of the variables other than the position and the blocks.
Returns(code) ==
    /\ pc' = "idle" /\ ret' = code /\ Logged(code)
    /\ UNCHANGED <<decoder, call, len, size>>

\* The block of a call, at its end, is where its outcome says.
Disposed(code) ==
    /\ Len(value') <= size
    /\ held' = IF call.to # "caller" /\ code = "OK" THEN held \cup {Block} ELSE held
    /\ \A b \in heap' \ held' :
          \/ b \in heap \ held /\ b # Block
          \/ b = Block /\ call.of = "bin" /\ code = "ENODATA"

\* The outcome of the call under way is logged.
LEMMA ReturnLog ==
    ASSUME IInv, pc # "idle", NEW code, Logged(code)
    PROVE  LET n == Len(log)
               e == [call |-> call, ret |-> code, at |-> log[n].at]
           IN  /\ n \in Nat /\ n > 0 /\ log[n].call = call
               /\ log[n] = [call |-> call, ret |-> log[n].ret, at |-> log[n].at]
               /\ \E S : log' \in Seq(S)
               /\ Len(log') = n
               /\ \A i \in 1 .. n - 1 : log'[i] = log[i]
               /\ log'[n] = e
<1> DEFINE n == Len(log)
           e == [call |-> call, ret |-> code, at |-> log[n].at]
<1>1. PICK S : log \in Seq(S)
  BY DEF IInv, Logging
<1>2. n \in Nat /\ n > 0 /\ log[n].call = call
      /\ log[n] = [call |-> call, ret |-> log[n].ret, at |-> log[n].at]
  BY <1>1, LenProperties DEF IInv, Logging
<1>3. [log[n] EXCEPT !.ret = code] = e
  BY <1>2
<1>4. log' = [log EXCEPT ![n] = e]
  BY <1>3 DEF Logged
<1>5. /\ log' \in Seq(S \cup {e}) /\ Len(log') = n
      /\ \A i \in 1 .. n - 1 : log'[i] = log[i]
      /\ log'[n] = e
  <2>1. log \in Seq(S \cup {e})
    BY <1>1
  <2> QED
    BY <1>2, <1>4, <2>1
<1> QED
  BY <1>2, <1>5

LEMMA ReturnKeeps ==
    ASSUME IInv, pc # "idle", NEW code, Returns(code), Disposed(code)
    PROVE  IInv'
<1> DEFINE n == Len(log)
           e == [call |-> call, ret |-> code, at |-> log[n].at]
<1>1. PICK S : log' \in Seq(S)
  BY ReturnLog DEF Returns
<1>2. n \in Nat /\ n > 0 /\ log[n].call = call
      /\ log[n] = [call |-> call, ret |-> log[n].ret, at |-> log[n].at]
  BY ReturnLog DEF Returns
<1>5. /\ Len(log') = n
      /\ \A i \in 1 .. n - 1 : log'[i] = log[i]
      /\ log'[n] = e
  BY ReturnLog DEF Returns
<1>6. Closed = 1 .. n - 1 /\ Closed' = 1 .. n /\ Block = n
  BY <1>5 DEF Closed, Returns, Block
<1>7. Typed'
  BY DEF Returns, decoder, IInv, Typed
<1>8. Logging'
  <2>1. ASSUME NEW i \in 1 .. n
        PROVE  log'[i] = [call |-> log'[i].call, ret |-> log'[i].ret, at |-> log'[i].at]
    <3>1. i \in 1 .. n - 1 \/ i = n
      BY <1>2
    <3> QED
      BY <1>5, <3>1 DEF IInv, Logging
  <2> QED
    BY <1>1, <1>5, <2>1 DEF Returns, Logging
<1>9. Holding'
  <2>1. ASSUME NEW b
        PROVE  (b \in Closed' /\ log'[b].call.to # "caller" /\ log'[b].ret = "OK") <=> b \in held'
    <3>1. CASE b \in 1 .. n - 1
      BY <1>2, <1>5, <1>6, <3>1 DEF IInv, Holding, Disposed
    <3>2. CASE b = n
      BY <1>2, <1>5, <1>6, <3>2 DEF IInv, Holding, Disposed
    <3>3. CASE b \notin 1 .. n
      BY <1>2, <1>6, <3>3 DEF IInv, Holding, Disposed
    <3> QED
      BY <1>2, <3>1, <3>2, <3>3
  <2> QED
    BY <2>1 DEF Returns, Holding
<1>10. Accounted'
  <2>1. SUFFICES ASSUME NEW b \in heap' \ held' PROVE Lost(b)'
    BY DEF Returns, Accounted
  <2>2. CASE b \in heap \ held /\ b # Block
    <3>1. Lost(b)
      BY <1>6, <2>2 DEF IInv, Accounted
    <3> QED
      BY <1>2, <1>5, <1>6, <3>1 DEF Lost
  <2>3. CASE b = Block /\ call.of = "bin" /\ code = "ENODATA"
    BY <1>2, <1>5, <1>6, <2>3 DEF Lost
  <2> QED
    BY <2>1, <2>2, <2>3 DEF Disposed
<1> QED
  BY <1>7, <1>8, <1>9, <1>10 DEF Returns, Disposed, IInv, Placed, Unwritten, Room, WrittenInside

\* The blocks of the calls that are over are not that of the call under way.
LEMMA BlockNew ==
    ASSUME IInv, pc # "idle"
    PROVE  /\ Block \notin held
           /\ \A b \in heap \ held : pc \notin {"dup", "cede"} => b # Block
<1>1. Len(log) \in Nat
  BY LenProperties DEF IInv, Logging
<1> QED
  BY <1>1 DEF IInv, Holding, Accounted, Lost, Closed, Block

\* A failure before the block is allocated keeps the memory as it is.
LEMMA FailKeeps ==
    ASSUME IInv, pc \in {"tag", "length", "alloc", "copy"}, NEW code, code # "OK", NEW p,
           Fail(code, p)
    PROVE  IInv'
<1>1. Returns(code) /\ heap' = heap /\ held' = held /\ value' = value
  BY DEF Fail, Return, Returns
<1>2. Len(value') <= size
  BY <1>1 DEF IInv, WrittenInside
<1>3. Disposed(code)
  BY <1>1, <1>2, BlockNew DEF Disposed
<1> QED
  BY <1>1, <1>3, ReturnKeeps
-----------------------------------------------------------------------------
(* The steps inside a call. *)

\* A step inside a call leaves the calls that are over as they are.
LEMMA InsideKeeps ==
    ASSUME IInv, pc # "idle",
           pc' \in {"tag", "length", "alloc", "dup", "cede", "copy"},
           UNCHANGED <<decoder, call, held, log>>, len' \in Nat, size' \in Nat
    PROVE  Typed' /\ Logging' /\ Holding' /\ Closed' = Closed
<1>1. Closed' = Closed
  BY DEF Closed
<1>2. Typed'
  BY DEF IInv, Typed, decoder
<1>3. Logging'
  BY DEF IInv, Logging
<1> QED
  BY <1>1, <1>2, <1>3 DEF IInv, Holding

LEMMA LoadedKeeps ==
    ASSUME IInv, pc = "tag", NEW n \in Nat, NEW p, Loaded(n, p)
    PROVE  IInv'
<1>1. Typed' /\ Logging' /\ Holding' /\ Closed' = Closed
  BY InsideKeeps DEF Loaded, IInv, Typed
<1> QED
  BY <1>1
     DEF Loaded, IInv, Placed, Accounted, Lost, Unwritten, Room, WrittenInside

LEMMA CountKeeps ==
    ASSUME IInv, pc = "tag", LoadCount
    PROVE  IInv'
<1>1. CASE head + 2 \in DOMAIN wire /\ Loaded(wire[head + 2].n, head + 2)
  <2>1. wire[head + 2] \in Unit
    BY <1>1 DEF IInv, Typed
  <2>2. wire[head + 2].n \in Nat
    BY <2>1, Constants
  <2> QED
    BY <1>1, <2>2, LoadedKeeps
<1>2. CASE head + 2 \notin DOMAIN wire /\ Fail("ENODATA", head + 1)
  BY <1>2, FailKeeps
<1> QED
  BY <1>1, <1>2 DEF LoadCount

LEMMA MismatchKeeps ==
    ASSUME IInv, pc = "tag", Mismatch
    PROVE  IInv'
<1> DEFINE whole == SkipItems(wire, head, 1)
<1>1. CASE ~disc /\ Fail("ENOMSG", head + 1)
  BY <1>1, FailKeeps
<1>2. CASE disc /\ whole.ret = "OK" /\ Fail("ENOMSG", whole.head)
  BY <1>2, FailKeeps
<1>3. CASE disc /\ whole.ret # "OK" /\ Fail(whole.ret, whole.head)
  BY <1>3, FailKeeps
<1> QED
  BY <1>1, <1>2, <1>3 DEF Mismatch

LEMMA TagKeeps ==
    ASSUME IInv, LoadStrTag \/ LoadBinTag \/ NoTag
    PROVE  IInv'
<1>1. CASE LoadStrTag
  <2>1. wire[head + 1] \in Unit
    BY <1>1 DEF LoadStrTag, IInv, Typed
  <2>2. wire[head + 1].n \in Nat
    BY <2>1, Constants
  <2> QED
    BY <1>1, <2>2, LoadedKeeps, CountKeeps, MismatchKeeps DEF LoadStrTag
<1>2. CASE LoadBinTag
  BY <1>2, CountKeeps, MismatchKeeps DEF LoadBinTag
<1>3. CASE NoTag
  BY <1>3, FailKeeps DEF NoTag
<1> QED
  BY <1>1, <1>2, <1>3

LEMMA LengthKeeps ==
    ASSUME IInv, LengthAccepted \/ LengthRefused
    PROVE  IInv'
<1>1. CASE LengthAccepted
  <2>1. Typed' /\ Logging' /\ Holding' /\ Closed' = Closed
    BY <1>1, InsideKeeps DEF LengthAccepted, IInv, Typed
  <2> QED
    BY <1>1, <2>1
       DEF LengthAccepted, InBounds, IInv, Placed, Accounted, Lost, Unwritten, Room, WrittenInside
<1>2. CASE LengthRefused
  BY <1>2, FailKeeps DEF LengthRefused, MaybeSkip
<1> QED
  BY <1>1, <1>2

LEMMA AllocateKeeps ==
    ASSUME IInv, Allocate \/ AllocationFails
    PROVE  IInv'
<1>1. CASE Allocate
  <2>1. size' \in Nat
    BY <1>1 DEF Allocate, IInv, Typed
  <2>2. Typed' /\ Logging' /\ Holding' /\ Closed' = Closed
    BY <1>1, <2>1, InsideKeeps DEF Allocate, IInv, Typed
  <2>3. Accounted'
    BY <1>1, <2>2 DEF Allocate, Block, IInv, Accounted, Lost
  <2>4. Len(value') = 0
    BY <1>1, EmptySeq DEF Allocate, IInv, Unwritten
  <2> QED
    BY <1>1, <2>1, <2>2, <2>3, <2>4
       DEF Allocate, IInv, Placed, Unwritten, Room, WrittenInside
<1>2. CASE AllocationFails
  BY <1>2, FailKeeps DEF AllocationFails
<1> QED
  BY <1>1, <1>2

-----------------------------------------------------------------------------
(* The end of a call that copies the payload. *)

\* What Return says, for each of the steps that use it.
LEMMA ReturnParts ==
    ASSUME NEW code, NEW p, NEW h, NEW a, Return(code, p, h, a)
    PROVE  Returns(code) /\ heap' = h /\ held' = a
BY DEF Return, Returns

\* There is room for the payload, and for the terminator of a string.
LEMMA PayloadFits ==
    ASSUME IInv, pc \in {"dup", "copy"}
    PROVE  /\ Len(Payload) <= size
           /\ call.of = "str" => Len(Append(Payload, Null)) <= size
<1>1. len \in Nat /\ size \in Nat /\ Legal(call)
  BY DEF IInv, Typed
<1>2. Len(Payload) = len /\ Len(Append(Payload, Null)) = len + 1
  BY <1>1, PayloadLength
<1>3. CASE pc = "dup"
  BY <1>1, <1>2, <1>3 DEF IInv, Room
<1>4. CASE pc = "copy"
  BY <1>1, <1>2, <1>4 DEF IInv, Room, Placed, Legal, Call
<1> QED
  BY <1>3, <1>4

LEMMA DupKeeps ==
    ASSUME IInv, DupShort \/ BindupDone \/ StrdupDone \/ StrdupUnclean
    PROVE  IInv'
<1>0. pc = "dup" /\ call.to # "caller" /\ call.of \in {"str", "bin"}
  BY DEF DupShort, BindupDone, StrdupDone, StrdupUnclean, IInv, Placed, Typed, Legal, Call
<1>1. CASE DupShort
  <2>1. /\ Returns("ENODATA") /\ held' = held /\ value' = value
        /\ heap' = IF call.of = "str" THEN heap \ {Block} ELSE heap
    BY <1>1, ReturnParts DEF DupShort
  <2>2. Len(value') <= size
    BY <2>1 DEF IInv, WrittenInside
  <2>3. Disposed("ENODATA")
    BY <1>0, <2>1, <2>2, BlockNew DEF Disposed
  <2> QED
    BY <1>0, <2>1, <2>3, ReturnKeeps
<1>2. CASE BindupDone
  <2>1. Returns("OK") /\ held' = held \cup {Block} /\ heap' = heap /\ value' = Payload
    BY <1>2, ReturnParts DEF BindupDone
  <2>2. Len(value') <= size
    BY <1>0, <2>1, PayloadFits
  <2>3. Disposed("OK")
    BY <1>0, <2>1, <2>2 DEF Disposed
  <2> QED
    BY <1>0, <2>1, <2>3, ReturnKeeps
<1>3. CASE StrdupDone
  <2>1. Returns("OK") /\ held' = held \cup {Block} /\ heap' = heap
        /\ value' = Append(Payload, Null) /\ call.of = "str"
    BY <1>3, ReturnParts DEF StrdupDone
  <2>2. Len(value') <= size
    BY <1>0, <2>1, PayloadFits
  <2>3. Disposed("OK")
    BY <1>0, <2>1, <2>2 DEF Disposed
  <2> QED
    BY <1>0, <2>1, <2>3, ReturnKeeps
<1>4. CASE StrdupUnclean
  <2>1. Returns("EBADMSG") /\ held' = held /\ heap' = heap \ {Block} /\ value' = Payload
    BY <1>4, ReturnParts DEF StrdupUnclean
  <2>2. Len(value') <= size
    BY <1>0, <2>1, PayloadFits
  <2>3. Disposed("EBADMSG")
    BY <1>0, <2>1, <2>2 DEF Disposed
  <2> QED
    BY <1>0, <2>1, <2>3, ReturnKeeps
<1> QED
  BY <1>1, <1>2, <1>3, <1>4

LEMMA LvstrKeeps ==
    ASSUME IInv, StrdupReturns \/ LvstrCeded
    PROVE  IInv'
<1>1. CASE StrdupReturns
  <2>1. Typed' /\ Logging' /\ Holding' /\ Closed' = Closed
    BY <1>1, InsideKeeps DEF StrdupReturns, IInv, Typed
  <2>2. Accounted'
    BY <1>1, <2>1 DEF StrdupReturns, IInv, Accounted, Lost
  <2>3. Len(value') <= size
    BY <1>1, PayloadFits DEF StrdupReturns, IInv, Typed, Legal
  <2> QED
    BY <1>1, <2>1, <2>2, <2>3
       DEF StrdupReturns, IInv, Placed, Unwritten, Room, WrittenInside
<1>2. CASE LvstrCeded
  <2>1. pc = "cede" /\ call.to # "caller"
    BY <1>2 DEF LvstrCeded, IInv, Placed
  <2>2. Returns("OK") /\ held' = held \cup {Block} /\ heap' = heap /\ value' = value
    BY <1>2, ReturnParts DEF LvstrCeded
  <2>3. Len(value') <= size
    BY <2>2 DEF IInv, WrittenInside
  <2>4. Disposed("OK")
    BY <2>1, <2>2, <2>3 DEF Disposed
  <2> QED
    BY <2>1, <2>2, <2>4, ReturnKeeps
<1> QED
  BY <1>1, <1>2

LEMMA CopyKeeps ==
    ASSUME IInv, CopyShort \/ BincpyDone \/ StrcpyDone \/ StrcpyUnclean
    PROVE  IInv'
<1>0. pc = "copy" /\ call.to = "caller"
  BY DEF CopyShort, BincpyDone, StrcpyDone, StrcpyUnclean, IInv, Placed
<1>1. CASE CopyShort
  BY <1>1, FailKeeps DEF CopyShort
<1>2. ASSUME NEW code, NEW p, Return(code, p, heap, held), Len(value') <= size
      PROVE  IInv'
  <2>1. Returns(code) /\ held' = held /\ heap' = heap
    BY <1>2, ReturnParts
  <2>2. Disposed(code)
    BY <1>0, <1>2, <2>1, BlockNew DEF Disposed
  <2> QED
    BY <1>0, <2>1, <2>2, ReturnKeeps
<1>3. CASE BincpyDone
  BY <1>0, <1>2, <1>3, PayloadFits DEF BincpyDone
<1>4. CASE StrcpyDone
  BY <1>0, <1>2, <1>4, PayloadFits DEF StrcpyDone
<1>5. CASE StrcpyUnclean
  BY <1>0, <1>2, <1>5, PayloadFits DEF StrcpyUnclean
<1> QED
  BY <1>1, <1>3, <1>4, <1>5

LEMMA NextKeeps ==
    ASSUME IInv, [Next]_vars
    PROVE  IInv'
<1>1. CASE \E c \in Calls : Begin(c)
  BY <1>1, BeginKeeps
<1>2. CASE Extract
  BY <1>2, DupKeeps, LvstrKeeps, CopyKeeps DEF Extract
<1>3. CASE UNCHANGED vars
  BY <1>3
     DEF vars, decoder, IInv, Typed, Logging, Placed, Holding, Closed, Accounted, Lost,
         Unwritten, Room, WrittenInside
<1> QED
  BY <1>1, <1>2, <1>3, TagKeeps, LengthKeeps, AllocateKeeps DEF Next

LEMMA Invariant == Spec => []IInv
BY InitIInv, NextKeeps, PTL DEF Spec

-----------------------------------------------------------------------------
(* Theorems *)

\* Between two calls, every block that malloc() returned was freed or is held by
\* the application, except that of a binary cut short, whatever failed on the way:
\* data that end early, a null character, malloc() (string.c:224-250, bin.c:190-207).
THEOREM BlocksKept == Spec => []NothingElseLost
<1>1. IInv => NothingElseLost
  <2> SUFFICES ASSUME IInv, pc = "idle" PROVE NothingElseLost
    BY DEF NothingElseLost
  <2>1. Len(log) \in Nat /\ DOMAIN log = 1 .. Len(log)
    BY LenProperties DEF IInv, Logging
  <2>2. Closed = DOMAIN log
    BY <2>1 DEF Closed
  <2> QED
    BY <2>2 DEF IInv, Holding, Accounted, Lost, NothingElseLost
<1> QED
  BY <1>1, Invariant, PTL

\* Neither the blocks nor the memory of the caller are ever written past their end,
\* with the terminator of strings, for any bounds the API lets through and any
\* length the stream announces (string.c:241,412, bin.c:199,349).
THEOREM NoOverrun == Spec => []WrittenInside
<1>1. IInv => WrittenInside
  BY DEF IInv
<1> QED
  BY <1>1, Invariant, PTL

-----------------------------------------------------------------------------
(* The inductive invariant of positions. *)

Codes == {"OK", "ENODATA", "ENOTSUP", "ENOMSG", "EBADMSG", "EMSGSIZE", "ENOMEM"}

\* The payload of the item at position p of stream w.
PayloadAt(w, p) == [i \in 1 .. Count(w, p) |-> w[p + HeaderSize(w, p) + i].n]

Matches(w, c, p) ==
    /\ p + 1 <= Len(w)
    /\ w[p + 1].kind \in (IF c.of = "str" THEN {"fixstr", "str"} ELSE {"bin"})

\* Call c, begun at position p, was right to end at position q with length n and value v.
Intact(w, c, p, q, n, v) ==
    /\ w[p + 1].kind \in (IF c.of = "str" THEN {"fixstr", "str"} ELSE {"bin"})
    /\ SkipItems(w, p, 1) = [head |-> q, ret |-> "OK"]
    /\ n = Count(w, p) /\ c.lo <= Count(w, p) /\ Count(w, p) <= c.hi
    /\ v = IF c.of = "str" THEN Append(PayloadAt(w, p), Null) ELSE PayloadAt(w, p)
    /\ c.of = "str" => \A i \in 1 .. Count(w, p) : PayloadAt(w, p)[i] # Null

\* Blocks belong to calls, and the application holds live ones.
Owned ==
    /\ held \subseteq heap /\ heap \subseteq 1 .. Len(log)
    /\ pc \in {"dup", "cede"} => Block \in heap

Bounded ==
    /\ disc \in Modes /\ head \in 0 .. Len(wire) /\ ret \in Codes /\ value \in Seq(Nat)
    /\ Len(log) <= MaxCalls
    /\ wire \in Stream

\* As many items are behind as there are calls that ended, if the application goes on.
BetweenCalls ==
    pc = "idle" =>
        /\ log = <<>> => ret \in Recoverable
        /\ ret \in Recoverable => SkipItems(wire, 0, Len(log)) = [head |-> head, ret |-> "OK"]
        /\ log # <<>> => ret = Last.ret
        /\ Ended /\ ret = "OK" => Intact(wire, call, Last.at, head, len, value)

InsideCall ==
    pc # "idle" =>
        /\ Last.at \in 0 .. Len(wire)
        /\ call.hi <= MaxOf(call)
        /\ \E n \in Nat : n + 1 = Len(log) /\ SkipItems(wire, 0, n) = [head |-> Last.at, ret |-> "OK"]

\* The tag, the count and the payload are read one after the other.
Reading ==
    /\ pc = "tag" => head = Last.at
    /\ pc \in {"length", "alloc", "dup", "copy"} =>
         /\ Matches(wire, call, Last.at)
         /\ head = Last.at + HeaderSize(wire, Last.at)
         /\ len = Count(wire, Last.at)
    /\ pc \in {"alloc", "dup", "copy"} => call.lo <= len /\ len <= call.hi
    /\ pc = "cede" => Intact(wire, call, Last.at, head, len, value)

InPlace == Owned /\ Bounded /\ BetweenCalls /\ InsideCall /\ Reading

-----------------------------------------------------------------------------
(* Facts about the calls and the item they decode. *)

LEMMA CallsBounded == \A c \in Calls : c.hi <= MaxOf(c)
BY Constants, LvAssumption
   DEF Calls, MaxOf, Dup, Cede, Copy, Ranges, StrdupCalls, StrdupEquCalls, StrdupMaxCalls,
       StrdupRangeCalls, StrcpyCalls, StrcpyEquCalls, StrcpyRangeCalls, BindupCalls,
       BindupEquCalls, BindupMaxCalls, BindupRangeCalls, BincpyCalls, BincpyEquCalls,
       BincpyRangeCalls, LvstrCalls, LvstrEquCalls, LvstrMaxCalls, LvstrRangeCalls

LEMMA CallUnderWay ==
    ASSUME IInv, InPlace, pc # "idle"
    PROVE  /\ wire \in Stream /\ wire \in Seq(Unit) /\ Len(wire) \in Nat
           /\ DOMAIN wire = 1 .. Len(wire)
           /\ Last.at \in 0 .. Len(wire) /\ head \in 0 .. Len(wire)
           /\ call.of \in {"str", "bin"} /\ call.hi <= MaxOf(call) /\ call.lo \in Nat /\ call.hi \in Nat
           /\ MaxOf(call) \in Nat /\ len \in Nat /\ StrMax \in Nat /\ BinMax \in Nat
           /\ Len(log) \in Nat /\ Len(log) > 0
BY StreamPositions, Constants, LenProperties
   DEF InPlace, Bounded, InsideCall, IInv, Typed, Legal, Call, MaxOf, Logging

\* An item within its limit whose payload is there is read whole.
LEMMA ReadWhole ==
    ASSUME NEW w \in Stream, NEW p \in 0 .. Len(w), NEW c, c.of \in {"str", "bin"}, Matches(w, c, p),
           NEW n \in Nat, n = Count(w, p), n <= MaxOf(c),
           NEW q, q = p + HeaderSize(w, p) + n, q <= Len(w)
    PROVE  SkipItems(w, p, 1) = [head |-> q, ret |-> "OK"] /\ q \in 0 .. Len(w)
<1>1. Len(w) \in Nat /\ HeaderSize(w, p) \in {1, 2}
  BY StreamPositions DEF HeaderSize
<1>2. Supported(w, p) /\ PayloadSize(w, p) = n /\ Children(w, p) = 0
  BY DEF Matches, MaxOf, Supported, PayloadSize, Children
<1>3. q = NextTag(w, p)
  BY <1>2 DEF NextTag
<1>4. p + HeaderSize(w, p) <= Len(w)
  BY <1>1
<1>5. Readable(w, p)
  BY <1>2, <1>3, <1>4 DEF Readable, Matches
<1>6. SkipItems(w, p, 1) = SkipItems(w, NextTag(w, p), 1 - 1 + Children(w, p))
  BY <1>5, SkipInto
<1>7. 1 - 1 + Children(w, p) = 0
  BY <1>2
<1>8. q \in 0 .. Len(w)
  BY <1>1
<1>9. SkipItems(w, q, 0) = [head |-> q, ret |-> "OK"]
  BY <1>8, SkipNone
<1> QED
  BY <1>3, <1>6, <1>7, <1>8, <1>9

\* What the call copies is the payload of its item.
LEMMA PayloadOfItem ==
    ASSUME IInv, InPlace, pc \in {"dup", "copy"}, Available, NEW end, end = head + len
    PROVE  /\ Payload \in Seq(Nat) /\ Append(Payload, Null) \in Seq(Nat)
           /\ SkipItems(wire, Last.at, 1) = [head |-> end, ret |-> "OK"]
           /\ end \in 0 .. Len(wire)
           /\ call.of = "str" /\ Clean =>
                Intact(wire, call, Last.at, end, len, Append(Payload, Null))
           /\ call.of = "bin" => Intact(wire, call, Last.at, end, len, Payload)
<1>1. /\ wire \in Stream /\ wire \in Seq(Unit) /\ Len(wire) \in Nat
      /\ Last.at \in 0 .. Len(wire) /\ head \in 0 .. Len(wire)
      /\ call.of \in {"str", "bin"} /\ call.hi <= MaxOf(call) /\ call.lo \in Nat /\ call.hi \in Nat
      /\ MaxOf(call) \in Nat /\ len \in Nat
  BY CallUnderWay
<1>2. /\ Matches(wire, call, Last.at)
      /\ head = Last.at + HeaderSize(wire, Last.at)
      /\ len = Count(wire, Last.at)
      /\ call.lo <= len /\ len <= call.hi
  BY DEF InPlace, Reading
<1>3. PICK at : at = Last.at
  OBVIOUS
<1>5. end <= Len(wire) /\ len <= MaxOf(call)
  BY <1>1, <1>2 DEF Available
<1>6. SkipItems(wire, at, 1) = [head |-> end, ret |-> "OK"] /\ end \in 0 .. Len(wire)
  BY <1>1, <1>2, <1>3, <1>5, ReadWhole
<1>7. \A i \in 1 .. len : wire[head + i].n \in Nat
  <2> TAKE i \in 1 .. len
  <2>1. head + i \in 1 .. Len(wire)
    BY <1>1, <1>5
  <2>2. wire[head + i] \in Unit
    BY <1>1, <2>1
  <2> QED
    BY <2>2, Constants
<1>8. Payload \in Seq(Nat)
  BY <1>1, <1>7 DEF Payload
<1>9. Append(Payload, Null) \in Seq(Nat)
  BY <1>8, AppendProperties DEF Null
<1>10. Payload = PayloadAt(wire, at)
  BY <1>2, <1>3 DEF Payload, PayloadAt
<1>11. wire[at + 1].kind \in (IF call.of = "str" THEN {"fixstr", "str"} ELSE {"bin"})
  BY <1>2, <1>3 DEF Matches
<1>12. CASE call.of = "str"
  <2>1. Clean => \A i \in 1 .. Count(wire, at) : PayloadAt(wire, at)[i] # Null
    BY <1>2, <1>3, <1>10 DEF Clean
  <2> QED
    BY <1>2, <1>3, <1>6, <1>8, <1>9, <1>10, <1>11, <1>12, <2>1 DEF Intact
<1>13. CASE call.of = "bin"
  BY <1>2, <1>3, <1>6, <1>8, <1>9, <1>10, <1>11, <1>13 DEF Intact
<1> QED
  BY <1>1, <1>12, <1>13

-----------------------------------------------------------------------------
(* Each step preserves the invariant of positions. *)

LEMMA InitInPlace == Init => InPlace
<1> SUFFICES ASSUME Init PROVE InPlace
  OBVIOUS
<1>1. wire \in Stream /\ Len(wire) \in Nat
  BY StreamsAssumption, StreamOfUnits, StreamPositions DEF Init
<1>2. log = <<>> /\ Len(log) = 0 /\ value \in Seq(Nat)
  BY EmptySeq DEF Init
<1>3. SkipItems(wire, 0, Len(log)) = [head |-> head, ret |-> "OK"]
  BY <1>1, <1>2, SkipNone DEF Init
<1> QED
  BY <1>1, <1>2, <1>3, CallsAssumption
     DEF Init, InPlace, Owned, Bounded, Codes, BetweenCalls, Recoverable, Ended, InsideCall, Reading

\* The call that begins is for the item after those of the calls before it.
LEMMA BeginInPlace ==
    ASSUME IInv, InPlace, NEW c \in Calls, Begin(c)
    PROVE  InPlace'
<1> DEFINE e == [call |-> c, ret |-> "none", at |-> head]
<1>1. /\ pc = "idle" /\ ret \in Recoverable /\ Len(log) < MaxCalls
      /\ pc' = "tag" /\ call' = c /\ value' = <<>> /\ log' = Append(log, e)
      /\ UNCHANGED <<wire, disc, head, ret, heap, held>>
  BY DEF Begin, decoder
<1>2. PICK S : log \in Seq(S)
  BY DEF IInv, Logging
<1>3. log \in Seq(S \cup {e}) /\ e \in S \cup {e}
  BY <1>2
<1>4. Len(log') = Len(log) + 1 /\ Len(log) \in Nat /\ log'[Len(log) + 1] = e
  BY <1>1, <1>3, AppendProperties, LenProperties
<1>5. Last'.at = head
  BY <1>4 DEF Last
<1>6. head \in 0 .. Len(wire) /\ MaxCalls \in Nat
  BY CallsAssumption DEF InPlace, Bounded
<1>7. SkipItems(wire, 0, Len(log)) = [head |-> head, ret |-> "OK"]
  BY <1>1 DEF InPlace, BetweenCalls
<1>8. MaxOf(call)' = MaxOf(c) /\ c.hi <= MaxOf(c)
  BY <1>1, CallsBounded DEF MaxOf
<1>9. InsideCall'
  <2>1. PICK n \in Nat : n = Len(log)
    BY <1>4
  <2>2. SkipItems(wire', 0, n) = [head |-> Last'.at, ret |-> "OK"] /\ n + 1 = Len(log')
    BY <1>1, <1>4, <1>5, <1>7, <2>1
  <2> QED
    BY <1>1, <1>5, <1>6, <1>8, <2>2 DEF InsideCall
<1>10. Owned' /\ Bounded'
  BY <1>1, <1>4, <1>6 DEF InPlace, Owned, Bounded
<1> QED
  BY <1>1, <1>5, <1>9, <1>10 DEF InPlace, BetweenCalls, Reading

\* A call that ends: where the decoder is, what is stored and which blocks are left.
LEMMA ReturnInPlace ==
    ASSUME IInv, InPlace, pc # "idle", NEW code \in Codes, NEW p, NEW h, NEW a,
           Return(code, p, h, a), p \in 0 .. Len(wire), value' \in Seq(Nat),
           a \subseteq h, h \subseteq 1 .. Len(log),
           code \in Recoverable => SkipItems(wire, Last.at, 1) = [head |-> p, ret |-> "OK"],
           code = "OK" => Intact(wire, call, Last.at, p, len, value')
    PROVE  InPlace'
<1>1. /\ pc' = "idle" /\ head' = p /\ ret' = code /\ heap' = h /\ held' = a /\ Logged(code)
      /\ UNCHANGED <<wire, disc, call, len>>
  BY DEF Return, decoder
<1>2. PICK n : n = Len(log)
  OBVIOUS
<1>3. /\ n \in Nat /\ n > 0 /\ Len(log') = n
      /\ log'[n] = [call |-> call, ret |-> code, at |-> log[n].at]
      /\ \E S : log' \in Seq(S)
  BY <1>1, <1>2, ReturnLog
<1>4. Last'.at = Last.at /\ Last'.ret = code /\ log' # <<>>
  <2>1. log' # <<>>
    BY <1>3, EmptySeq
  <2> QED
    BY <1>2, <1>3, <2>1 DEF Last
<1>5. ASSUME code \in Recoverable
      PROVE  SkipItems(wire, 0, n) = [head |-> p, ret |-> "OK"]
  <2>1. PICK m \in Nat : m + 1 = n /\ SkipItems(wire, 0, m) = [head |-> Last.at, ret |-> "OK"]
    BY <1>2 DEF InPlace, InsideCall
  <2>2. wire \in Stream /\ 0 \in 0 .. Len(wire)
    BY StreamPositions DEF InPlace, Bounded
  <2>3. SkipItems(wire, 0, m + 1) = SkipItems(wire, Last.at, 1)
    BY <2>1, <2>2, SkipFurther
  <2> QED
    BY <1>5, <2>1, <2>3
<1>6. Recoverable' = Recoverable
  BY <1>1 DEF Recoverable
<1>7. BetweenCalls'
  <2>1. code \in Recoverable => SkipItems(wire', 0, Len(log')) = [head |-> head', ret |-> "OK"]
    BY <1>1, <1>3, <1>5
  <2>2. code = "OK" => Intact(wire', call', Last'.at, head', len', value')
    BY <1>1, <1>4
  <2> QED
    BY <1>1, <1>4, <1>6, <2>1, <2>2 DEF BetweenCalls
<1>8. Owned' /\ Bounded'
  BY <1>1, <1>2, <1>3 DEF InPlace, Owned, Bounded
<1> QED
  BY <1>1, <1>7, <1>8 DEF InPlace, InsideCall, Reading

LEMMA FailInPlace ==
    ASSUME IInv, InPlace, pc # "idle", NEW code \in Codes \ {"OK"}, NEW p \in 0 .. Len(wire),
           Fail(code, p),
           code \in Recoverable => SkipItems(wire, Last.at, 1) = [head |-> p, ret |-> "OK"]
    PROVE  InPlace'
<1>1. Return(code, p, heap, held) /\ value' = value
  BY DEF Fail
<1>2. value' \in Seq(Nat) /\ held \subseteq heap /\ heap \subseteq 1 .. Len(log)
  BY <1>1 DEF InPlace, Bounded, Owned
<1> QED
  BY <1>1, <1>2, ReturnInPlace

\* Errors that say that the decoder is lost.
LEMMA DecoderLost ==
    ASSUME NEW code \in {"ENODATA", "ENOTSUP", "ENOMEM"}
    PROVE  code \in Codes \ {"OK"} /\ code \notin Recoverable
BY DEF Codes, Recoverable

LEMMA LoadedInPlace ==
    ASSUME IInv, InPlace, pc = "tag", NEW n, NEW p, Loaded(n, p), Matches(wire, call, Last.at),
           p = Last.at + HeaderSize(wire, Last.at), p \in 0 .. Len(wire), n = Count(wire, Last.at)
    PROVE  InPlace'
<1>1. /\ pc' = "length" /\ len' = n /\ head' = p
      /\ UNCHANGED <<wire, disc, call, ret, size, value, heap, held, log>>
  BY DEF Loaded, decoder
<1>2. Last' = Last /\ Block' = Block
  BY <1>1 DEF Last, Block
<1>3. Owned' /\ Bounded'
  BY <1>1, <1>2 DEF InPlace, Owned, Bounded
<1>4. InsideCall'
  BY <1>1, <1>2 DEF InPlace, InsideCall, MaxOf
<1>5. Reading' /\ BetweenCalls'
  BY <1>1, <1>2 DEF Reading, Matches, BetweenCalls
<1> QED
  BY <1>3, <1>4, <1>5 DEF InPlace

LEMMA MismatchInPlace ==
    ASSUME IInv, InPlace, pc = "tag", head + 1 \in DOMAIN wire, Mismatch
    PROVE  InPlace'
<1>1. /\ wire \in Stream /\ Len(wire) \in Nat /\ DOMAIN wire = 1 .. Len(wire)
      /\ head \in 0 .. Len(wire)
  BY CallUnderWay
<1>2. head = Last.at
  BY DEF InPlace, Reading
<1>3. PICK whole : whole = SkipItems(wire, head, 1)
  OBVIOUS
<1>4. whole \in [head : head .. Len(wire), ret : SkipCode]
  BY <1>1, <1>3, SkipStaysInside
<1>5. whole = [head |-> whole.head, ret |-> whole.ret] /\ whole.head \in 0 .. Len(wire)
      /\ whole.ret \in {"OK", "ENODATA", "ENOTSUP"}
  BY <1>1, <1>4 DEF SkipCode
<1>6. head + 1 \in 0 .. Len(wire)
  BY <1>1
<1>7. CASE ~disc /\ Fail("ENOMSG", head + 1)
  BY <1>6, <1>7, FailInPlace DEF Codes, Recoverable
<1>8. CASE disc /\ whole.ret = "OK" /\ Fail("ENOMSG", whole.head)
  BY <1>2, <1>3, <1>5, <1>8, FailInPlace DEF Codes
<1>9. CASE disc /\ whole.ret # "OK" /\ Fail(whole.ret, whole.head)
  BY <1>5, <1>9, DecoderLost, FailInPlace
<1> QED
  BY <1>3, <1>7, <1>8, <1>9 DEF Mismatch

LEMMA TagInPlace ==
    ASSUME IInv, InPlace, LoadStrTag \/ LoadBinTag \/ NoTag
    PROVE  InPlace'
<1>1. pc = "tag"
  BY DEF LoadStrTag, LoadBinTag, NoTag
<1>2. /\ wire \in Stream /\ Len(wire) \in Nat /\ DOMAIN wire = 1 .. Len(wire)
      /\ head \in 0 .. Len(wire) /\ call.of \in {"str", "bin"}
  BY <1>1, CallUnderWay
<1>3. PICK at : at = Last.at /\ at = head
  BY <1>1 DEF InPlace, Reading
<1>4. CASE NoTag
  BY <1>1, <1>2, <1>4, DecoderLost, FailInPlace DEF NoTag
<1>5. ASSUME head + 1 \in DOMAIN wire, LoadCount,
             wire[head + 1].kind = IF call.of = "str" THEN "str" ELSE "bin"
      PROVE  InPlace'
  <2>1. HeaderSize(wire, at) = 2 /\ Count(wire, at) = wire[at + 2].n
    BY <1>3, <1>5 DEF HeaderSize, Count, Counted
  <2>2. Matches(wire, call, at)
    BY <1>2, <1>3, <1>5 DEF Matches
  <2>3. CASE head + 2 \in DOMAIN wire /\ Loaded(wire[head + 2].n, head + 2)
    <3>1. head + 2 \in 0 .. Len(wire)
      BY <1>2, <2>3
    <3> QED
      BY <1>1, <1>3, <2>1, <2>2, <2>3, <3>1, LoadedInPlace
  <2>4. CASE Fail("ENODATA", head + 1)
    <3>1. head + 1 \in 0 .. Len(wire)
      BY <1>2, <1>5
    <3> QED
      BY <1>1, <2>4, <3>1, DecoderLost, FailInPlace
  <2> QED
    BY <1>5, <2>3, <2>4 DEF LoadCount
<1>6. CASE LoadStrTag
  <2>1. ASSUME wire[head + 1].kind = "fixstr", Loaded(wire[head + 1].n, head + 1)
        PROVE  InPlace'
    <3>1. HeaderSize(wire, at) = 1 /\ Count(wire, at) = wire[at + 1].n
      BY <1>3, <2>1 DEF HeaderSize, Count, Counted
    <3>2. Matches(wire, call, at) /\ head + 1 \in 0 .. Len(wire)
      BY <1>2, <1>3, <1>6, <2>1 DEF Matches, LoadStrTag
    <3> QED
      BY <1>1, <1>3, <2>1, <3>1, <3>2, LoadedInPlace
  <2> QED
    BY <1>1, <1>5, <1>6, <2>1, MismatchInPlace DEF LoadStrTag
<1>7. CASE LoadBinTag
  BY <1>1, <1>5, <1>7, MismatchInPlace DEF LoadBinTag
<1> QED
  BY <1>4, <1>6, <1>7

\* A step inside a call that moves nothing.
LEMMA InsideInPlace ==
    ASSUME InPlace, pc # "idle", pc' # "idle",
           UNCHANGED <<wire, disc, head, call, len, ret, value, held, log>>,
           heap \subseteq heap', heap' \subseteq 1 .. Len(log),
           pc' \in {"dup", "cede"} => Block \in heap', Reading'
    PROVE  InPlace'
<1>1. Last' = Last /\ Block' = Block
  BY DEF Last, Block
<1>2. Owned' /\ Bounded'
  BY <1>1 DEF InPlace, Owned, Bounded
<1>3. InsideCall' /\ BetweenCalls'
  BY <1>1 DEF InPlace, InsideCall, MaxOf, BetweenCalls
<1> QED
  BY <1>2, <1>3 DEF InPlace

LEMMA LengthInPlace ==
    ASSUME IInv, InPlace, LengthAccepted \/ LengthRefused
    PROVE  InPlace'
<1>1. pc = "length"
  BY DEF LengthAccepted, LengthRefused
<1>2. /\ wire \in Stream /\ Len(wire) \in Nat /\ Last.at \in 0 .. Len(wire) /\ head \in 0 .. Len(wire)
      /\ call.of \in {"str", "bin"} /\ MaxOf(call) \in Nat /\ len \in Nat
  BY <1>1, CallUnderWay
<1>3. /\ Matches(wire, call, Last.at) /\ head = Last.at + HeaderSize(wire, Last.at)
      /\ len = Count(wire, Last.at)
  BY <1>1 DEF InPlace, Reading
<1>4. CASE LengthAccepted
  <2>1. /\ pc' \in {"copy", "alloc"} /\ call.lo <= len /\ len <= call.hi
        /\ UNCHANGED <<wire, disc, head, call, len, ret, size, value, heap, held, log>>
    BY <1>4 DEF LengthAccepted, InBounds, decoder
  <2>2. Reading'
    BY <1>3, <2>1 DEF Reading, Matches, Last
  <2>3. heap \subseteq 1 .. Len(log)
    BY DEF InPlace, Owned
  <2> QED
    BY <1>1, <2>1, <2>2, <2>3, InsideInPlace
<1>5. CASE LengthRefused
  <2>1. ASSUME NEW p, p = head + len, p <= Len(wire), len <= MaxOf(call)
        PROVE  SkipItems(wire, Last.at, 1) = [head |-> p, ret |-> "OK"] /\ p \in 0 .. Len(wire)
    BY <1>2, <1>3, <2>1, ReadWhole
  <2>2. CASE len = 0 /\ Fail("EBADMSG", head)
    <3>1. head = head + len /\ head <= Len(wire) /\ len <= MaxOf(call)
      BY <1>2, <2>2
    <3>2. SkipItems(wire, Last.at, 1) = [head |-> head, ret |-> "OK"]
      BY <2>1, <3>1
    <3> QED
      BY <1>1, <1>2, <2>2, <3>2, FailInPlace DEF Codes
  <2>3. CASE len > MaxOf(call) /\ Fail("ENOTSUP", head)
    BY <1>1, <1>2, <2>3, DecoderLost, FailInPlace
  <2>4. CASE ~disc /\ Fail("EMSGSIZE", head)
    BY <1>1, <1>2, <2>4, FailInPlace DEF Codes, Recoverable
  <2>5. CASE len <= MaxOf(call) /\ disc /\ head + len <= Len(wire) /\ Fail("EMSGSIZE", head + len)
    <3>1. PICK p : p = head + len
      OBVIOUS
    <3> QED
      BY <1>1, <1>2, <2>1, <2>5, <3>1, FailInPlace DEF Codes
  <2>6. CASE Fail("ENODATA", head)
    BY <1>1, <1>2, <2>6, DecoderLost, FailInPlace
  <2> QED
    BY <1>5, <2>2, <2>3, <2>4, <2>5, <2>6 DEF LengthRefused, MaybeSkip
<1> QED
  BY <1>4, <1>5

LEMMA AllocateInPlace ==
    ASSUME IInv, InPlace, Allocate \/ AllocationFails
    PROVE  InPlace'
<1>1. pc = "alloc"
  BY DEF Allocate, AllocationFails
<1>2. head \in 0 .. Len(wire) /\ Len(log) \in Nat /\ Len(log) > 0
  BY <1>1, CallUnderWay
<1>3. CASE Allocate
  <2>1. /\ pc' = "dup" /\ heap' = heap \cup {Block}
        /\ UNCHANGED <<wire, disc, head, call, len, ret, value, held, log>>
    BY <1>3 DEF Allocate, decoder
  <2>2. heap' \subseteq 1 .. Len(log) /\ Block \in heap'
    <3>1. Block \in 1 .. Len(log) /\ heap \subseteq 1 .. Len(log)
      BY <1>2 DEF Block, InPlace, Owned
    <3> QED
      BY <2>1, <3>1
  <2>3. Reading'
    BY <1>1, <2>1 DEF InPlace, Reading, Matches, Last
  <2> QED
    BY <1>1, <2>1, <2>2, <2>3, InsideInPlace
<1>4. CASE AllocationFails
  BY <1>1, <1>2, <1>4, DecoderLost, FailInPlace DEF AllocationFails
<1> QED
  BY <1>3, <1>4

LEMMA ExtractInPlace ==
    ASSUME IInv, InPlace, Extract
    PROVE  InPlace'
<1>1. pc \in {"dup", "copy", "cede"}
  BY DEF Extract, DupShort, BindupDone, StrdupDone, StrdupUnclean, StrdupReturns, LvstrCeded,
         CopyShort, BincpyDone, StrcpyDone, StrcpyUnclean
<1>2. /\ head \in 0 .. Len(wire) /\ Len(log) \in Nat /\ Len(log) > 0 /\ call.of \in {"str", "bin"}
  BY <1>1, CallUnderWay
<1>3. /\ held \subseteq heap /\ heap \subseteq 1 .. Len(log) /\ value \in Seq(Nat)
      /\ Block \notin held /\ (pc \in {"dup", "cede"} => Block \in heap)
  BY <1>1, BlockNew DEF InPlace, Owned, Bounded
<1>4. /\ held \subseteq heap \ {Block} /\ heap \ {Block} \subseteq 1 .. Len(log)
      /\ (pc = "dup" => held \cup {Block} \subseteq heap)
  BY <1>3
<1>5. ASSUME pc \in {"dup", "copy"}, Available, NEW v, value' = v, NEW h, NEW a,
             a \subseteq h, h \subseteq 1 .. Len(log),
             \/ /\ Return("OK", head + len, h, a) /\ (call.of = "str" => Clean)
                /\ v = IF call.of = "str" THEN Append(Payload, Null) ELSE Payload
             \/ Return("EBADMSG", head + len, h, a) /\ v = Payload
      PROVE  InPlace'
  <2>1. PICK p : p = head + len
    OBVIOUS
  <2>2. /\ Payload \in Seq(Nat) /\ Append(Payload, Null) \in Seq(Nat)
        /\ SkipItems(wire, Last.at, 1) = [head |-> p, ret |-> "OK"]
        /\ p \in 0 .. Len(wire)
        /\ call.of = "str" /\ Clean => Intact(wire, call, Last.at, p, len, Append(Payload, Null))
        /\ call.of = "bin" => Intact(wire, call, Last.at, p, len, Payload)
    BY <1>5, <2>1, PayloadOfItem
  <2>3. value' \in Seq(Nat)
    BY <1>5, <2>2
  <2>4. CASE /\ Return("OK", p, h, a) /\ (call.of = "str" => Clean)
             /\ v = IF call.of = "str" THEN Append(Payload, Null) ELSE Payload
    <3>1. Intact(wire, call, Last.at, p, len, value')
      BY <1>2, <1>5, <2>2, <2>4
    <3> QED
      BY <1>1, <1>5, <2>2, <2>3, <2>4, <3>1, ReturnInPlace DEF Codes
  <2>5. CASE Return("EBADMSG", p, h, a)
    BY <1>1, <1>5, <2>2, <2>3, <2>5, ReturnInPlace DEF Codes
  <2> QED
    BY <1>5, <2>1, <2>4, <2>5
<1>6. CASE DupShort
  <2>1. PICK h : h = IF call.of = "str" THEN heap \ {Block} ELSE heap
    OBVIOUS
  <2>2. Return("ENODATA", head, h, held) /\ value' = value
    BY <1>6, <2>1 DEF DupShort
  <2>3. held \subseteq h /\ h \subseteq 1 .. Len(log)
    BY <1>3, <1>4, <2>1
  <2> QED
    BY <1>1, <1>2, <1>3, <2>2, <2>3, DecoderLost, ReturnInPlace
<1>7. CASE BindupDone
  BY <1>3, <1>4, <1>5, <1>7 DEF BindupDone
<1>8. CASE StrdupDone
  BY <1>3, <1>4, <1>5, <1>8 DEF StrdupDone
<1>9. CASE StrdupUnclean
  BY <1>4, <1>5, <1>9 DEF StrdupUnclean
<1>10. CASE StrdupReturns
  <2>1. /\ pc = "dup" /\ pc' = "cede" /\ Available /\ Clean /\ value' = Append(Payload, Null)
        /\ head' = head + len
        /\ UNCHANGED <<wire, disc, call, len, ret, size, heap, held, log>>
    BY <1>10 DEF StrdupReturns, decoder
  <2>2. call.of = "str"
    BY <1>10 DEF StrdupReturns, IInv, Typed, Legal
  <2>3. /\ value' \in Seq(Nat) /\ head' \in 0 .. Len(wire)
        /\ Intact(wire, call, Last.at, head', len, value')
    BY <2>1, <2>2, PayloadOfItem
  <2>4. Last' = Last /\ Block' = Block
    BY <2>1 DEF Last, Block
  <2>5. Owned' /\ Bounded' /\ InsideCall'
    BY <1>3, <2>1, <2>3, <2>4 DEF InPlace, Owned, Bounded, InsideCall, MaxOf
  <2>6. Reading' /\ BetweenCalls'
    BY <2>1, <2>3, <2>4 DEF Reading, BetweenCalls
  <2> QED
    BY <2>5, <2>6 DEF InPlace
<1>11. CASE LvstrCeded
  <2>1. pc = "cede" /\ Return("OK", head, heap, held \cup {Block}) /\ value' = value
    BY <1>11 DEF LvstrCeded
  <2>2. Intact(wire, call, Last.at, head, len, value)
    BY <2>1 DEF InPlace, Reading
  <2>3. held \cup {Block} \subseteq heap /\ SkipItems(wire, Last.at, 1) = [head |-> head, ret |-> "OK"]
    BY <1>3, <2>1, <2>2 DEF Intact
  <2> QED
    BY <1>1, <1>2, <1>3, <2>1, <2>2, <2>3, ReturnInPlace DEF Codes
<1>12. CASE CopyShort
  BY <1>1, <1>2, <1>12, DecoderLost, FailInPlace DEF CopyShort
<1>13. CASE BincpyDone
  BY <1>3, <1>5, <1>13 DEF BincpyDone
<1>14. CASE StrcpyDone
  BY <1>3, <1>5, <1>14 DEF StrcpyDone
<1>15. CASE StrcpyUnclean
  BY <1>3, <1>5, <1>15 DEF StrcpyUnclean
<1> QED
  BY <1>6, <1>7, <1>8, <1>9, <1>10, <1>11, <1>12, <1>13, <1>14, <1>15 DEF Extract

LEMMA NextInPlace ==
    ASSUME IInv, InPlace, [Next]_vars
    PROVE  InPlace'
<1>1. CASE UNCHANGED vars
  BY <1>1
     DEF vars, decoder, InPlace, Owned, Bounded, BetweenCalls, InsideCall, Reading, Recoverable,
         Ended, Last, MaxOf, Matches, Block
<1>2. CASE \E c \in Calls : Begin(c)
  BY <1>2, BeginInPlace
<1> QED
  BY <1>1, <1>2, TagInPlace, LengthInPlace, AllocateInPlace, ExtractInPlace DEF Next

LEMMA InPlaceHolds == Spec => []InPlace
BY Invariant, InitInPlace, NextInPlace, PTL DEF Spec

-----------------------------------------------------------------------------
(* Theorems about positions. *)

\* Every variable has its type: the decoder stays within the stream, and the blocks the
\* application holds are live ones, each of a call.
THEOREM TypeCorrect == Spec => []TypeOK
<1>1. IInv /\ InPlace => TypeOK
  BY DEF IInv, Typed, Legal, InPlace, Owned, Bounded, Codes, TypeOK
<1> QED
  BY <1>1, Invariant, InPlaceHolds, PTL

\* A call that succeeds found a whole item of its type and within its bounds, and stored all
\* of its payload, whatever was decoded or refused before it (string.c:205-250,395-430,
\* bin.c:180-210,335-360, lvstr.c).
THEOREM Intactness == Spec => []DecodedIntact
<1>1. InPlace => DecodedIntact
  BY DEF InPlace, BetweenCalls, Intact, PayloadAt, DecodedIntact, Ended
<1> QED
  BY <1>1, InPlaceHolds, PTL

\* An application that goes on, after the errors it can recover from, finds the decoder past
\* as many items as it made calls: no refusal, of a type, of a length or of a null character,
\* shifts the items that come next (dpack_maybe_skip(), dpack_maybe_discard()).
THEOREM StaysInStep == Spec => []InStep
<1>1. IInv /\ InPlace => InStep
  <2> SUFFICES ASSUME IInv, InPlace, pc = "idle", \A i \in DOMAIN log : log[i].ret \in Recoverable
               PROVE  SkipItems(wire, 0, Len(log)) = [head |-> head, ret |-> "OK"]
    BY DEF InStep
  <2>1. PICK S : log \in Seq(S)
    BY DEF IInv, Logging
  <2>2. CASE log = <<>>
    BY <2>2 DEF InPlace, BetweenCalls
  <2>3. CASE log # <<>>
    <3>1. Len(log) \in DOMAIN log
      BY <2>1, <2>3
    <3>2. ret \in Recoverable
      BY <2>3, <3>1 DEF InPlace, BetweenCalls, Last
    <3> QED
      BY <3>2 DEF InPlace, BetweenCalls
  <2> QED
    BY <2>2, <2>3
<1> QED
  BY <1>1, Invariant, InPlaceHolds, PTL
=============================================================================
