--------------------------- MODULE Collection_proofs ---------------------------
(***************************************************************************)
(* Theorems about the properties of Collection, for every stream and every *)
(* limit: which error a caller gets, then where the functions leave the    *)
(* decoder, which rests on the laws of SkipItems in module Wire_proofs.    *)
(***************************************************************************)
EXTENDS Collection, Wire_proofs

-----------------------------------------------------------------------------
(* The inductive invariant of the errors. *)

Typed ==
    /\ wire \in Seq(Unit)
    /\ req \in Requests
    /\ IsArray => nr \in Nat

\* An array that is walked with callbacks is within the limit, which its discarding
\* would otherwise refuse in place of the error.
Walked ==
    /\ pc \in {"item", "discard"} /\ IsArray => nr <= ElmMax
    /\ pc = "fldid" => ~IsArray

\* The error of a callback goes straight to the label `discard'.
ErrorKept ==
    /\ err # "OK" => pc \in {"discard", "done"}
    /\ ArrayErrorReturned

IInv == Typed /\ Walked /\ ErrorKept

-----------------------------------------------------------------------------
(* Facts about the constants and the operators. *)

LEMMA UnitCount == \A u \in Unit : u.n \in Nat
BY UnitAssumption

\* The bounds of a request to walk an array are within the limit.
LEMMA ArrayBound ==
    ASSUME NEW r \in Requests, r.api = "decode", r.coll = "array"
    PROVE  r.hi \in 1 .. ElmMax
BY DEF Requests, RangeRequests, EquRequests, CountRequests, CountEquRequests, CountAnyRequest, MaxOf

\* Without discard mode, nothing is discarded, nor refused within the limit.
LEMMA NothingDiscarded ==
    ASSUME ~disc, NEW p, NEW count \in Nat, NEW max \in Nat, count <= max
    PROVE  MaybeDiscardItems(p, count, max) = Outcome(p, "OK")
BY DEF MaybeDiscardItems

-----------------------------------------------------------------------------
(* Each step preserves the invariant. *)

LEMMA InitIInv == Init => IInv
BY StreamsAssumption
   DEF Init, IInv, Typed, IsArray, Walked, ErrorKept, ArrayErrorReturned, Done

\* A function that returns before any callback has no error to keep.
LEMMA ReturnKeeps ==
    ASSUME IInv, err = "OK", NEW o, Return(o)
    PROVE  IInv'
BY DEF Return, decoder, IsArray, IInv, Typed, Walked, ErrorKept, ArrayErrorReturned, Done

LEMMA LoadKeeps ==
    ASSUME IInv, LoadTag \/ NoTag
    PROVE  IInv'
<1>1. err = "OK"
  BY DEF LoadTag, NoTag, IInv, ErrorKept
<1>2. ASSUME NEW n \in Nat, NEW p, Loaded(n, p) PROVE IInv'
  BY <1>1, <1>2
     DEF Loaded, decoder, IsArray, IInv, Typed, Walked, ErrorKept, ArrayErrorReturned, Done
<1>3. CASE NoTag
  BY <1>1, <1>3, ReturnKeeps DEF NoTag
<1>4. CASE LoadTag
  <2>1. ASSUME NEW i \in DOMAIN wire
        PROVE  wire[i].n \in Nat
    BY <2>1, UnitCount DEF IInv, Typed
  <2> QED
    BY <1>1, <1>2, <1>4, <2>1, ReturnKeeps DEF LoadTag
<1> QED
  BY <1>3, <1>4

LEMMA CheckKeeps ==
    ASSUME IInv, CountAccepted \/ ElemsAccepted \/ FieldsAccepted \/ CountRejected
    PROVE  IInv'
<1>1. err = "OK"
  BY DEF CountAccepted, ElemsAccepted, FieldsAccepted, CountRejected, IInv, ErrorKept
<1>2. CASE CountAccepted
  BY <1>1, <1>2
     DEF CountAccepted, decoder, IsArray, IInv, Typed, Walked, ErrorKept, ArrayErrorReturned, Done
<1>3. CASE ElemsAccepted
  <2>1. nr <= ElmMax
    BY <1>1, <1>3, ArrayBound, LimitsAssumption DEF ElemsAccepted, InRange, IsArray, IInv, Typed
  <2> QED
    BY <1>1, <1>3, <2>1
       DEF ElemsAccepted, decoder, IsArray, IInv, Typed, Walked, ErrorKept, ArrayErrorReturned, Done
<1>4. CASE FieldsAccepted
  BY <1>1, <1>4
     DEF FieldsAccepted, IsMap, IsArray, decoder, IInv, Typed, Walked, ErrorKept,
         ArrayErrorReturned, Done
<1>5. CASE CountRejected
  BY <1>1, <1>5, ReturnKeeps DEF CountRejected
<1> QED
  BY <1>2, <1>3, <1>4, <1>5

LEMMA WalkKeeps ==
    ASSUME IInv, ElemDecoded \/ ElemFailed
    PROVE  IInv'
BY DEF ElemDecoded, ElemFailed, IsArray, decoder, IInv, Typed, Walked, ErrorKept,
       ArrayErrorReturned, Done

LEMMA FieldKeeps ==
    ASSUME IInv, FieldIdDecoded \/ FieldIdFailed \/ FieldDecoded \/ FieldFailed
    PROVE  IInv'
<1>1. ~IsArray
  BY DEF FieldIdDecoded, FieldIdFailed, FieldDecoded, FieldFailed, IsArray, IsMap, IInv, Walked
<1> QED
  BY <1>1 DEF FieldIdDecoded, FieldIdFailed, FieldDecoded, FieldFailed, IsArray, IsMap, decoder, IInv,
         Typed, Walked, ErrorKept, ArrayErrorReturned, Done

LEMMA DiscardKeeps ==
    ASSUME IInv, DiscardRest
    PROVE  IInv'
<1>1. /\ pc = "discard" /\ pc' = "done"
      /\ UNCHANGED <<wire, disc, req, nr, err>>
  BY DEF DiscardRest, Return, decoder
<1>2. ASSUME IsArray, ~disc, err # "OK"
      PROVE  ret' = err
  <2>1. nr \in Nat /\ nr <= ElmMax /\ ElmMax \in Nat /\ MaxOf(req.coll) = ElmMax
    BY <1>1, <1>2, LimitsAssumption DEF IInv, Typed, Walked, MaxOf, IsArray
  <2>2. MaybeDiscardItems(head, nr, MaxOf(req.coll)) = Outcome(head, "OK")
    BY <1>2, <2>1, NothingDiscarded
  <2> QED
    BY <1>2, <2>2 DEF DiscardRest, Return, Outcome
<1> QED
  BY <1>1, <1>2 DEF IInv, Typed, IsArray, Walked, ErrorKept, ArrayErrorReturned, Done

LEMMA CountKeeps ==
    ASSUME IInv, AppDecodes \/ CountEnd
    PROVE  IInv'
<1>1. err = "OK"
  BY DEF AppDecodes, CountEnd, IInv, ErrorKept
<1>2. CASE AppDecodes
  BY <1>1, <1>2
     DEF AppDecodes, decoder, IsArray, IInv, Typed, Walked, ErrorKept, ArrayErrorReturned, Done
<1>3. CASE CountEnd
  BY <1>1, <1>3, ReturnKeeps DEF CountEnd
<1> QED
  BY <1>2, <1>3

LEMMA NextKeeps ==
    ASSUME IInv, [Next]_vars
    PROVE  IInv'
<1>1. CASE UNCHANGED vars
  BY <1>1
     DEF vars, decoder, IsArray, IInv, Typed, Walked, ErrorKept, ArrayErrorReturned, Done
<1> QED
  BY <1>1, LoadKeeps, CheckKeeps, WalkKeeps, FieldKeeps, DiscardKeeps, CountKeeps DEF Next

-----------------------------------------------------------------------------
(* The theorem about errors. *)

\* Without discard mode, what the callback of an array returns is what the caller gets,
\* for any number of elements and wherever the callback failed (array.c:283-310).
THEOREM ErrorReturned == Spec => []ArrayErrorReturned
<1>1. IInv => ArrayErrorReturned
  BY DEF IInv, ErrorKept
<1>2. Spec => []IInv
  BY InitIInv, NextKeeps, PTL DEF Spec
<1> QED
  BY <1>1, <1>2, PTL

-----------------------------------------------------------------------------
(* The inductive invariant of positions.  While a function runs, the decoder   *)
(* stands where discarding the items that are behind it leads.                 *)

H == HeaderSize(wire, 0)
C == Count(wire, 0)

\* The first `items' items of the collection are behind the decoder, and whole.
At(items) == Content(items) = Outcome(head, "OK")
Behind(n) == \E items \in Nat : items = n /\ At(items)

ErrorCodes == {"OK", "ENODATA", "ENOTSUP", "ENOMSG", "ERANGE", "EEXIST"}

\* The tag and the count of the collection are behind the decoder.
Started ==
    pc \in {"check", "counted", "item", "fldid", "discard"} =>
        /\ 1 <= Len(wire) /\ H <= Len(wire)
        /\ wire[1].kind \in {FixKind, CountedKind}
        /\ C \in Nat
        /\ ret = "OK"

Loading == pc = "load" => head = 0 /\ calls = <<>> /\ idx = 0 /\ ret = "OK"

Walker == pc \in {"item", "fldid", "discard"} => req.api = "decode"

Checking == pc = "check" => head = H /\ nr = C /\ calls = <<>> /\ idx = 0

Counting == pc = "counted" => req.api = "count" /\ nr <= C /\ Behind(C - nr)

WalkingElems ==
    pc = "item" /\ IsArray =>
        nr = C /\ nr <= ElmMax /\ idx < nr /\ Len(calls) = idx /\ Behind(idx)

WalkingFields ==
    pc \in {"item", "fldid"} /\ ~IsArray =>
        /\ C <= FldMax /\ nr > 0 /\ Behind(2 * C - nr)
        /\ nr = 2 * C - 2 * Len(calls) - (IF pc = "item" THEN 1 ELSE 0)

Placed ==
    pc \in {"item", "fldid"} =>
        \A i \in 1 .. Len(calls) : calls[i] = Content(ItemOfCall(i)).head

\* There is an error, and the collection is not complete or the item in error is behind.
Failing ==
    /\ pc = "fldid" => ~IsArray
    /\ err # "OK" => pc \in {"discard", "done"}
    /\ pc = "discard" => err # "OK"
    /\ pc = "discard" /\ ~IsArray /\ disc /\ err # "EEXIST" /\ Whole.ret = "OK" =>
         C <= FldMax /\ Behind(2 * C - nr)

Types ==
    /\ TypeOK
    /\ wire \in Stream
    /\ err \in ErrorCodes

Outcomes == DecodesWhole /\ CountEndLeavesEnd /\ RejectedLeavesEnd /\ FieldErrorLeavesEnd

Positions ==
    /\ Types /\ Loading /\ Started /\ Walker /\ Checking /\ Counting
    /\ WalkingElems /\ WalkingFields /\ Placed /\ Failing
    /\ Outcomes

\* What the properties ask of a function that returns outcome o.
Delivers(o) ==
    /\ o.ret = "OK" /\ req.api = "decode" =>
         /\ Whole = Outcome(o.head, "OK")
         /\ Len(calls) = Count(wire, 0)
         /\ \A i \in DOMAIN calls : calls[i] = Content(ItemOfCall(i)).head
    /\ o.ret = "OK" /\ req.api = "count" /\ disc => Content(Count(wire, 0)) = Outcome(o.head, "OK")
    /\ /\ disc /\ o.ret = "EMSGSIZE"
       /\ IF IsArray THEN ~(req.api = "count" /\ req.equ) ELSE req.equ
       => Whole = Outcome(o.head, "OK")
    /\ /\ IsMap /\ disc /\ err \notin {"OK", "EEXIST"} /\ nr <= FldMax /\ Whole.ret = "OK"
       => o.head = Whole.head /\ o.ret = err

Codes ==
    {"OK", "ENODATA", "ENOTSUP", "ENOMSG", "EBADMSG", "EMSGSIZE", "ERANGE", "EEXIST"}

-----------------------------------------------------------------------------
(* What the helpers and the callbacks come to. *)

LEMMA SkipOutcome ==
    ASSUME wire \in Stream, NEW p \in 0 .. Len(wire), NEW n \in Nat
    PROVE  /\ SkipItems(wire, p, n).head \in p .. Len(wire)
           /\ SkipItems(wire, p, n).ret \in {"OK", "ENODATA", "ENOTSUP"}
           /\ SkipItems(wire, p, n) = Outcome(SkipItems(wire, p, n).head, SkipItems(wire, p, n).ret)
BY SkipStaysInside DEF SkipCode, Outcome

LEMMA Mismatched ==
    ASSUME wire \in Stream, NEW p \in 0 .. Len(wire) - 1
    PROVE  /\ Mismatch(p).head \in p .. Len(wire)
           /\ Mismatch(p).ret \in ErrorCodes \ {"OK"}
           /\ disc /\ SkipItems(wire, p, 1).ret = "OK" =>
                Mismatch(p).head = SkipItems(wire, p, 1).head
<1>1. Len(wire) \in Nat
  BY StreamPositions
<1>2. p \in 0 .. Len(wire) /\ p + 1 \in p .. Len(wire)
  BY <1>1
<1> QED
  BY <1>2, SkipOutcome DEF Mismatch, Outcome, ErrorCodes

\* An item is decoded whole, or the decoder is inside it or behind it; behind it in
\* discard mode, when it is complete, unless nothing of it was read.
Attempt(p, o) ==
    LET whole == SkipItems(wire, p, 1) IN
    /\ o.head \in p .. Len(wire) /\ o.ret \in ErrorCodes
    /\ o.ret = "OK" => o = Outcome(whole.head, "OK") /\ whole = o
    /\ disc /\ o.ret \notin {"OK", "EEXIST"} /\ whole.ret = "OK" => o.head = whole.head

LEMMA CallbackAttempts ==
    ASSUME wire \in Stream, NEW p \in 0 .. Len(wire), NEW o \in CallbackOutcomes(p)
    PROVE  Attempt(p, o)
<1> DEFINE whole == SkipItems(wire, p, 1)
<1>1. Len(wire) \in Nat
  BY StreamPositions
<1>2. /\ whole.head \in p .. Len(wire) /\ whole.ret \in {"OK", "ENODATA", "ENOTSUP"}
      /\ whole = Outcome(whole.head, whole.ret)
  BY SkipOutcome
<1>3. CASE o = whole
  BY <1>2, <1>3 DEF Attempt, ErrorCodes
<1>4. CASE o = Outcome(p, "EEXIST")
  BY <1>1, <1>4 DEF Attempt, Outcome, ErrorCodes
<1>5. CASE p < Len(wire) /\ o = Mismatch(p)
  <2>1. p \in 0 .. Len(wire) - 1
    BY <1>1, <1>5
  <2> QED
    BY <1>5, <2>1, Mismatched DEF Attempt, ErrorCodes
<1>6. CASE whole.ret = "OK" /\ o = Outcome(whole.head, "ERANGE")
  BY <1>2, <1>6 DEF Attempt, Outcome, ErrorCodes
<1> QED
  BY <1>3, <1>4, <1>5, <1>6 DEF CallbackOutcomes

LEMMA FieldIdAttempts ==
    ASSUME wire \in Stream, NEW p \in 0 .. Len(wire), NEW o \in FieldIdOutcomes(p)
    PROVE  Attempt(p, o) /\ o.ret # "EEXIST"
<1> DEFINE whole == SkipItems(wire, p, 1)
<1>1. Len(wire) \in Nat
  BY StreamPositions
<1>2. /\ whole.head \in p .. Len(wire) /\ whole.ret \in {"OK", "ENODATA", "ENOTSUP"}
      /\ whole = Outcome(whole.head, whole.ret)
  BY SkipOutcome
<1>3. CASE o = whole
  BY <1>2, <1>3 DEF Attempt, ErrorCodes
<1>5. CASE p # Len(wire) /\ o = Mismatch(p)
  <2>1. p \in 0 .. Len(wire) - 1
    BY <1>1, <1>5
  <2>2. o.ret # "EEXIST"
    BY <1>2, <1>5 DEF Mismatch, Outcome
  <2> QED
    BY <1>5, <2>1, <2>2, Mismatched DEF Attempt, ErrorCodes
<1>6. CASE whole.ret = "OK" /\ o = Outcome(whole.head, "ENOMSG")
  BY <1>2, <1>6 DEF Attempt, Outcome, ErrorCodes
<1> QED
  BY <1>3, <1>5, <1>6 DEF FieldIdOutcomes

LEMMA Discarding ==
    ASSUME wire \in Stream, NEW p \in 0 .. Len(wire), NEW n \in Nat, NEW max \in Nat, NEW o,
           o = MaybeDiscardItems(p, n, max)
    PROVE  /\ o.head \in p .. Len(wire) /\ o.ret \in {"OK", "ENODATA", "ENOTSUP"}
           /\ disc /\ n <= max => o = SkipItems(wire, p, n)
           /\ o.ret = "OK" => n <= max
           /\ disc /\ o.ret = "OK" => SkipItems(wire, p, n) = Outcome(o.head, "OK")
<1>1. Len(wire) \in Nat
  BY StreamPositions
<1> QED
  BY <1>1, SkipOutcome DEF MaybeDiscardItems, Outcome

-----------------------------------------------------------------------------
(* The content of the collection. *)

\* When `items' items are behind, what is left of the content is at the decoder.
LEMMA ContentLeft ==
    ASSUME wire \in Stream, H <= Len(wire), NEW k \in Nat, At(k), NEW m \in Nat,
           NEW total, total = k + m
    PROVE  Content(total) = SkipItems(wire, head, m) /\ head \in 0 .. Len(wire)
<1>1. Len(wire) \in Nat /\ H \in 0 .. Len(wire)
  BY StreamPositions DEF H, HeaderSize
<1>2. SkipItems(wire, H, k) = [head |-> head, ret |-> "OK"]
  BY DEF At, Content, Outcome, H
<1> HIDE DEF H
<1>3. SkipItems(wire, H, k + m) = SkipItems(wire, head, m) /\ head \in H .. Len(wire)
  BY <1>1, <1>2, SkipFurther
<1> QED
  BY <1>1, <1>3 DEF Content, H

LEMMA WholeIsContent ==
    ASSUME wire \in Stream, Len(wire) >= 1, H <= Len(wire), C \in Nat,
           wire[1].kind \in {FixKind, CountedKind}, req \in Requests, C <= MaxOf(req.coll)
    PROVE  Whole = Content(IF IsArray THEN C ELSE 2 * C)
<1>1. Len(wire) \in Nat /\ 0 \in 0 .. Len(wire) /\ 0 + 1 = 1
  BY StreamPositions
<1>2. req.coll \in {"array", "map"}
  BY DEF Requests, RangeRequests, EquRequests, CountRequests, CountEquRequests, CountAnyRequest
<1>3. /\ Supported(wire, 0) /\ PayloadSize(wire, 0) = 0
      /\ Children(wire, 0) = IF IsArray THEN C ELSE 2 * C
  BY <1>1, <1>2 DEF Supported, PayloadSize, Children, FixKind, CountedKind, IsArray, MaxOf, C
<1>4. H \in {1, 2} /\ NextTag(wire, 0) = H
  BY <1>3 DEF NextTag, H, HeaderSize
<1>5. Readable(wire, 0)
  BY <1>1, <1>3, <1>4 DEF Readable, H
<1>6. SkipItems(wire, 0, 1) = SkipItems(wire, NextTag(wire, 0), 1 - 1 + Children(wire, 0))
  BY <1>1, <1>5, SkipInto
<1>7. 1 - 1 + Children(wire, 0) = Children(wire, 0)
  BY <1>3
<1> HIDE DEF H
<1> QED
  BY <1>3, <1>4, <1>6, <1>7 DEF Whole, Content, H

-----------------------------------------------------------------------------
(* Each step preserves the invariant of positions. *)

LEMMA RequestFacts ==
    ASSUME NEW r \in Requests
    PROVE  /\ r.api \in {"decode", "count"} /\ r.coll \in {"array", "map"}
          
           /\ r.api = "count" => r.coll = "array"
           /\ r.lo \in Nat \ {0} /\ r.hi \in Nat
           /\ r.api = "decode" => r.hi <= MaxOf(r.coll)
           /\ r.coll = "map" => r.hi <= FldMax
<1>0. MaxOf("array") = ElmMax /\ MaxOf("map") = FldMax /\ ElmMax \in Nat /\ FldMax \in Nat /\ UintMax \in Nat
  BY LimitsAssumption, UintAssumption DEF MaxOf
<1>1. ASSUME NEW coll \in {"array", "map"}, r \in RangeRequests(coll) \cup EquRequests(coll)
      PROVE  /\ r.api = "decode" /\ r.coll = coll
             /\ r.lo \in Nat \ {0} /\ r.hi \in Nat /\ r.hi <= MaxOf(coll)
  <2>1. MaxOf(coll) \in Nat
    BY <1>0
  <2> QED
    <3>1. CASE r \in RangeRequests(coll)
      BY <2>1, <3>1 DEF RangeRequests
    <3>2. CASE r \in EquRequests(coll)
      BY <2>1, <3>2 DEF EquRequests
    <3> QED
      BY <1>1, <3>1, <3>2
<1>2. ASSUME r \in CountRequests \cup CountEquRequests \cup {CountAnyRequest}
      PROVE  /\ r.api = "count" /\ r.coll = "array"
             /\ r.lo \in Nat \ {0} /\ r.hi \in Nat
  BY <1>0, <1>2 DEF CountRequests, CountEquRequests, CountAnyRequest
<1>3. \/ r \in RangeRequests("array") \cup EquRequests("array")
      \/ r \in RangeRequests("map") \cup EquRequests("map")
      \/ r \in CountRequests \cup CountEquRequests \cup {CountAnyRequest}
  BY DEF Requests
<1> QED
  BY <1>0, <1>1, <1>2, <1>3

LEMMA InitPositions == Init => Positions
<1> SUFFICES ASSUME Init PROVE Positions
  OBVIOUS
<1>1. wire \in Seq(Unit) /\ wire \in Stream
  BY StreamsAssumption, StreamOfUnits DEF Init
<1>2. Types
  BY <1>1, UintAssumption, LimitsAssumption, StreamPositions DEF Init, Types, TypeOK, ErrorCodes
<1> QED
  BY <1>2 DEF Init, Positions, Loading, Started, Walker, Checking, Counting, WalkingElems, WalkingFields,
              Placed, Failing, Outcomes, DecodesWhole, CountEndLeavesEnd, RejectedLeavesEnd,
              FieldErrorLeavesEnd, Done

LEMMA SameCollection ==
    ASSUME UNCHANGED <<wire, disc, req>>
    PROVE  /\ C' = C /\ H' = H /\ IsArray' = IsArray /\ FixKind' = FixKind
           /\ CountedKind' = CountedKind /\ Whole' = Whole
           /\ \A k : Content(k)' = Content(k) /\ ItemOfCall(k)' = ItemOfCall(k)
           /\ \A k : At(k)' <=> Content(k) = Outcome(head', "OK")
BY DEF C, H, IsArray, FixKind, CountedKind, Whole, Content, ItemOfCall, At, Outcome

\* A function that returns what it should leaves nothing else to hold.
LEMMA ReturnPositions ==
    ASSUME Positions, NEW o, Return(o), o.head \in 0 .. Len(wire), o.ret \in Codes, Delivers(o)
    PROVE  Positions'
<1>1. /\ pc' = "done" /\ head' = o.head /\ ret' = o.ret
      /\ UNCHANGED <<wire, disc, req, nr, idx, err, calls>>
  BY DEF Return, decoder
<1>2. Types'
  BY <1>1 DEF Positions, Types, TypeOK, Codes
<1>3. Outcomes'
  BY <1>1 DEF Delivers, Outcomes, DecodesWhole, CountEndLeavesEnd, RejectedLeavesEnd,
              FieldErrorLeavesEnd, Done, Whole, Content, IsArray, IsMap, ItemOfCall
<1> QED
  BY <1>1, <1>2, <1>3
     DEF Positions, Loading, Started, Walker, Checking, Counting, WalkingElems, WalkingFields, Placed, Failing

LEMMA TagPositions ==
    ASSUME Positions, LoadTag \/ NoTag
    PROVE  Positions'
<1>1. /\ pc = "load" /\ head = 0 /\ ret = "OK" /\ err = "OK" /\ calls = <<>> /\ idx = 0
      /\ wire \in Stream /\ Len(wire) \in Nat /\ DOMAIN wire = 1 .. Len(wire)
  BY StreamPositions DEF LoadTag, NoTag, Positions, Types, Loading, Failing
<1>2. ASSUME NEW o, Return(o), o.head \in 0 .. Len(wire), o.ret \in Codes \ {"OK", "EMSGSIZE"}
      PROVE  Positions'
  <2>1. Delivers(o)
    BY <1>1, <1>2 DEF Delivers
  <2> QED
    BY <1>2, <2>1, ReturnPositions
<1>3. ASSUME NEW n \in Nat, NEW p \in 0 .. Len(wire), Loaded(n, p),
             n <= UintMax, n = C, p = H, 1 <= Len(wire), wire[1].kind \in {FixKind, CountedKind}
      PROVE  Positions'
  <2>1. /\ pc' = "check" /\ nr' = n /\ head' = p
        /\ UNCHANGED <<wire, disc, req, idx, err, ret, calls>>
    BY <1>3 DEF Loaded, decoder
  <2>2. n \in 0 .. UintMax
    BY <1>3, UintAssumption
  <2>3. Types'
    BY <2>1, <2>2 DEF Positions, Types, TypeOK
  <2>4. Outcomes'
    BY <2>1 DEF Outcomes, DecodesWhole, CountEndLeavesEnd, RejectedLeavesEnd, FieldErrorLeavesEnd, Done
  <2>5. Started'
    BY <1>1, <1>3, <2>1 DEF Started, C, H, FixKind, CountedKind, IsArray
  <2> QED
    BY <1>1, <1>3, <2>1, <2>3, <2>4, <2>5
       DEF Positions, Loading, Walker, Checking, Counting, WalkingElems, WalkingFields, Placed,
           Failing, C, H
<1>4. CASE NoTag
  <2>1. Outcome(head, "ENODATA").head \in 0 .. Len(wire)
    BY <1>1 DEF Outcome
  <2>2. Return(Outcome(head, "ENODATA")) /\ Outcome(head, "ENODATA").ret \in Codes \ {"OK", "EMSGSIZE"}
    BY <1>4 DEF NoTag, Outcome, Codes
  <2> QED
    BY <1>2, <2>1, <2>2
<1>5. CASE LoadTag
  <2>1. 1 \in DOMAIN wire /\ 1 <= Len(wire)
    BY <1>1, <1>5 DEF LoadTag
  <2>2. wire \in Seq(Unit)
    BY StreamsAssumption DEF Positions, Types, TypeOK
  <2>3. \A i \in 1 .. Len(wire) : wire[i] \in Unit /\ wire[i].n \in Nat /\ wire[i].n <= UintMax
    BY <2>2, UnitAssumption, CountsAssumption
  <2>4. CASE wire[1].kind = FixKind /\ Loaded(wire[1].n, 1)
    <3>1. wire[1].n = C /\ H = 1
      BY <2>4 DEF C, H, Count, HeaderSize, Counted, FixKind
    <3> HIDE DEF C, H
    <3> QED
      BY <1>1, <1>3, <2>1, <2>3, <2>4, <3>1
  <2>5. CASE wire[1].kind = CountedKind /\ 2 \in DOMAIN wire /\ Loaded(wire[2].n, 2)
    <3>1. wire[2].n = C /\ H = 2
      BY <2>5 DEF C, H, Count, HeaderSize, Counted, CountedKind
    <3> HIDE DEF C, H
    <3> QED
      BY <1>1, <1>3, <2>1, <2>3, <2>5, <3>1
  <2>6. CASE Return(Outcome(1, "ENODATA"))
    BY <1>1, <1>2, <2>1, <2>6 DEF Outcome, Codes
  <2>7. CASE Return(Mismatch(0))
    <3>1. Mismatch(0).head \in 0 .. Len(wire) /\ Mismatch(0).ret \in ErrorCodes \ {"OK"}
      BY <1>1, <2>1, Mismatched
    <3> QED
      BY <1>2, <2>7, <3>1 DEF ErrorCodes, Codes
  <2> QED
    BY <1>1, <1>5, <2>4, <2>5, <2>6, <2>7 DEF LoadTag
<1> QED
  BY <1>4, <1>5

\* While the function runs, there is no outcome to speak of.
LEMMA RunningOutcomes ==
    ASSUME pc' # "done"
    PROVE  Outcomes'
BY DEF Outcomes, DecodesWhole, CountEndLeavesEnd, RejectedLeavesEnd, FieldErrorLeavesEnd, Done

LEMMA NothingBehind ==
    ASSUME wire \in Stream, H <= Len(wire), NEW p, p = H
    PROVE  Content(0) = Outcome(p, "OK")
<1>1. H \in 0 .. Len(wire)
  BY StreamPositions DEF H, HeaderSize
<1> HIDE DEF H
<1>2. SkipItems(wire, H, 0) = [head |-> H, ret |-> "OK"]
  BY <1>1, SkipNone
<1> QED
  BY <1>2 DEF Content, Outcome, H

LEMMA AcceptedPositions ==
    ASSUME Positions, CountAccepted \/ ElemsAccepted \/ FieldsAccepted
    PROVE  Positions'
<1>1. /\ pc = "check" /\ head = H /\ nr = C /\ ret = "OK" /\ err = "OK" /\ calls = <<>> /\ idx = 0
      /\ wire \in Stream /\ H <= Len(wire) /\ C \in Nat
      /\ req \in Requests /\ req.lo <= nr /\ nr <= req.hi
  BY DEF CountAccepted, ElemsAccepted, FieldsAccepted, InRange, Positions, Types, TypeOK, Checking,
         Started, Failing
<1>2. UNCHANGED <<wire, disc, req, head, idx, err, ret, calls>>
  BY DEF CountAccepted, ElemsAccepted, FieldsAccepted, decoder
<1>3. Content(0) = Outcome(head', "OK")
  BY <1>1, <1>2, NothingBehind
<1>4. Outcomes'
  BY RunningOutcomes DEF CountAccepted, ElemsAccepted, FieldsAccepted
<1>5. At(0)'
  BY <1>2, <1>3, SameCollection
<1>6. Types' /\ Started'
  <2>1. CASE CountAccepted \/ ElemsAccepted
    BY <1>2, <2>1, SameCollection
       DEF CountAccepted, ElemsAccepted, Positions, Types, TypeOK, Started
  <2>2. CASE FieldsAccepted
    <3>1. 2 * nr \in 0 .. UintMax
      BY <1>1, <2>2, RequestFacts, UintAssumption, LimitsAssumption DEF FieldsAccepted, IsMap
    <3> QED
      BY <1>2, <2>2, <3>1, SameCollection DEF FieldsAccepted, Positions, Types, TypeOK, Started
  <2> QED
    BY <2>1, <2>2
<1>7. CASE CountAccepted
  <2>1. pc' = "counted" /\ nr' = nr /\ req'.api = "count" /\ C' - nr' = 0
    BY <1>1, <1>2, <1>7, SameCollection DEF CountAccepted
  <2>2. Counting'
    BY <1>1, <1>2, <1>5, <2>1, SameCollection DEF Counting, Behind
  <2> QED
    BY <1>1, <1>2, <1>4, <1>6, <2>1, <2>2
       DEF Positions, Loading, Walker, Checking, WalkingElems, WalkingFields, Placed, Failing
<1>8. CASE ElemsAccepted
  <2>1. /\ pc' = "item" /\ nr' = nr /\ req'.api = "decode" /\ IsArray'
        /\ nr <= ElmMax /\ idx' < nr' /\ Len(calls') = idx'
    BY <1>1, <1>2, <1>8, RequestFacts, LimitsAssumption, SameCollection
       DEF ElemsAccepted, MaxOf, IsArray
  <2>2. WalkingElems'
    BY <1>1, <1>2, <1>5, <2>1, SameCollection DEF WalkingElems, Behind
  <2> QED
    BY <1>1, <1>2, <1>4, <1>6, <2>1, <2>2
       DEF Positions, Loading, Walker, Checking, Counting, WalkingFields, Placed, Failing
<1>9. CASE FieldsAccepted
  <2>1. /\ pc' = "fldid" /\ nr' = 2 * C /\ req'.api = "decode" /\ ~IsArray'
        /\ C <= FldMax /\ nr' > 0 /\ 2 * C' - nr' = 0 /\ Len(calls') = 0
    BY <1>1, <1>2, <1>9, RequestFacts, LimitsAssumption, SameCollection
       DEF FieldsAccepted, MaxOf, IsMap, IsArray
  <2>2. WalkingFields'
    BY <1>1, <1>2, <1>5, <2>1, SameCollection DEF WalkingFields, Behind
  <2> QED
    BY <1>1, <1>2, <1>4, <1>6, <2>1, <2>2
       DEF Positions, Loading, Walker, Checking, Counting, WalkingElems, Placed, Failing
<1> QED
  BY <1>7, <1>8, <1>9

LEMMA RejectedPositions ==
    ASSUME Positions, CountRejected
    PROVE  Positions'
<1>1. /\ pc = "check" /\ head = H /\ nr = C /\ err = "OK"
      /\ wire \in Stream /\ H <= Len(wire) /\ 1 <= Len(wire) /\ C \in Nat
      /\ wire[1].kind \in {FixKind, CountedKind} /\ req \in Requests
      /\ head \in 0 .. Len(wire) /\ Len(wire) \in Nat
  BY StreamPositions
     DEF CountRejected, Positions, Types, TypeOK, Checking, Started, Failing
<1>2. PICK left : left = LeftArgument
  OBVIOUS
<1>3. PICK rest : rest = MaybeDiscardItems(head, left, MaxOf(req.coll))
  OBVIOUS
<1>4. /\ left \in Nat
      /\ IsArray /\ ~(req.api = "count" /\ req.equ) => left = C
      /\ ~IsArray /\ req.equ => left = 2 * C
  BY <1>1, <1>2, RequestFacts DEF LeftArgument, IsArray, IsMap
<1>5. MaxOf(req.coll) \in Nat
  BY LimitsAssumption DEF MaxOf
<1>6. /\ rest.head \in head .. Len(wire) /\ rest.ret \in {"OK", "ENODATA", "ENOTSUP"}
      /\ rest.ret = "OK" => left <= MaxOf(req.coll)
      /\ disc /\ rest.ret = "OK" => SkipItems(wire, head, left) = Outcome(rest.head, "OK")
  BY <1>1, <1>3, <1>4, <1>5, Discarding
<1>7. \/ left = 0 /\ Return(Outcome(head, "EBADMSG"))
      \/ left > 0 /\ rest.ret = "OK" /\ Return(Outcome(rest.head, "EMSGSIZE"))
      \/ left > 0 /\ rest.ret # "OK" /\ Return(rest)
  BY <1>2, <1>3 DEF CountRejected
<1>8. CASE Return(Outcome(head, "EBADMSG"))
  <2>1. Delivers(Outcome(head, "EBADMSG"))
    BY <1>1 DEF Delivers, Outcome
  <2> QED
    BY <1>1, <1>8, <2>1, ReturnPositions DEF Outcome, Codes
<1>9. CASE rest.ret # "OK" /\ Return(rest)
  <2>1. Delivers(rest)
    BY <1>1, <1>6, <1>9 DEF Delivers
  <2> QED
    BY <1>1, <1>6, <1>9, <2>1, ReturnPositions DEF Codes
<1>10. CASE rest.ret = "OK" /\ Return(Outcome(rest.head, "EMSGSIZE"))
  <2>1. ASSUME disc, IF IsArray THEN ~(req.api = "count" /\ req.equ) ELSE req.equ
        PROVE  Whole = Outcome(rest.head, "OK")
    <3>1. left = IF IsArray THEN C ELSE 2 * C
      BY <1>4, <2>1
    <3>2. C <= MaxOf(req.coll)
      BY <1>1, <1>5, <1>6, <1>10, <3>1
    <3>3. Whole = Content(left)
      BY <1>1, <3>1, <3>2, WholeIsContent
    <3>4. Content(left) = SkipItems(wire, head, left)
      BY <1>1 DEF Content, H
    <3> QED
      BY <1>6, <1>10, <2>1, <3>3, <3>4
  <2>2. Delivers(Outcome(rest.head, "EMSGSIZE"))
    BY <1>1, <2>1 DEF Delivers, Outcome
  <2> QED
    BY <1>1, <1>6, <1>10, <2>2, ReturnPositions DEF Outcome, Codes
<1> QED
  BY <1>7, <1>8, <1>9, <1>10

\* One item more is behind when it is decoded with success.
LEMMA OneMore ==
    ASSUME wire \in Stream, H <= Len(wire), NEW k \in Nat, Behind(k), NEW o, Attempt(head, o),
           NEW next, next = k + 1
    PROVE  /\ Content(next) = SkipItems(wire, head, 1)
           /\ o.ret = "OK" => Content(next) = Outcome(o.head, "OK")
           /\ Content(k).head = head
           /\ o.head \in 0 .. Len(wire)
<1>1. At(k)
  BY DEF Behind
<1>2. Content(next) = SkipItems(wire, head, 1) /\ head \in 0 .. Len(wire)
  BY <1>1, ContentLeft
<1>3. Content(k).head = head
  BY <1>1 DEF At, Outcome
<1> QED
  BY <1>2, <1>3, StreamPositions DEF Attempt

\* The position of this callback joins those of the others.
LEMMA OneMorePlaced ==
    ASSUME Positions, pc = "item", calls' = Append(calls, head), NEW k \in Nat, Content(k).head = head,
           ItemOfCall(Len(calls) + 1) = k
    PROVE  /\ calls' \in Seq(Nat) /\ Len(calls') = Len(calls) + 1 /\ DOMAIN calls' = 1 .. Len(calls')
           /\ \A i \in 1 .. Len(calls') : calls'[i] = Content(ItemOfCall(i)).head
<1>1. calls \in Seq(Nat) /\ head \in Nat /\ wire \in Stream
  BY StreamPositions DEF Positions, Types, TypeOK
<1>2. \A i \in 1 .. Len(calls) : calls[i] = Content(ItemOfCall(i)).head
  BY DEF Positions, Placed
<1>3. /\ calls' \in Seq(Nat) /\ Len(calls') = Len(calls) + 1 /\ DOMAIN calls' = 1 .. Len(calls')
      /\ \A i \in 1 .. Len(calls) : calls'[i] = calls[i]
      /\ calls'[Len(calls) + 1] = head
  BY <1>1
<1> QED
  BY <1>1, <1>2, <1>3

LEMMA ElemPositions ==
    ASSUME Positions, ElemDecoded \/ ElemFailed
    PROVE  Positions'
<1>1. /\ pc = "item" /\ IsArray /\ nr = C /\ nr <= ElmMax /\ idx < nr /\ Len(calls) = idx
      /\ Behind(idx) /\ idx \in Nat /\ ret = "OK" /\ err = "OK" /\ req.api = "decode"
      /\ wire \in Stream /\ 1 <= Len(wire) /\ H <= Len(wire) /\ C \in Nat /\ ElmMax \in Nat
      /\ wire[1].kind \in {FixKind, CountedKind} /\ req \in Requests
      /\ head \in 0 .. Len(wire) /\ Len(wire) \in Nat
  BY StreamPositions, LimitsAssumption
     DEF ElemDecoded, ElemFailed, Positions, Types, TypeOK, Started, Walker, WalkingElems, Failing
<1>2. PICK o \in CallbackOutcomes(head) :
        /\ head' = o.head
        /\ ElemDecoded => o.ret = "OK"
        /\ ElemFailed => o.ret # "OK" /\ err' = o.ret
  BY DEF ElemDecoded, ElemFailed
<1>3. /\ UNCHANGED <<wire, disc, req, nr, ret>> /\ idx' = idx + 1 /\ calls' = Append(calls, head)
      /\ ElemDecoded => err' = err /\ pc' = IF idx + 1 >= nr THEN "done" ELSE "item"
      /\ ElemFailed => pc' = "discard"
  BY DEF ElemDecoded, ElemFailed, LastElem, decoder
<1>4. Attempt(head, o)
  BY <1>1, <1>2, CallbackAttempts
<1>5. PICK next \in Nat : next = idx + 1
  BY <1>1
<1>6. /\ o.ret = "OK" => Content(next) = Outcome(o.head, "OK")
      /\ Content(idx).head = head
      /\ o.head \in 0 .. Len(wire)
  BY <1>1, <1>4, <1>5, OneMore
<1>7. ItemOfCall(Len(calls) + 1) = idx
  BY <1>1 DEF ItemOfCall
<1>8. /\ calls' \in Seq(Nat) /\ Len(calls') = Len(calls) + 1 /\ DOMAIN calls' = 1 .. Len(calls')
      /\ \A i \in 1 .. Len(calls') : calls'[i] = Content(ItemOfCall(i)).head
  BY <1>1, <1>3, <1>6, <1>7, OneMorePlaced
<1>9. Types'
  <2>1. head' \in 0 .. Len(wire') /\ idx' \in 0 .. ElmMax /\ pc' \in {"item", "discard", "done"}
    BY <1>1, <1>2, <1>3, <1>6
  <2>2. err' \in ErrorCodes
    BY <1>1, <1>2, <1>3, <1>4 DEF Attempt, ErrorCodes
  <2> QED
    BY <1>3, <1>8, <2>1, <2>2 DEF Positions, Types, TypeOK, ErrorCodes
<1>10. Started' /\ Walker' /\ Loading' /\ Checking' /\ Counting' /\ WalkingFields'
  BY <1>1, <1>3, SameCollection
     DEF Started, Walker, Loading, Checking, Counting, WalkingFields
<1>11. Placed'
  BY <1>3, <1>8, SameCollection DEF Placed
<1>12. WalkingElems'
  <2> SUFFICES ASSUME pc' = "item" PROVE WalkingElems'
    BY DEF WalkingElems
  <2>1. ElemDecoded /\ idx' < nr'
    BY <1>1, <1>3
  <2>2. At(next)'
    BY <1>2, <1>3, <1>6, <2>1, SameCollection
  <2> QED
    BY <1>1, <1>3, <1>5, <1>8, <2>1, <2>2, SameCollection DEF WalkingElems, Behind
<1>13. Failing'
  BY <1>1, <1>2, <1>3, SameCollection DEF Failing
<1>14. Outcomes'
  <2> SUFFICES ASSUME pc' = "done" PROVE Outcomes'
    BY RunningOutcomes
  <2>1. ElemDecoded /\ next = C /\ err' = "OK" /\ ret' = "OK"
    BY <1>1, <1>3, <1>5
  <2>2. Whole = Content(next)
    BY <1>1, <2>1, WholeIsContent DEF MaxOf, IsArray
  <2>3. Whole' = Outcome(head, "OK")' /\ Len(calls') = Count(wire, 0)'
    BY <1>1, <1>2, <1>3, <1>5, <1>6, <1>8, <2>1, <2>2, SameCollection DEF Outcome, C
  <2> QED
    BY <1>1, <1>3, <1>8, <2>1, <2>3, SameCollection
       DEF Outcomes, DecodesWhole, CountEndLeavesEnd, RejectedLeavesEnd, FieldErrorLeavesEnd, Done
<1> QED
  BY <1>9, <1>10, <1>11, <1>12, <1>13, <1>14 DEF Positions

\* In discard mode an item in error of a complete collection is behind the decoder too.
LEMMA FailedBehind ==
    ASSUME wire \in Stream, H <= Len(wire), NEW k \in Nat, Behind(k), NEW o, Attempt(head, o),
           disc, o.ret \notin {"OK", "EEXIST"},
           NEW next \in Nat, next = k + 1,
           NEW total \in Nat, next <= total, Content(total).ret = "OK"
    PROVE  Content(next) = Outcome(o.head, "OK")
<1>1. Content(next) = SkipItems(wire, head, 1) /\ head \in 0 .. Len(wire)
  BY ContentLeft DEF Behind
<1>2. PICK left \in Nat : next + left = total
  <2>1. total - next \in Nat /\ next + (total - next) = total
    OBVIOUS
  <2> QED
    BY <2>1
<1>3. H \in 0 .. Len(wire) /\ 1 \in Nat
  BY StreamPositions DEF H, HeaderSize
<1>4. Content(next).ret = "OK"
  <2>1. SkipItems(wire, H, next + left).ret = "OK"
    BY <1>2 DEF Content, H
  <2> HIDE DEF H
  <2>2. SkipItems(wire, H, next).ret = "OK"
    BY <1>3, <2>1, SkipFewer
  <2> QED
    BY <2>2 DEF Content, H
<1>5. /\ SkipItems(wire, head, 1) = Outcome(SkipItems(wire, head, 1).head, SkipItems(wire, head, 1).ret)
  BY <1>1, SkipOutcome
<1> QED
  BY <1>1, <1>4, <1>5 DEF Attempt

\* The items of a map, as the field identifiers and the values are decoded.
LEMMA FieldFacts ==
    ASSUME Positions, ~IsArray, pc \in {"item", "fldid"}
    PROVE  /\ wire \in Stream /\ 1 <= Len(wire) /\ H <= Len(wire) /\ C \in Nat
           /\ wire[1].kind \in {FixKind, CountedKind} /\ req \in Requests
           /\ head \in 0 .. Len(wire) /\ Len(wire) \in Nat
           /\ ret = "OK" /\ err = "OK" /\ req.api = "decode"
           /\ nr \in Nat /\ nr > 0 /\ nr <= UintMax /\ UintMax \in Nat /\ Len(calls) \in Nat
           /\ C <= FldMax /\ Behind(2 * C - nr) /\ Whole = Content(2 * C)
           /\ nr = 2 * C - 2 * Len(calls) - (IF pc = "item" THEN 1 ELSE 0)
<1>1. /\ wire \in Stream /\ 1 <= Len(wire) /\ H <= Len(wire) /\ C \in Nat
      /\ wire[1].kind \in {FixKind, CountedKind} /\ req \in Requests
      /\ head \in 0 .. Len(wire) /\ Len(wire) \in Nat
      /\ ret = "OK" /\ err = "OK" /\ req.api = "decode"
      /\ nr \in 0 .. UintMax /\ Len(calls) \in Nat
      /\ C <= FldMax /\ nr > 0 /\ Behind(2 * C - nr)
      /\ nr = 2 * C - 2 * Len(calls) - (IF pc = "item" THEN 1 ELSE 0)
  BY StreamPositions DEF Positions, Types, TypeOK, Started, Walker, WalkingFields, Failing
<1>2. C <= MaxOf(req.coll)
  BY <1>1 DEF MaxOf, IsArray
<1>3. Whole = Content(IF IsArray THEN C ELSE 2 * C)
  BY <1>1, <1>2, WholeIsContent
<1> QED
  BY <1>1, <1>3, UintAssumption

\* What one item of the map comes to, whether an identifier or a value.
LEMMA FieldItem ==
    ASSUME Positions, ~IsArray, pc \in {"item", "fldid"},
           NEW o, Attempt(head, o), head' = o.head,
           UNCHANGED <<wire, disc, req, ret>>, nr' = nr - 1
    PROVE  /\ o.ret = "OK" => Behind(2 * C - nr)'
           /\ disc /\ o.ret \notin {"OK", "EEXIST"} /\ Whole.ret = "OK" => Behind(2 * C - nr)'
           /\ o.ret = "OK" /\ nr' = 0 => Whole = Outcome(head', "OK")
           /\ \E k \in Nat : k = 2 * C - nr /\ Content(k).head = head
<1>1. /\ wire \in Stream /\ 1 <= Len(wire) /\ H <= Len(wire) /\ C \in Nat /\ nr \in Nat /\ nr > 0
      /\ Behind(2 * C - nr) /\ Whole = Content(2 * C)
  BY FieldFacts
<1>2. PICK k \in Nat : k = 2 * C - nr /\ At(k)
  BY <1>1 DEF Behind
<1>3. PICK next \in Nat : next = k + 1
  BY <1>2
<1>4. PICK total \in Nat : total = 2 * C
  BY <1>1
<1>5. next <= total /\ next = 2 * C - nr' /\ Behind(k) /\ Whole = Content(total)
  BY <1>1, <1>2, <1>3, <1>4 DEF Behind
<1>6. /\ o.ret = "OK" => Content(next) = Outcome(o.head, "OK")
      /\ Content(k).head = head
  BY <1>1, <1>3, <1>5, OneMore
<1>7. disc /\ o.ret \notin {"OK", "EEXIST"} /\ Whole.ret = "OK" => Content(next) = Outcome(o.head, "OK")
  BY <1>1, <1>3, <1>5, FailedBehind
<1>8. ASSUME Content(next) = Outcome(o.head, "OK") PROVE Behind(2 * C - nr)'
  BY <1>3, <1>5, <1>8, SameCollection DEF Behind
<1>9. nr' = 0 => next = total
  BY <1>1, <1>4, <1>5
<1> QED
  BY <1>2, <1>5, <1>6, <1>7, <1>8, <1>9

LEMMA FieldIdPositions ==
    ASSUME Positions, FieldIdDecoded \/ FieldIdFailed
    PROVE  Positions'
<1>1. pc = "fldid" /\ ~IsArray
  BY DEF FieldIdDecoded, FieldIdFailed, Positions, Failing
<1>2. PICK o \in FieldIdOutcomes(head) :
        /\ head' = o.head
        /\ FieldIdDecoded => o.ret = "OK"
        /\ FieldIdFailed => o.ret # "OK" /\ err' = o.ret
  BY DEF FieldIdDecoded, FieldIdFailed
<1>3. /\ UNCHANGED <<wire, disc, req, idx, ret, calls>> /\ nr' = nr - 1
      /\ FieldIdDecoded => err' = err /\ pc' = "item"
      /\ FieldIdFailed => pc' = "discard"
  BY DEF FieldIdDecoded, FieldIdFailed, decoder
<1>4. Attempt(head, o)
  BY <1>1, <1>2, FieldIdAttempts, FieldFacts
<1>5. /\ o.ret = "OK" => Behind(2 * C - nr)'
      /\ disc /\ o.ret \notin {"OK", "EEXIST"} /\ Whole.ret = "OK" => Behind(2 * C - nr)'
  BY <1>1, <1>2, <1>3, <1>4, FieldItem
<1>6. /\ C \in Nat /\ C <= FldMax /\ nr \in Nat /\ nr > 0 /\ nr <= UintMax /\ UintMax \in Nat
      /\ Len(calls) \in Nat /\ nr = 2 * C - 2 * Len(calls)
      /\ ret = "OK" /\ err = "OK" /\ req.api = "decode" /\ Len(wire) \in Nat /\ head \in 0 .. Len(wire)
  BY <1>1, FieldFacts
<1>7. Types'
  <2>1. head' \in 0 .. Len(wire') /\ nr' \in 0 .. UintMax /\ pc' \in {"item", "discard"}
    BY <1>2, <1>3, <1>4, <1>6 DEF Attempt
  <2>2. err' \in ErrorCodes
    BY <1>2, <1>3, <1>4, <1>6 DEF Attempt, ErrorCodes
  <2> QED
    BY <1>3, <2>1, <2>2 DEF Positions, Types, TypeOK, ErrorCodes
<1>8. Started' /\ Walker' /\ Loading' /\ Checking' /\ Counting' /\ WalkingElems' /\ Placed'
  BY <1>1, <1>3, <1>6, SameCollection
     DEF Positions, Started, Walker, Loading, Checking, Counting, WalkingElems, Placed
<1>9. WalkingFields'
  <2> SUFFICES ASSUME pc' = "item" PROVE WalkingFields'
    BY <1>3 DEF WalkingFields
  <2>1. nr' > 0 /\ nr' = 2 * C - 2 * Len(calls) - 1
    BY <1>3, <1>6
  <2> QED
    BY <1>2, <1>3, <1>5, <1>6, <2>1, SameCollection DEF WalkingFields
<1>10. Failing'
  BY <1>1, <1>2, <1>3, <1>5, <1>6, SameCollection DEF Failing
<1>11. Outcomes'
  BY <1>3, RunningOutcomes
<1> QED
  BY <1>7, <1>8, <1>9, <1>10, <1>11 DEF Positions

LEMMA FieldPositions ==
    ASSUME Positions, FieldDecoded \/ FieldFailed
    PROVE  Positions'
<1>1. pc = "item" /\ ~IsArray
  BY DEF FieldDecoded, FieldFailed, IsArray, IsMap
<1>2. PICK o \in CallbackOutcomes(head) :
        /\ head' = o.head
        /\ FieldDecoded => o.ret = "OK"
        /\ FieldFailed => o.ret # "OK" /\ err' = o.ret
  BY DEF FieldDecoded, FieldFailed
<1>3. /\ UNCHANGED <<wire, disc, req, idx, ret>> /\ nr' = nr - 1 /\ calls' = Append(calls, head)
      /\ FieldDecoded => err' = err /\ pc' = IF nr' = 0 THEN "done" ELSE "fldid"
      /\ FieldFailed => pc' = "discard"
  BY DEF FieldDecoded, FieldFailed, decoder
<1>4. Attempt(head, o)
  BY <1>1, <1>2, CallbackAttempts, FieldFacts
<1>5. /\ o.ret = "OK" => Behind(2 * C - nr)'
      /\ disc /\ o.ret \notin {"OK", "EEXIST"} /\ Whole.ret = "OK" => Behind(2 * C - nr)'
      /\ o.ret = "OK" /\ nr' = 0 => Whole = Outcome(head', "OK")
      /\ \E k \in Nat : k = 2 * C - nr /\ Content(k).head = head
  BY <1>1, <1>2, <1>3, <1>4, FieldItem
<1>6. /\ C \in Nat /\ C <= FldMax /\ nr \in Nat /\ nr > 0 /\ nr <= UintMax /\ UintMax \in Nat
      /\ Len(calls) \in Nat /\ nr = 2 * C - 2 * Len(calls) - 1
      /\ ret = "OK" /\ err = "OK" /\ req.api = "decode" /\ Len(wire) \in Nat /\ head \in 0 .. Len(wire)
  BY <1>1, FieldFacts
<1>7. /\ calls' \in Seq(Nat) /\ Len(calls') = Len(calls) + 1 /\ DOMAIN calls' = 1 .. Len(calls')
      /\ \A i \in 1 .. Len(calls') : calls'[i] = Content(ItemOfCall(i)).head
  <2>1. PICK k \in Nat : k = 2 * C - nr /\ Content(k).head = head
    BY <1>5
  <2>2. ItemOfCall(Len(calls) + 1) = k
    BY <1>1, <1>6, <2>1 DEF ItemOfCall
  <2> QED
    BY <1>1, <1>3, <2>1, <2>2, OneMorePlaced
<1>8. Types'
  <2>1. head' \in 0 .. Len(wire') /\ nr' \in 0 .. UintMax /\ pc' \in {"fldid", "discard", "done"}
    BY <1>2, <1>3, <1>4, <1>6 DEF Attempt
  <2>2. err' \in ErrorCodes
    BY <1>2, <1>3, <1>4, <1>6 DEF Attempt, ErrorCodes
  <2> QED
    BY <1>3, <1>7, <2>1, <2>2 DEF Positions, Types, TypeOK, ErrorCodes
<1>9. Started' /\ Walker' /\ Loading' /\ Checking' /\ Counting' /\ WalkingElems' /\ Placed'
  BY <1>1, <1>3, <1>6, <1>7, SameCollection
     DEF Positions, Started, Walker, Loading, Checking, Counting, WalkingElems, Placed
<1>10. WalkingFields'
  <2> SUFFICES ASSUME pc' = "fldid" PROVE WalkingFields'
    BY <1>3 DEF WalkingFields
  <2>1. nr' > 0
    BY <1>3, <1>6
  <2>2. nr' = 2 * C - 2 * Len(calls')
    BY ONLY <1>3, <1>6, <1>7
  <2> QED
    BY <1>2, <1>3, <1>5, <1>6, <2>1, <2>2, SameCollection DEF WalkingFields
<1>11. Failing'
  BY <1>1, <1>2, <1>3, <1>5, <1>6, SameCollection DEF Failing
<1>12. Outcomes'
  <2> SUFFICES ASSUME pc' = "done" PROVE Outcomes'
    BY RunningOutcomes
  <2>1. FieldDecoded /\ nr' = 0 /\ err' = "OK" /\ ret' = "OK"
    BY <1>3, <1>6
  <2>2. Len(calls') = C
    <3> DEFINE k == Len(calls)
    <3>1. k \in Nat /\ C \in Nat /\ nr = 2 * C - 2 * k - 1 /\ nr = 1
      BY ONLY <1>3, <1>6, <2>1
    <3>2. Len(calls') = k + 1
      BY <1>7
    <3> HIDE DEF k
    <3> QED
      BY ONLY <3>1, <3>2
  <2>3. Whole' = Outcome(head, "OK")' /\ Len(calls') = Count(wire, 0)'
    BY <1>2, <1>3, <1>5, <2>1, <2>2, SameCollection DEF Outcome, C
  <2> QED
    BY <1>3, <1>6, <1>7, <2>1, <2>3, SameCollection
       DEF Outcomes, DecodesWhole, CountEndLeavesEnd, RejectedLeavesEnd, FieldErrorLeavesEnd, Done
<1> QED
  BY <1>8, <1>9, <1>10, <1>11, <1>12 DEF Positions

LEMMA DiscardPositions ==
    ASSUME Positions, DiscardRest
    PROVE  Positions'
<1>1. /\ pc = "discard" /\ err # "OK" /\ err \in ErrorCodes /\ req.api = "decode" /\ ret = "OK"
      /\ wire \in Stream /\ 1 <= Len(wire) /\ H <= Len(wire) /\ C \in Nat
      /\ wire[1].kind \in {FixKind, CountedKind} /\ req \in Requests
      /\ head \in 0 .. Len(wire) /\ Len(wire) \in Nat /\ nr \in Nat
      /\ ~IsArray /\ disc /\ err # "EEXIST" /\ Whole.ret = "OK" => C <= FldMax /\ Behind(2 * C - nr)
  BY StreamPositions, UintAssumption
     DEF DiscardRest, Positions, Types, TypeOK, Started, Walker, Failing
<1>2. PICK rest : rest = MaybeDiscardItems(head, nr, MaxOf(req.coll))
  OBVIOUS
<1>3. MaxOf(req.coll) \in Nat /\ (~IsArray => MaxOf(req.coll) = FldMax)
  BY LimitsAssumption DEF MaxOf, IsArray
<1>4. /\ rest.head \in head .. Len(wire) /\ rest.ret \in {"OK", "ENODATA", "ENOTSUP"}
      /\ disc /\ nr <= MaxOf(req.coll) => rest = SkipItems(wire, head, nr)
  BY <1>1, <1>2, <1>3, Discarding
<1>5. \/ nr = 0 /\ Return(Outcome(head, err))
      \/ nr > 0 /\ rest.ret = "OK" /\ Return(Outcome(rest.head, err))
      \/ nr > 0 /\ rest.ret # "OK" /\ Return(rest)
  BY <1>2 DEF DiscardRest
<1>6. ASSUME IsMap, disc, err \notin {"OK", "EEXIST"}, nr <= FldMax, Whole.ret = "OK"
      PROVE  /\ nr = 0 => Whole = Outcome(head, "OK")
             /\ nr > 0 => Whole = Outcome(rest.head, "OK") /\ rest.ret = "OK"
  <2>1. ~IsArray
    BY <1>6 DEF IsArray, IsMap
  <2>2. C <= FldMax /\ Behind(2 * C - nr)
    BY <1>1, <1>6, <2>1
  <2>3. PICK k \in Nat : k = 2 * C - nr /\ At(k)
    BY <2>2 DEF Behind
  <2>4. PICK total \in Nat : total = 2 * C
    BY <1>1
  <2>5. Whole = Content(total)
    BY <1>1, <1>3, <2>1, <2>2, <2>4, WholeIsContent
  <2>6. total = k + nr
    BY <1>1, <2>3, <2>4
  <2>7. Content(total) = SkipItems(wire, head, nr)
    BY <1>1, <2>3, <2>6, ContentLeft
  <2>8. CASE nr = 0
    BY <1>1, <2>5, <2>7, <2>8, SkipNone DEF Outcome
  <2>9. CASE nr > 0
    <3>1. rest = SkipItems(wire, head, nr)
      BY <1>3, <1>4, <1>6, <2>1
    <3>2. SkipItems(wire, head, nr) = Outcome(rest.head, rest.ret)
      BY <1>1, <3>1, SkipOutcome
    <3> QED
      BY <1>6, <2>5, <2>7, <2>9, <3>1, <3>2
  <2> QED
    BY <1>1, <2>8, <2>9
<1>7. CASE nr = 0 /\ Return(Outcome(head, err))
  <2>1. Delivers(Outcome(head, err))
    BY <1>1, <1>6, <1>7 DEF Delivers, Outcome, ErrorCodes
  <2> QED
    BY <1>1, <1>7, <2>1, ReturnPositions DEF Outcome, Codes, ErrorCodes
<1>8. CASE nr > 0 /\ rest.ret = "OK" /\ Return(Outcome(rest.head, err))
  <2>1. Delivers(Outcome(rest.head, err))
    BY <1>1, <1>6, <1>8 DEF Delivers, Outcome, ErrorCodes
  <2> QED
    BY <1>1, <1>4, <1>8, <2>1, ReturnPositions DEF Outcome, Codes, ErrorCodes
<1>9. CASE nr > 0 /\ rest.ret # "OK" /\ Return(rest)
  <2>1. Delivers(rest)
    BY <1>1, <1>4, <1>6, <1>9 DEF Delivers
  <2> QED
    BY <1>1, <1>4, <1>9, <2>1, ReturnPositions DEF Codes
<1> QED
  BY <1>5, <1>7, <1>8, <1>9

LEMMA CountedFacts ==
    ASSUME Positions, pc = "counted"
    PROVE  /\ wire \in Stream /\ H <= Len(wire) /\ C \in Nat /\ nr \in Nat /\ nr <= C
           /\ head \in 0 .. Len(wire) /\ Len(wire) \in Nat /\ ret = "OK" /\ err = "OK"
           /\ req.api = "count" /\ Behind(C - nr)
           /\ UintMax \in Nat /\ nr <= UintMax
BY StreamPositions, UintAssumption
   DEF Positions, Types, TypeOK, Started, Counting, Failing

LEMMA AppPositions ==
    ASSUME Positions, AppDecodes
    PROVE  Positions'
<1>1. /\ pc = "counted" /\ pc' = "counted" /\ nr > 0 /\ nr' = nr - 1
      /\ UNCHANGED <<wire, disc, req, idx, err, ret, calls>>
  BY DEF AppDecodes, decoder
<1>2. PICK whole : whole = SkipItems(wire, head, 1)
  OBVIOUS
<1>3. whole.ret = "OK" /\ head' = whole.head
  BY <1>2 DEF AppDecodes
<1>4. /\ wire \in Stream /\ H <= Len(wire) /\ C \in Nat /\ nr \in Nat /\ nr <= C
      /\ head \in 0 .. Len(wire) /\ Len(wire) \in Nat /\ req.api = "count" /\ Behind(C - nr)
      /\ UintMax \in Nat /\ nr <= UintMax
  BY <1>1, CountedFacts
<1>5. whole.head \in head .. Len(wire) /\ whole = Outcome(whole.head, whole.ret)
  BY <1>2, <1>4, SkipOutcome
<1>6. PICK k \in Nat : k = C - nr /\ At(k)
  BY <1>4 DEF Behind
<1>7. PICK next \in Nat : next = k + 1
  BY <1>6
<1>8. Content(next) = Outcome(head', "OK")
  BY <1>2, <1>3, <1>4, <1>5, <1>6, <1>7, ContentLeft
<1>9. next = C - nr' /\ nr' <= C /\ nr' \in 0 .. UintMax /\ head' \in 0 .. Len(wire)
  BY <1>1, <1>3, <1>4, <1>5, <1>6, <1>7
<1>10. Counting'
  BY <1>1, <1>4, <1>7, <1>8, <1>9, SameCollection DEF Counting, Behind
<1>11. Types'
  BY <1>1, <1>9 DEF Positions, Types, TypeOK
<1>12. Outcomes'
  BY <1>1, RunningOutcomes
<1> QED
  BY <1>1, <1>10, <1>11, <1>12, SameCollection
     DEF Positions, Loading, Started, Walker, Checking, WalkingElems, WalkingFields, Placed, Failing

LEMMA CountEndPositions ==
    ASSUME Positions, CountEnd
    PROVE  Positions'
<1>1. /\ pc = "counted" /\ wire \in Stream /\ H <= Len(wire) /\ C \in Nat /\ nr \in Nat /\ nr <= C
      /\ head \in 0 .. Len(wire) /\ Len(wire) \in Nat /\ req.api = "count" /\ Behind(C - nr)
      /\ err = "OK" /\ ElmMax \in Nat
  BY CountedFacts, LimitsAssumption DEF CountEnd
<1>2. PICK rest : rest = MaybeDiscardItems(head, nr, ElmMax)
  OBVIOUS
<1>3. /\ rest.head \in head .. Len(wire) /\ rest.ret \in {"OK", "ENODATA", "ENOTSUP"}
      /\ disc /\ rest.ret = "OK" => SkipItems(wire, head, nr) = Outcome(rest.head, "OK")
  BY <1>1, <1>2, Discarding
<1>4. PICK k \in Nat : k = C - nr /\ At(k)
  BY <1>1 DEF Behind
<1>5. C = k + nr
  BY <1>1, <1>4
<1> HIDE DEF C
<1>6. Content(C) = SkipItems(wire, head, nr)
  BY <1>1, <1>4, <1>5, ContentLeft
<1>7. CASE nr = 0 /\ Return(Outcome(head, "OK"))
  <2>1. Content(C) = Outcome(head, "OK")
    BY <1>1, <1>6, <1>7, SkipNone DEF Outcome
  <2>2. Delivers(Outcome(head, "OK"))
    BY <1>1, <2>1 DEF Delivers, Outcome, C
  <2> QED
    BY <1>1, <1>7, <2>2, ReturnPositions DEF Outcome, Codes
<1>8. CASE Return(rest)
  <2>1. Delivers(rest)
    BY <1>1, <1>3, <1>6, <1>8 DEF Delivers, C
  <2> QED
    BY <1>1, <1>3, <1>8, <2>1, ReturnPositions DEF Codes
<1> QED
  BY <1>2, <1>7, <1>8 DEF CountEnd

LEMMA NextPositions ==
    ASSUME Positions, [Next]_vars
    PROVE  Positions'
<1>1. CASE UNCHANGED vars
  <2>1. UNCHANGED <<wire, disc, head, req, pc, nr, idx, err, ret, calls>>
    BY <1>1 DEF vars
  <2>2. Types' /\ Outcomes'
    BY <2>1, SameCollection
       DEF Positions, Types, TypeOK, Outcomes, DecodesWhole, CountEndLeavesEnd, RejectedLeavesEnd,
           FieldErrorLeavesEnd, Done, Outcome, IsMap
  <2>3. \A items : At(items)' <=> At(items)
    BY <2>1, SameCollection DEF At
  <2> QED
    BY <2>1, <2>2, <2>3, SameCollection
       DEF Positions, Loading, Started, Walker, Checking, Counting, WalkingElems, WalkingFields,
           Placed, Failing, Behind
<1> QED
  BY <1>1, TagPositions, AcceptedPositions, RejectedPositions, ElemPositions, FieldIdPositions,
     FieldPositions, DiscardPositions, AppPositions, CountEndPositions
     DEF Next

LEMMA PositionsHold == Spec => []Positions
BY InitPositions, NextPositions, PTL DEF Spec

-----------------------------------------------------------------------------
(* The theorems about positions. *)

\* Every variable has its type: the decoder stays within the stream, the number of items to
\* come within an unsigned int, though map.c:440 doubles it, and the index within the limit.
THEOREM TypeCorrect == Spec => []TypeOK
<1>1. Positions => TypeOK
  BY DEF Positions, Types
<1> QED
  BY <1>1, PositionsHold, PTL

\* A collection decoded with success was complete, is consumed to its end and no further, and
\* the callback was called for each item in order (array.c:276-314, map.c:428-471).
THEOREM DecodedWhole == Spec => []DecodesWhole
<1>1. Positions => DecodesWhole
  BY DEF Positions, Outcomes
<1> QED
  BY <1>1, PositionsHold, PTL

\* An application that ends the walk of an array early, in discard mode, finds the decoder at
\* the end of the array (dpack_array_decode_count_end()).
THEOREM CountEndAtEnd == Spec => []CountEndLeavesEnd
<1>1. Positions => CountEndLeavesEnd
  BY DEF Positions, Outcomes
<1> QED
  BY <1>1, PositionsHold, PTL

\* In discard mode, a collection refused for its count is behind the decoder, whatever
\* collections it contains (dpack_array_maybe_discard_left(), dpack_map_maybe_discard_left()).
THEOREM RejectedAtEnd == Spec => []RejectedLeavesEnd
<1>1. Positions => RejectedLeavesEnd
  BY DEF Positions, Outcomes
<1> QED
  BY <1>1, PositionsHold, PTL

\* In discard mode, a field refused after its identifier or its value was read leaves the
\* decoder at the end of a complete map, and its error is returned (label `discard', map.c).
THEOREM FieldErrorAtEnd == Spec => []FieldErrorLeavesEnd
<1>1. Positions => FieldErrorLeavesEnd
  BY DEF Positions, Outcomes
<1> QED
  BY <1>1, PositionsHold, PTL
=============================================================================
