------------------------------ MODULE Collection ------------------------------
(***************************************************************************)
(* The decoding of arrays (src/src/array.c) and maps (src/src/map.c): the  *)
(* functions that walk a collection and call the application back for each *)
(* element or field, those that only decode the count of an array and let  *)
(* the application walk it, and what all of them do to the decoder when    *)
(* they fail.  In discard mode (dpack_decoder_init_discard_buffer()) they  *)
(* discard what is left of the collection; otherwise they leave the        *)
(* decoder where it is.                                                    *)
(*                                                                         *)
(* Discarding items is the operator SkipItems of Wire: module Discard      *)
(* shows that the code of common.c comes to that.                          *)
(***************************************************************************)
EXTENDS Wire

CONSTANTS
    Streams,    \* what may be left of a stream when a function is called
    Modes,      \* the values of the decoder's `disc' flag
    UintMax     \* UINT_MAX

ASSUME StreamsAssumption == Streams \subseteq Seq(Unit)
ASSUME ModesAssumption == Modes \subseteq BOOLEAN
ASSUME UintAssumption ==
    UintMax \in Nat /\ 2 * FldMax <= UintMax /\ ElmMax <= UintMax

\* A count has at most 32 bits in the stream, and is read into an unsigned int.
ASSUME CountsAssumption == \A u \in Unit : u.n <= UintMax

VARIABLES
    wire,       \* what was left of the stream when the function was called
    disc,       \* decoder->disc
    head,       \* how much of the stream is consumed
    req,        \* the function called and its arguments
    pc,         \* what runs next
    nr,         \* the local variable `nr', or the count an application holds
    idx,        \* the local variable `idx', the index of the next element
    err,        \* the local variable `err': the first error met
    ret,        \* the return code of the function
    calls       \* ghost: where the decoder stood at each callback

decoder == <<wire, disc>>
vars == <<wire, disc, head, req, pc, nr, idx, err, ret, calls>>

-----------------------------------------------------------------------------
(* The functions of the API, with the arguments their assertions accept.   *)
(* The _min, _max and plain forms are ranges; _equ is a code path apart.    *)

MaxOf(coll) == IF coll = "array" THEN ElmMax ELSE FldMax

\* dpack_array_decode(), dpack_map_decode() and their _min, _max and _range forms
RangeRequests(coll) ==
    { [api |-> "decode", coll |-> coll, equ |-> FALSE, lo |-> lo, hi |-> hi] :
         lo \in 1 .. MaxOf(coll), hi \in 1 .. MaxOf(coll) }

EquRequests(coll) ==
    { [api |-> "decode", coll |-> coll, equ |-> TRUE, lo |-> n, hi |-> n] :
         n \in 1 .. MaxOf(coll) }

\* dpack_array_decode_count_min(), _max(), _range()
CountRequests ==
    { [api |-> "count", coll |-> "array", equ |-> FALSE, lo |-> lo, hi |-> hi] :
         lo \in 1 .. ElmMax, hi \in 1 .. ElmMax }

CountEquRequests ==
    { [api |-> "count", coll |-> "array", equ |-> TRUE, lo |-> n, hi |-> n] :
         n \in 1 .. ElmMax }

\* dpack_array_decode_count() puts no upper limit on the count.
CountAnyRequest ==
    [api |-> "count", coll |-> "array", equ |-> FALSE, lo |-> 1, hi |-> UintMax]

\* The _range forms assert min < max; the others fix one of the bounds.
ArgumentsAccepted(r) == r.equ \/ r.lo < r.hi \/ r.lo = 1

Requests ==
    { r \in UNION { RangeRequests("array"), EquRequests("array"),
                    RangeRequests("map"), EquRequests("map"),
                    CountRequests, CountEquRequests, {CountAnyRequest} } :
        ArgumentsAccepted(r) }

IsArray == req.coll = "array"
IsMap == req.coll = "map"

-----------------------------------------------------------------------------
(* Helpers of common.c and outcomes of the decoding of one item, as the     *)
(* position the decoder is left at and the return code.                     *)

Outcome(p, code) == [head |-> p, ret |-> code]

\* Fault seeded in MaybeDiscardItems: the mode is not looked at.
AlwaysDiscardItems(p, count, max) ==
    IF count > max THEN Outcome(p, "ENOTSUP") ELSE SkipItems(wire, p, count)

\* dpack_maybe_discard_items()
MaybeDiscardItems(p, count, max) ==
    IF count > max THEN Outcome(p, "ENOTSUP")
    ELSE IF disc THEN SkipItems(wire, p, count)
    ELSE Outcome(p, "OK")

\* A function that expects another tag than the one at position p: it has read
\* the tag, calls dpack_maybe_discard() and fails.
Mismatch(p) ==
    LET whole == SkipItems(wire, p, 1) IN
    IF ~disc THEN Outcome(p + 1, "ENOMSG")
    ELSE IF whole.ret = "OK" THEN Outcome(whole.head, "ENOMSG")
    ELSE whole

\* dpack_map_decode_fldid(): an identifier is an unsigned integer.  The model
\* does not say which atoms and scalars are.
FieldIdOutcomes(p) ==
    LET whole == SkipItems(wire, p, 1) IN
    IF p = Len(wire) THEN { whole }
    ELSE IF wire[p + 1].kind \in {"atom", "scalar"} THEN
        { whole, Mismatch(p) }
            \cup (IF whole.ret = "OK" THEN { Outcome(whole.head, "ENOMSG") } ELSE {})
    ELSE { Mismatch(p) }

\* The application's callback, or the application itself: it decodes the item
\* whole, or fails before it reads anything (map_sample.c returns -EEXIST so),
\* on the tag, or on the value of the item.
CallbackOutcomes(p) ==
    LET whole == SkipItems(wire, p, 1) IN
    { whole, Outcome(p, "EEXIST") }
        \cup (IF p < Len(wire) THEN { Mismatch(p) } ELSE {})
        \cup (IF whole.ret = "OK" THEN { Outcome(whole.head, "ERANGE") } ELSE {})

-----------------------------------------------------------------------------
Init ==
    /\ wire \in Streams
    /\ disc \in Modes
    /\ head = 0
    /\ req \in Requests
    /\ pc = "load"
    /\ nr = 0
    /\ idx = 0
    /\ err = "OK"
    /\ ret = "OK"
    /\ calls = <<>>

\* The function returns the outcome o.
Return(o) ==
    /\ pc' = "done"
    /\ head' = o.head
    /\ ret' = o.ret
    /\ UNCHANGED <<decoder, req, nr, idx, err, calls>>

-----------------------------------------------------------------------------
(* dpack_load_array_tag() and dpack_load_map_tag() *)

FixKind == IF IsArray THEN "fixarr" ELSE "fixmap"
CountedKind == IF IsArray THEN "arr" ELSE "map"

Loaded(n, p) ==
    /\ pc' = "check"
    /\ nr' = n
    /\ head' = p
    /\ UNCHANGED <<decoder, req, idx, err, ret, calls>>

LoadTag ==
    /\ pc = "load"
    /\ head + 1 \in DOMAIN wire
    /\ LET tag == wire[head + 1] IN
       \/ tag.kind = FixKind /\ Loaded(tag.n, head + 1)
       \/ /\ tag.kind = CountedKind
          /\ head + 2 \in DOMAIN wire
          /\ Loaded(wire[head + 2].n, head + 2)
       \/ /\ tag.kind = CountedKind
          /\ head + 2 \notin DOMAIN wire
          /\ Return(Outcome(head + 1, "ENODATA"))
       \/ /\ tag.kind \notin {FixKind, CountedKind}
          /\ Return(Mismatch(head))

-----------------------------------------------------------------------------
(* The count is checked against the request. *)

InRange == req.lo <= nr /\ nr <= req.hi

\* The application that decoded a count goes on by itself.
CountAccepted ==
    /\ pc = "check" /\ InRange /\ req.api = "count"
    /\ pc' = "counted"
    /\ UNCHANGED <<decoder, head, req, nr, idx, err, ret, calls>>

ElemsAccepted ==
    /\ pc = "check" /\ InRange /\ req.api = "decode" /\ IsArray
    /\ pc' = "item"
    /\ UNCHANGED <<decoder, head, req, nr, idx, err, ret, calls>>

\* dpack_map_decode_fields() counts items: two per field.
FieldsAccepted ==
    /\ pc = "check" /\ InRange /\ req.api = "decode" /\ IsMap
    /\ pc' = "fldid"
    /\ nr' = 2 * nr
    /\ UNCHANGED <<decoder, head, req, idx, err, ret, calls>>

\* Fault seeded in LeftArgument: the upper bound is discarded, not the count.
LeftArgumentIsBound == req.hi

\* What a function that rejects the count passes to dpack_array_maybe_discard_left()
\* or dpack_map_maybe_discard_left(): dpack_array_decode_count_equ() passes the
\* count it expected, dpack_map_decode_equ() twice the count it found, and the
\* others the count they found.
LeftArgument ==
    IF req.api = "count" /\ req.equ THEN req.lo
    ELSE IF IsMap /\ req.equ THEN 2 * nr
    ELSE nr

CountRejected ==
    /\ pc = "check" /\ ~InRange
    /\ LET left == LeftArgument
           rest == MaybeDiscardItems(head, left, MaxOf(req.coll))
       IN  \/ /\ left = 0
              /\ Return(Outcome(head, "EBADMSG"))
           \/ /\ left > 0 /\ rest.ret = "OK"
              /\ Return(Outcome(rest.head, "EMSGSIZE"))
           \/ /\ left > 0 /\ rest.ret # "OK"
              /\ Return(rest)

-----------------------------------------------------------------------------
(* dpack_array_decode_elems() *)

\* Fault seeded in LastElem: the index is compared before it is incremented.
LastElemOffByOne == idx >= nr

\* `idx < nr' does not hold once idx is incremented.
LastElem == idx + 1 >= nr

ElemDecoded ==
    /\ pc = "item" /\ IsArray
    /\ \E o \in CallbackOutcomes(head) :
          /\ o.ret = "OK"
          /\ head' = o.head
    /\ calls' = Append(calls, head)
    /\ idx' = idx + 1
    /\ pc' = IF LastElem THEN "done" ELSE "item"
    /\ UNCHANGED <<decoder, req, nr, err, ret>>

ElemFailed ==
    /\ pc = "item" /\ IsArray
    /\ \E o \in CallbackOutcomes(head) :
          /\ o.ret # "OK"
          /\ head' = o.head
          /\ err' = o.ret
    /\ calls' = Append(calls, head)
    /\ idx' = idx + 1
    /\ pc' = "discard"
    /\ UNCHANGED <<decoder, req, nr, ret>>

-----------------------------------------------------------------------------
(* dpack_map_decode_fields() *)

FieldIdDecoded ==
    /\ pc = "fldid"
    /\ \E o \in FieldIdOutcomes(head) :
          /\ o.ret = "OK"
          /\ head' = o.head
    /\ nr' = nr - 1
    /\ pc' = "item"
    /\ UNCHANGED <<decoder, req, idx, err, ret, calls>>

FieldIdFailed ==
    /\ pc = "fldid"
    /\ \E o \in FieldIdOutcomes(head) :
          /\ o.ret # "OK"
          /\ head' = o.head
          /\ err' = o.ret
    /\ nr' = nr - 1
    /\ pc' = "discard"
    /\ UNCHANGED <<decoder, req, idx, ret, calls>>

\* Fault seeded in FieldDecoded: the field is counted, not its value alone.
FieldDecodedTwice ==
    /\ pc = "item" /\ IsMap
    /\ \E o \in CallbackOutcomes(head) :
          /\ o.ret = "OK"
          /\ head' = o.head
    /\ calls' = Append(calls, head)
    /\ nr' = nr - 2
    /\ pc' = IF nr' = 0 THEN "done" ELSE "fldid"
    /\ UNCHANGED <<decoder, req, idx, err, ret>>

FieldDecoded ==
    /\ pc = "item" /\ IsMap
    /\ \E o \in CallbackOutcomes(head) :
          /\ o.ret = "OK"
          /\ head' = o.head
    /\ calls' = Append(calls, head)
    /\ nr' = nr - 1
    /\ pc' = IF nr' = 0 THEN "done" ELSE "fldid"
    /\ UNCHANGED <<decoder, req, idx, err, ret>>

\* Fault seeded in FieldFailed: the value that failed is counted as left.
FieldFailedUncounted ==
    /\ pc = "item" /\ IsMap
    /\ \E o \in CallbackOutcomes(head) :
          /\ o.ret # "OK"
          /\ head' = o.head
          /\ err' = o.ret
    /\ calls' = Append(calls, head)
    /\ pc' = "discard"
    /\ UNCHANGED <<decoder, req, nr, idx, ret>>

FieldFailed ==
    /\ pc = "item" /\ IsMap
    /\ \E o \in CallbackOutcomes(head) :
          /\ o.ret # "OK"
          /\ head' = o.head
          /\ err' = o.ret
    /\ calls' = Append(calls, head)
    /\ nr' = nr - 1
    /\ pc' = "discard"
    /\ UNCHANGED <<decoder, req, idx, ret>>

\* The label `discard' of both functions: an error of the discarding takes the
\* place of the one that caused it.
DiscardRest ==
    /\ pc = "discard"
    /\ LET rest == MaybeDiscardItems(head, nr, MaxOf(req.coll)) IN
       \/ /\ nr = 0
          /\ Return(Outcome(head, err))
       \/ /\ nr > 0 /\ rest.ret = "OK"
          /\ Return(Outcome(rest.head, err))
       \/ /\ nr > 0 /\ rest.ret # "OK"
          /\ Return(rest)

-----------------------------------------------------------------------------
(* The application walks an array whose count it decoded: it decodes as many *)
(* elements as it likes, then calls dpack_array_decode_count_end() with the  *)
(* number of those that are left.                                            *)

AppDecodes ==
    /\ pc = "counted" /\ nr > 0
    /\ LET whole == SkipItems(wire, head, 1) IN
          whole.ret = "OK" /\ head' = whole.head
    /\ nr' = nr - 1
    /\ UNCHANGED <<decoder, req, pc, idx, err, ret, calls>>

\* Fault seeded in CountEnd: the last element left is not discarded.
CountEndShort ==
    /\ pc = "counted"
    /\ \/ nr <= 1 /\ Return(Outcome(head, "OK"))
       \/ nr > 1 /\ Return(MaybeDiscardItems(head, nr - 1, ElmMax))

CountEnd ==
    /\ pc = "counted"
    /\ \/ nr = 0 /\ Return(Outcome(head, "OK"))
       \/ nr > 0 /\ Return(MaybeDiscardItems(head, nr, ElmMax))

NoTag ==
    /\ pc = "load" /\ head + 1 \notin DOMAIN wire
    /\ Return(Outcome(head, "ENODATA"))

Next ==
    \/ LoadTag \/ NoTag
    \/ CountAccepted \/ ElemsAccepted \/ FieldsAccepted \/ CountRejected
    \/ ElemDecoded \/ ElemFailed
    \/ FieldIdDecoded \/ FieldIdFailed \/ FieldDecoded \/ FieldFailed
    \/ DiscardRest
    \/ AppDecodes \/ CountEnd

Spec == Init /\ [][Next]_vars

-----------------------------------------------------------------------------
(* Properties *)

\* Every variable has its type, and the decoder stays within the stream.
TypeOK ==
    /\ wire \in Streams
    /\ disc \in Modes
    /\ head \in 0 .. Len(wire)
    /\ req \in Requests
    /\ pc \in {"load", "check", "counted", "item", "fldid", "discard", "done"}
    /\ nr \in 0 .. UintMax
    /\ idx \in 0 .. ElmMax
    /\ {err, ret} \subseteq
         {"OK", "ENODATA", "ENOTSUP", "ENOMSG", "EBADMSG", "EMSGSIZE", "ERANGE", "EEXIST"}
    /\ calls \in Seq(Nat)

Done == pc = "done"

\* The collection as a whole, and its content without the header.
Whole == SkipItems(wire, 0, 1)
Content(items) == SkipItems(wire, HeaderSize(wire, 0), items)

\* The item the i-th callback is for: the i-th element, the value of the i-th field.
ItemOfCall(i) == IF IsArray THEN i - 1 ELSE 2 * i - 1

\* A collection that is decoded with success was complete, it is consumed to
\* its end and no further, and the callback was called once for each element or
\* field, in order, each time with the decoder at the beginning of its item.
DecodesWhole ==
    Done /\ ret = "OK" /\ req.api = "decode" =>
        /\ Whole = Outcome(head, "OK")
        /\ Len(calls) = Count(wire, 0)
        /\ \A i \in DOMAIN calls : calls[i] = Content(ItemOfCall(i)).head

\* An application that walks an array by itself and ends the walk in discard
\* mode, however early, finds the decoder at the end of the array.
CountEndLeavesEnd ==
    Done /\ ret = "OK" /\ req.api = "count" /\ disc =>
        Content(Count(wire, 0)) = Outcome(head, "OK")

\* Without discard mode, what the callback of an array returns is what the
\* caller of the decoding function gets (array.h:988-990).
ArrayErrorReturned ==
    Done /\ IsArray /\ ~disc /\ err # "OK" => ret = err

\* In discard mode, a collection that is refused for its number of elements or
\* fields is behind the decoder.  This leaves out two functions that give up as many
\* items as something else than the count they found: array.c:187 as many as they
\* expected, map.c:520 as many as there are fields, half of the map.
RejectedLeavesEnd ==
    /\ Done /\ disc /\ ret = "EMSGSIZE"
    /\ IF IsArray THEN ~(req.api = "count" /\ req.equ) ELSE req.equ
    => Whole = Outcome(head, "OK")

\* In discard mode, when a field of a complete map is refused once its
\* identifier or its value is consumed, the decoder ends up at the end of the
\* map and the error is not lost, as long as the items left are within the limit
\* DPACK_MAP_FLDNR_MAX.
FieldErrorLeavesEnd ==
    /\ Done /\ IsMap /\ disc
    /\ err \notin {"OK", "EEXIST"}
    /\ nr <= FldMax
    /\ Whole.ret = "OK"
    => head = Whole.head /\ ret = err

\* It is the callback that failed, not the decoding of a field identifier, after
\* which an odd number of items is left.
CallbackFailed == err # "OK" /\ (IsMap => nr % 2 = 0)

\* Claimed by codec.h:245-248 of every collection decoding function: the error
\* of the callback is the one its caller gets.
CallbackErrorReturned == Done /\ CallbackFailed => ret = err
=============================================================================
