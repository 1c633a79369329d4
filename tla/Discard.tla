------------------------------- MODULE Discard -------------------------------
(***************************************************************************)
(* The discarding of items of src/src/common.c: dpack_decoder_discard(),   *)
(* and dpack_maybe_discard_items() which every collection decoder calls to *)
(* leave a decoder past what it refuses to decode.                         *)
(*                                                                         *)
(* dpack_discard_items(), dpack_decoder_discard(), dpack_discard_body()    *)
(* and the functions it dispatches to call each other recursively, one     *)
(* activation of dpack_discard_items() for each collection being           *)
(* discarded.  The C stack is the sequence `stack' of the loop counters of *)
(* these activations, the innermost last; a step of the model is the code  *)
(* between two calls or returns.                                           *)
(***************************************************************************)
EXTENDS Wire

CONSTANT UintMax    \* UINT_MAX

ASSUME UintAssumption ==
    /\ UintMax \in Nat
    /\ 2 * FldMax <= UintMax /\ ElmMax <= UintMax

VARIABLES
    wire,       \* the stream
    head,       \* how much of it is consumed
    pc,         \* "idle", or the function about to run: "tag" for
                \* dpack_decoder_discard(), "body" for dpack_discard_body(),
                \* "return" when one of them just returned
    tag,        \* the tag dpack_discard_body() runs for
    stack,      \* the counters `nr' of the active dpack_discard_items() loops
    ret,        \* the return code of the function that returned last
    from,       \* ghost: where the decoder stood when it was called last
    asked       \* ghost: how many items it was asked to discard

vars == <<wire, head, pc, tag, stack, ret, from, asked>>

NoTag == [kind |-> "atom", n |-> 0]

Left == Len(wire) - head

-----------------------------------------------------------------------------
(* The calls from outside *)

\* Any stream of at most MaxLen units may be given to a decoder.
CONSTANT MaxLen

ASSUME MaxLenAssumption == MaxLen \in Nat \ {0}

Init ==
    /\ wire \in UNION {[1 .. len -> Unit] : len \in 1 .. MaxLen}
    /\ head = 0
    /\ pc = "idle"
    /\ tag = NoTag
    /\ stack = <<>>
    /\ ret = "OK"
    /\ from = 0
    /\ asked = 0

\* dpack_decoder_discard() is called by the application.
DecoderDiscard ==
    /\ pc = "idle" /\ ret = "OK"
    /\ pc' = "tag"
    /\ from' = head
    /\ asked' = 1
    /\ UNCHANGED <<wire, head, tag, stack, ret>>

\* A collection decoder calls dpack_maybe_discard_items() in discard mode,
\* with a count that is not zero and a limit of its own.
MaybeDiscardItems(count, max) ==
    /\ pc = "idle" /\ ret = "OK"
    /\ from' = head
    /\ \/ /\ count <= max
          /\ asked' = count
          /\ pc' = "tag"
          /\ stack' = <<count>>
          /\ UNCHANGED ret
       \/ /\ count > max
          /\ asked' = 0
          /\ ret' = "ENOTSUP"
          /\ UNCHANGED <<pc, stack>>
    /\ UNCHANGED <<wire, head, tag>>

-----------------------------------------------------------------------------
(* dpack_decoder_discard() *)

\* Fault seeded in ReadTag: the tag is looked at and left in the stream.
PeekTag ==
    /\ pc = "tag" /\ Left > 0
    /\ tag' = wire[head + 1]
    /\ pc' = "body"
    /\ UNCHANGED <<wire, head, stack, ret, from, asked>>

ReadTag ==
    /\ pc = "tag" /\ Left > 0
    /\ tag' = wire[head + 1]
    /\ head' = head + 1
    /\ pc' = "body"
    /\ UNCHANGED <<wire, stack, ret, from, asked>>

NoMoreTag ==
    /\ pc = "tag" /\ Left = 0
    /\ ret' = "ENODATA"
    /\ pc' = "return"
    /\ UNCHANGED <<wire, head, tag, stack, from, asked>>

-----------------------------------------------------------------------------
(* dpack_discard_body(): one disjunct for each outcome of the function the *)
(* tag dispatches to.                                                      *)

\* The code `code' is returned, with the decoder at position p.
Return(code, p) ==
    /\ pc' = "return"
    /\ ret' = code
    /\ head' = p
    /\ UNCHANGED <<wire, tag, stack, from, asked>>

\* Fault seeded in Skip: what is left is not looked at.
SkipUnchecked(size, p) == Return("OK", p + size)

\* dpack_decoder_skip() from position p: all the units or none of them.
Skip(size, p) ==
    \/ /\ p + size <= Len(wire)
       /\ Return("OK", p + size)
    \/ /\ p + size > Len(wire)
       /\ Return("ENODATA", p)

\* dpack_discard_fixcnt(), dpack_discard_cnt8() and the wider ones, once the
\* count is known: a null count skips nothing.
DiscardPayload(cnt, max, p) ==
    \/ /\ cnt <= max
       /\ Skip(cnt, p)
    \/ /\ cnt > max
       /\ Return("ENOTSUP", p)

\* Fault seeded in DiscardCollection: an empty collection enters the loop.
DiscardEvenEmpty(nr, max, arity, p) ==
    \/ /\ nr <= max
       /\ pc' = "tag"
       /\ head' = p
       /\ stack' = Append(stack, arity * nr)
       /\ UNCHANGED <<wire, tag, ret, from, asked>>
    \/ /\ nr > max
       /\ Return("ENOTSUP", p)

\* dpack_discard_fixarray() and its siblings, once the count is known: a map
\* has two items per field.
DiscardCollection(nr, max, arity, p) ==
    \/ /\ nr = 0
       /\ Return("OK", p)
    \/ /\ nr > 0 /\ nr <= max
       /\ pc' = "tag"
       /\ head' = p
       /\ stack' = Append(stack, arity * nr)
       /\ UNCHANGED <<wire, tag, ret, from, asked>>
    \/ /\ nr > max
       /\ Return("ENOTSUP", p)

DiscardAtom ==
    /\ pc = "body" /\ tag.kind = "atom"
    /\ Return("OK", head)

DiscardScalar ==
    /\ pc = "body" /\ tag.kind = "scalar"
    /\ Skip(tag.n, head)

DiscardFixed ==
    /\ pc = "body"
    /\ \/ tag.kind = "fixstr" /\ DiscardPayload(tag.n, StrMax, head)
       \/ tag.kind = "fixarr" /\ DiscardCollection(tag.n, ElmMax, 1, head)
       \/ tag.kind = "fixmap" /\ DiscardCollection(tag.n, FldMax, 2, head)

\* The count is read first, by dpack_read_cnt8() or dpack_read_cnt16().
DiscardCounted ==
    /\ pc = "body" /\ Left > 0
    /\ LET cnt == wire[head + 1].n IN
       \/ tag.kind = "str" /\ DiscardPayload(cnt, StrMax, head + 1)
       \/ tag.kind = "bin" /\ DiscardPayload(cnt, BinMax, head + 1)
       \/ tag.kind = "arr" /\ DiscardCollection(cnt, ElmMax, 1, head + 1)
       \/ tag.kind = "map" /\ DiscardCollection(cnt, FldMax, 2, head + 1)

NoCount ==
    /\ pc = "body" /\ Counted(tag) /\ Left = 0
    /\ Return("ENODATA", head)

DiscardUnsupported ==
    /\ pc = "body" /\ tag.kind = "ext"
    /\ Return("ENOTSUP", head)

-----------------------------------------------------------------------------
(* The loop of dpack_discard_items(), when the discarding of an item returns *)

Nr == stack[Len(stack)]
Callers == SubSeq(stack, 1, Len(stack) - 1)

\* `--nr' on an unsigned counter
Decremented(nr) == (nr - 1) % (UintMax + 1)

NextItem ==
    /\ pc = "return" /\ stack # <<>> /\ ret = "OK"
    /\ Decremented(Nr) # 0
    /\ stack' = [stack EXCEPT ![Len(stack)] = Decremented(Nr)]
    /\ pc' = "tag"
    /\ UNCHANGED <<wire, head, tag, ret, from, asked>>

LastItem ==
    /\ pc = "return" /\ stack # <<>> /\ ret = "OK"
    /\ Decremented(Nr) = 0
    /\ stack' = Callers
    /\ UNCHANGED <<wire, head, pc, tag, ret, from, asked>>

\* Fault seeded in ItemFailed: the loop tries again after an error.
ItemRetried ==
    /\ pc = "return" /\ stack # <<>> /\ ret # "OK"
    /\ pc' = "tag"
    /\ UNCHANGED <<wire, head, tag, stack, ret, from, asked>>

\* Fault seeded in ItemFailed: the error is lost on the way out.
ItemFailureIgnored ==
    /\ pc = "return" /\ stack # <<>> /\ ret # "OK"
    /\ stack' = Callers
    /\ ret' = "OK"
    /\ UNCHANGED <<wire, head, pc, tag, from, asked>>

ItemFailed ==
    /\ pc = "return" /\ stack # <<>> /\ ret # "OK"
    /\ stack' = Callers
    /\ UNCHANGED <<wire, head, pc, tag, ret, from, asked>>

\* The outermost call returns to the application or to a collection decoder.
Finish ==
    /\ pc = "return" /\ stack = <<>>
    /\ pc' = "idle"
    /\ UNCHANGED <<wire, head, tag, stack, ret, from, asked>>

\* Every step that is not a call from outside.
Step ==
    \/ ReadTag \/ NoMoreTag
    \/ DiscardAtom \/ DiscardScalar \/ DiscardFixed
    \/ DiscardCounted \/ NoCount \/ DiscardUnsupported
    \/ NextItem \/ LastItem \/ ItemFailed
    \/ Finish

CONSTANT Counts     \* the counts collection decoders ask to discard

ASSUME CountsAssumption == Counts \subseteq 1 .. UintMax

Next ==
    \/ DecoderDiscard
    \/ \E count \in Counts, max \in {ElmMax, FldMax} : MaybeDiscardItems(count, max)
    \/ Step

Spec == Init /\ [][Next]_vars

\* A call that is under way runs on: the code waits for nothing.
FairSpec == Spec /\ WF_vars(Step)

-----------------------------------------------------------------------------
(* Properties *)

\* Every variable has its type, and no cursor passes the end of the stream.
TypeOK ==
    /\ wire \in Seq(Unit)
    /\ head \in 0 .. Len(wire)
    /\ pc \in {"idle", "tag", "body", "return"}
    /\ tag \in Unit \cup {NoTag}
    /\ stack \in Seq(0 .. UintMax)
    /\ ret \in {"OK", "ENODATA", "ENOTSUP"}
    /\ from \in 0 .. head
    /\ asked \in 0 .. UintMax

\* No loop of dpack_discard_items() ever runs, or is resumed, with a null count:
\* `while (--nr)' would go on for UINT_MAX more items (common.c:185,193).
LoopsAlive == \A i \in DOMAIN stack : stack[i] # 0

\* The recursion never goes deeper than the bytes consumed since the call: the
\* C stack a stream makes it use is bounded by its
\* length, and by nothing else.
DepthBounded == Len(stack) <= 1 + head - from

\* When a call returns, the decoder stands where the layout of the stream says,
\* past exactly the items that were asked for, nested ones included; if not, the
\* error is the one met first and it crossed every level of the recursion.
AgreesWithLayout ==
    pc = "idle" /\ asked > 0 =>
        [head |-> head, ret |-> ret] = SkipItems(wire, from, asked)

\* Discarding ends, on every stream.
Terminates == pc # "idle" ~> pc = "idle"
=============================================================================
