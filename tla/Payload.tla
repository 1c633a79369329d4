------------------------------- MODULE Payload -------------------------------
(***************************************************************************)
(* The decoding of strings (src/src/string.c), binaries (src/src/bin.c)    *)
(* and length-value strings (src/src/lvstr.c): the functions that copy a   *)
(* payload into memory they allocate and those that copy it into memory    *)
(* of the caller, and what becomes of the decoder and of the memory when   *)
(* they fail.                                                              *)
(*                                                                         *)
(* An application makes several calls in a row on the same decoder.  Each  *)
(* call is a few steps: the tag and the length, the bounds, malloc(), the  *)
(* copy.  A character is a unit of the stream, null when its n is zero.    *)
(***************************************************************************)
EXTENDS Wire

CONSTANTS
    Streams,    \* what may be left of a stream before the first call
    Modes,      \* the values of the decoder's `disc' flag
    LvMax,      \* DPACK_LVSTRLEN_MAX
    MaxCalls    \* how many calls the application makes (bounds the model)

ASSUME StreamsAssumption == Streams \subseteq Seq(Unit)
ASSUME ModesAssumption == Modes \subseteq BOOLEAN
ASSUME LvAssumption == LvMax \in 1 .. StrMax
ASSUME CallsAssumption == MaxCalls \in Nat

VARIABLES
    wire,       \* the stream
    disc,       \* decoder->disc
    head,       \* how much of the stream is consumed
    pc,         \* "idle", or the step of the call that comes next
    call,       \* the function called and its arguments
    len,        \* the local variable `len', or the length returned
    ret,        \* the return code, "OK" when a length is returned
    size,       \* the size of the memory the payload is copied to
    value,      \* what was written there
    heap,       \* the blocks malloc() returned and nobody freed
    held,       \* those the application got hold of
    log         \* ghost: the calls made, what they returned, where they began

decoder == <<wire, disc>>
vars == <<wire, disc, head, pc, call, len, ret, size, value, heap, held, log>>

-----------------------------------------------------------------------------
(* The functions of the API, with the arguments their assertions accept:    *)
(* what they decode, where to, and the lengths they accept.                 *)

Dup(of, lo, hi) == [of |-> of, to |-> "block", lo |-> lo, hi |-> hi, size |-> 0]
Cede(lo, hi) == [of |-> "str", to |-> "lvstr", lo |-> lo, hi |-> hi, size |-> 0]
Copy(of, lo, hi, sz) == [of |-> of, to |-> "caller", lo |-> lo, hi |-> hi, size |-> sz]

\* The pairs of bounds the _range forms accept.
Ranges(max) == { b \in (1 .. max) \X (1 .. max) : b[1] < b[2] }

StrdupCalls == { Dup("str", 1, StrMax) }
StrdupEquCalls == { Dup("str", n, n) : n \in 1 .. StrMax }
StrdupMaxCalls == { Dup("str", 1, n) : n \in 2 .. StrMax }
StrdupRangeCalls == { Dup("str", b[1], b[2]) : b \in Ranges(StrMax) }

\* Fault seeded in StrcpyCalls: no room is kept for the terminator.
StrcpyCallsUnterminated == { Copy("str", 1, sz, sz) : sz \in 2 .. StrMax }

\* One character of the destination is for the terminator.
StrcpyCalls == { Copy("str", 1, sz - 1, sz) : sz \in 2 .. StrMax + 1 }
StrcpyEquCalls == { Copy("str", sz - 1, sz - 1, sz) : sz \in 2 .. StrMax + 1 }
StrcpyRangeCalls == { Copy("str", b[1], b[2], b[2] + 1) : b \in Ranges(StrMax) }

BindupCalls == { Dup("bin", 1, BinMax) }
BindupEquCalls == { Dup("bin", n, n) : n \in 1 .. BinMax }
BindupMaxCalls == { Dup("bin", 1, n) : n \in 2 .. BinMax }
BindupRangeCalls == { Dup("bin", b[1], b[2]) : b \in Ranges(BinMax) }
BincpyCalls == { Copy("bin", 1, sz, sz) : sz \in 1 .. BinMax }
BincpyEquCalls == { Copy("bin", sz, sz, sz) : sz \in 1 .. BinMax }
BincpyRangeCalls == { Copy("bin", b[1], b[2], b[2]) : b \in Ranges(BinMax) }

LvstrCalls == { Cede(1, LvMax) }
LvstrEquCalls == { Cede(n, n) : n \in 1 .. LvMax }
LvstrMaxCalls == { Cede(1, n) : n \in 2 .. LvMax }
LvstrRangeCalls == { Cede(b[1], b[2]) : b \in Ranges(LvMax) }

Calls ==
    UNION { StrdupCalls, StrdupEquCalls, StrdupMaxCalls, StrdupRangeCalls,
            StrcpyCalls, StrcpyEquCalls, StrcpyRangeCalls,
            BindupCalls, BindupEquCalls, BindupMaxCalls, BindupRangeCalls,
            BincpyCalls, BincpyEquCalls, BincpyRangeCalls,
            LvstrCalls, LvstrEquCalls, LvstrMaxCalls, LvstrRangeCalls }

Call ==
    [of : {"str", "bin"}, to : {"block", "lvstr", "caller"}, lo : Nat, hi : Nat, size : Nat]

MaxOf(c) == IF c.of = "str" THEN StrMax ELSE BinMax

-----------------------------------------------------------------------------
NoCall == Dup("str", 0, 0)

Init ==
    /\ wire \in Streams
    /\ disc \in Modes
    /\ head = 0
    /\ pc = "idle"
    /\ call = NoCall
    /\ len = 0
    /\ ret = "OK"
    /\ size = 0
    /\ value = <<>>
    /\ heap = {}
    /\ held = {}
    /\ log = <<>>

\* The application goes on after an error it may recover from: only a decoder in
\* discard mode can still be at the beginning of an item.
Recoverable == IF disc THEN {"OK", "EBADMSG", "EMSGSIZE", "ENOMSG"} ELSE {"OK"}

Begin(c) ==
    /\ pc = "idle" /\ ret \in Recoverable
    /\ Len(log) < MaxCalls
    /\ pc' = "tag"
    /\ call' = c
    /\ len' = 0
    /\ size' = c.size
    /\ value' = <<>>
    /\ log' = Append(log, [call |-> c, ret |-> "none", at |-> head])
    /\ UNCHANGED <<decoder, head, ret, heap, held>>

\* The block the current call allocates is named after the call.
Block == Len(log)

Logged(code) == log' = [log EXCEPT ![Len(log)].ret = code]

\* The function returns the code `code', with the decoder at position p, the live
\* blocks h and those of the application a.
Return(code, p, h, a) ==
    /\ pc' = "idle"
    /\ head' = p
    /\ ret' = code
    /\ heap' = h
    /\ held' = a
    /\ Logged(code)
    /\ UNCHANGED <<decoder, call, len, size>>

Fail(code, p) == Return(code, p, heap, held) /\ UNCHANGED value

-----------------------------------------------------------------------------
(* dpack_load_str_tag() and dpack_load_bin_tag() *)

Loaded(n, p) ==
    /\ pc' = "length"
    /\ len' = n
    /\ head' = p
    /\ UNCHANGED <<decoder, call, ret, size, value, heap, held, log>>

\* Fault seeded in Mismatch: what is not of the expected type is left alone.
MismatchKept == Fail("ENOMSG", head + 1)

\* dpack_maybe_discard(), once the tag is read, then -ENOMSG
Mismatch ==
    LET whole == SkipItems(wire, head, 1) IN
    \/ ~disc /\ Fail("ENOMSG", head + 1)
    \/ disc /\ whole.ret = "OK" /\ Fail("ENOMSG", whole.head)
    \/ disc /\ whole.ret # "OK" /\ Fail(whole.ret, whole.head)

\* The length that follows the tag.
LoadCount ==
    \/ head + 2 \in DOMAIN wire /\ Loaded(wire[head + 2].n, head + 2)
    \/ head + 2 \notin DOMAIN wire /\ Fail("ENODATA", head + 1)

LoadStrTag ==
    /\ pc = "tag" /\ call.of = "str"
    /\ head + 1 \in DOMAIN wire
    /\ LET tag == wire[head + 1] IN
       \/ tag.kind = "fixstr" /\ Loaded(tag.n, head + 1)
       \/ tag.kind = "str" /\ LoadCount
       \/ tag.kind \notin {"fixstr", "str"} /\ Mismatch

LoadBinTag ==
    /\ pc = "tag" /\ call.of = "bin"
    /\ head + 1 \in DOMAIN wire
    /\ \/ wire[head + 1].kind = "bin" /\ LoadCount
       \/ wire[head + 1].kind # "bin" /\ Mismatch

NoTag ==
    /\ pc = "tag" /\ head + 1 \notin DOMAIN wire
    /\ Fail("ENODATA", head)

-----------------------------------------------------------------------------
(* The bounds: dpack_decode_str_tag(), dpack_xtract_str_equ(),               *)
(* dpack_xtract_str_max() and those of binaries.                            *)

InBounds == call.lo <= len /\ len <= call.hi

LengthAccepted ==
    /\ pc = "length" /\ InBounds
    /\ pc' = IF call.to = "caller" THEN "copy" ELSE "alloc"
    /\ UNCHANGED <<decoder, head, call, len, ret, size, value, heap, held, log>>

\* Fault seeded in MaybeSkip: what is left of the stream is not looked at.
MaybeSkipUnchecked(n, max) ==
    \/ n > max /\ Fail("ENOTSUP", head)
    \/ n <= max /\ Fail("EMSGSIZE", IF disc THEN head + n ELSE head)

\* dpack_maybe_skip()
MaybeSkip(n, max) ==
    \/ n > max /\ Fail("ENOTSUP", head)
    \/ n <= max /\ ~disc /\ Fail("EMSGSIZE", head)
    \/ n <= max /\ disc /\ head + n <= Len(wire) /\ Fail("EMSGSIZE", head + n)
    \/ n <= max /\ disc /\ head + n > Len(wire) /\ Fail("ENODATA", head)

LengthRefused ==
    /\ pc = "length" /\ ~InBounds
    /\ \/ len = 0 /\ Fail("EBADMSG", head)
       \/ len > 0 /\ MaybeSkip(len, MaxOf(call))

-----------------------------------------------------------------------------
(* dpack_xtract_strdup(), dpack_xtract_bindup(): a string has a terminator.  *)

Allocate ==
    /\ pc = "alloc"
    /\ heap' = heap \cup {Block}
    /\ size' = IF call.of = "str" THEN len + 1 ELSE len
    /\ pc' = "dup"
    /\ UNCHANGED <<decoder, head, call, len, ret, value, held, log>>

AllocationFails ==
    /\ pc = "alloc"
    /\ Fail("ENOMEM", head)

Null == 0
Payload == [i \in 1 .. len |-> wire[head + i].n]
Available == head + len <= Len(wire)
Clean == \A i \in 1 .. len : Payload[i] # Null

\* Fault seeded in DupShort: the copy of a string is lost as that of a binary is.
DupShortKept ==
    /\ pc = "dup" /\ ~Available
    /\ Return("ENODATA", head, heap, held)
    /\ UNCHANGED value

\* The data end early: a string is freed, a binary is not.
DupShort ==
    /\ pc = "dup" /\ ~Available
    /\ Return("ENODATA", head, IF call.of = "str" THEN heap \ {Block} ELSE heap, held)
    /\ UNCHANGED value

BindupDone ==
    /\ pc = "dup" /\ call.of = "bin" /\ Available
    /\ value' = Payload
    /\ Return("OK", head + len, heap, held \cup {Block})

StrdupDone ==
    /\ pc = "dup" /\ call.of = "str" /\ call.to = "block" /\ Available /\ Clean
    /\ value' = Append(Payload, Null)
    /\ Return("OK", head + len, heap, held \cup {Block})

\* memchr() finds a null character: the string is behind, and freed.
StrdupUnclean ==
    /\ pc = "dup" /\ call.of = "str" /\ Available /\ ~Clean
    /\ value' = Payload
    /\ Return("EBADMSG", head + len, heap \ {Block}, held)

\* A length-value string: dpack_decode_strdup_max() and the others return to the
\* function of lvstr.c, which hands the string over with stroll_lvstr_ncede().
StrdupReturns ==
    /\ pc = "dup" /\ call.to = "lvstr" /\ Available /\ Clean
    /\ value' = Append(Payload, Null)
    /\ head' = head + len
    /\ pc' = "cede"
    /\ UNCHANGED <<decoder, call, len, ret, size, heap, held, log>>

LvstrCeded ==
    /\ pc = "cede"
    /\ Return("OK", head, heap, held \cup {Block})
    /\ UNCHANGED value

-----------------------------------------------------------------------------
(* dpack_xtract_strcpy(), dpack_xtract_bincpy() *)

CopyShort ==
    /\ pc = "copy" /\ ~Available
    /\ Fail("ENODATA", head)

BincpyDone ==
    /\ pc = "copy" /\ call.of = "bin" /\ Available
    /\ value' = Payload
    /\ Return("OK", head + len, heap, held)

\* Fault seeded in StrcpyDone: null characters are not looked for.
StrcpyUnchecked ==
    /\ pc = "copy" /\ call.of = "str" /\ Available
    /\ value' = Append(Payload, Null)
    /\ Return("OK", head + len, heap, held)

StrcpyDone ==
    /\ pc = "copy" /\ call.of = "str" /\ Available /\ Clean
    /\ value' = Append(Payload, Null)
    /\ Return("OK", head + len, heap, held)

StrcpyUnclean ==
    /\ pc = "copy" /\ call.of = "str" /\ Available /\ ~Clean
    /\ value' = Payload
    /\ Return("EBADMSG", head + len, heap, held)

Extract ==
    \/ DupShort \/ BindupDone \/ StrdupDone \/ StrdupUnclean
    \/ StrdupReturns \/ LvstrCeded
    \/ CopyShort \/ BincpyDone \/ StrcpyDone \/ StrcpyUnclean

Next ==
    \/ \E c \in Calls : Begin(c)
    \/ LoadStrTag \/ LoadBinTag \/ NoTag
    \/ LengthAccepted \/ LengthRefused
    \/ Allocate \/ AllocationFails
    \/ Extract

Spec == Init /\ [][Next]_vars

-----------------------------------------------------------------------------
(* Properties *)

\* Every variable has its type, and the decoder stays within the stream.
TypeOK ==
    /\ wire \in Seq(Unit) /\ disc \in Modes
    /\ head \in 0 .. Len(wire)
    /\ pc \in {"idle", "tag", "length", "alloc", "dup", "cede", "copy"}
    /\ call \in Call
    /\ len \in Nat /\ size \in Nat
    /\ ret \in {"OK", "ENODATA", "ENOTSUP", "ENOMSG", "EBADMSG", "EMSGSIZE", "ENOMEM"}
    /\ value \in Seq(Nat)
    /\ held \subseteq heap /\ heap \subseteq 1 .. Len(log)
    /\ Len(log) <= MaxCalls

\* Neither the block allocated nor the memory of the caller is written past its end,
\* with the terminator of strings, whatever length the stream announces
\* (string.c:241,412, bin.c:199,349).
WrittenInside == Len(value) <= size

Last == log[Len(log)]
Ended == pc = "idle" /\ log # <<>>

\* A call that succeeds found a whole item of its type, of a length within its
\* bounds, and stored all of its payload, that of a string without any null
\* character but the terminator; the decoder is past the item.
DecodedIntact ==
    Ended /\ ret = "OK" =>
        LET w == Count(wire, Last.at)
            begin == Last.at + HeaderSize(wire, Last.at)
            str == [i \in 1 .. w |-> wire[begin + i].n]
        IN  /\ wire[Last.at + 1].kind \in (IF call.of = "str" THEN {"fixstr", "str"} ELSE {"bin"})
            /\ SkipItems(wire, Last.at, 1) = [head |-> head, ret |-> "OK"]
            /\ len = w /\ call.lo <= w /\ w <= call.hi
            /\ value = IF call.of = "str" THEN Append(str, Null) ELSE str
            /\ call.of = "str" => \A i \in 1 .. w : str[i] # Null

\* Between two calls the application holds the blocks of the calls that succeeded,
\* and every other block was freed, except that of a binary cut short (bin.c:199):
\* nothing else is lost, on any path of failure.
NothingElseLost ==
    pc = "idle" =>
        /\ held = { b \in DOMAIN log : log[b].call.to # "caller" /\ log[b].ret = "OK" }
        /\ \A b \in heap \ held : log[b].call.of = "bin" /\ log[b].ret = "ENODATA"

\* Between two calls of an application that may go on, the decoder is past exactly
\* as many items as there were calls, each decoded or, in discard mode, refused.
InStep ==
    pc = "idle" /\ (\A i \in DOMAIN log : log[i].ret \in Recoverable) =>
        SkipItems(wire, 0, Len(log)) = [head |-> head, ret |-> "OK"]
=============================================================================
