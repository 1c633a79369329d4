----------------------------- MODULE BufferCodec -----------------------------
(***************************************************************************)
(* The buffer codecs of src/src/buffer.c: the encoder and the decoder that *)
(* every other part of the library reads and writes through.               *)
(*                                                                         *)
(* One memory area serves, in turn, as the buffer of an encoder and as     *)
(* that of a decoder, the way the samples and the tests use it.  The       *)
(* cursors are the C code's unsigned `size_t' values: sums wrap around at  *)
(* SizeMax + 1, and __builtin_add_overflow() says when they did.           *)
(***************************************************************************)
EXTENDS Integers, Sequences

CONSTANTS
    Byte,       \* the values of a byte
    MemSize,    \* the size of the memory area
    SizeMax,    \* SIZE_MAX, the largest value of a size_t
    Payloads,   \* the byte sequences the layers above write
    Sizes       \* the sizes the layers above read and skip

\* A memory area is not empty and its size is a size_t.
ASSUME MemSizeAssumption ==
    /\ SizeMax \in Nat
    /\ MemSize \in 1 .. SizeMax

\* The write operation asserts that the size it is given is not zero, the
\* read and skip operations do too (buffer.c:58,139,162).
ASSUME RequestsAssumption ==
    /\ Payloads \subseteq Seq(Byte)
    /\ \A data \in Payloads : Len(data) \in 1 .. SizeMax
    /\ Sizes \subseteq 1 .. SizeMax

ASSUME ByteAssumption == Byte # {}

VARIABLES
    mode,       \* "idle", or the codec that is set up: "encode" or "decode"
    mem,        \* the memory area, addressed from 0
    tail,       \* encoder: index of the next byte to write
    ecapa,      \* encoder: capacity of its buffer
    head,       \* decoder: index of the next byte to read
    dcapa,      \* decoder: capacity of its buffer
    ret,        \* return code of the last call
    got         \* the bytes the last successful read stored

encoder == <<tail, ecapa>>
decoder == <<head, dcapa>>
vars == <<mode, mem, tail, ecapa, head, dcapa, ret, got>>

-----------------------------------------------------------------------------
(* size_t arithmetic *)

Wrap(n) == n % (SizeMax + 1)

AddOverflow(a, b) == a + b > SizeMax

\* Fault seeded in Fits: a request never fills a buffer to its last byte.
FitsStrictly(cursor, size, capa) ==
    /\ ~AddOverflow(cursor, size)
    /\ Wrap(cursor + size) < capa

\* The test common to the write, read and skip operations.
Fits(cursor, size, capa) ==
    /\ ~AddOverflow(cursor, size)
    /\ Wrap(cursor + size) <= capa

\* dpack_encoder_buffer_left() and dpack_decoder_buffer_left()
EncoderLeft == Wrap(ecapa - tail)
DecoderLeft == Wrap(dcapa - head)

-----------------------------------------------------------------------------
Init ==
    /\ mode = "idle"
    /\ mem \in [0 .. MemSize - 1 -> Byte]
    /\ tail = 0
    /\ ecapa \in 1 .. MemSize
    /\ head = 0
    /\ dcapa = 0
    /\ ret = "OK"
    /\ got = <<>>

\* Fault seeded in EncoderInit: the cursor of the previous encoder is kept.
EncoderInitKeepingTail(size) ==
    /\ mode = "idle"
    /\ mode' = "encode"
    /\ ecapa' = size
    /\ ret' = "OK"
    /\ UNCHANGED <<mem, tail, decoder, got>>

EncoderInit(size) ==
    /\ mode = "idle"
    /\ mode' = "encode"
    /\ tail' = 0
    /\ ecapa' = size
    /\ ret' = "OK"
    /\ UNCHANGED <<mem, decoder, got>>

\* memcpy(&mem[at], data, Len(data))
Store(at, data) ==
    [i \in 0 .. MemSize - 1 |->
        IF i \in at .. at + Len(data) - 1 THEN data[i - at + 1] ELSE mem[i]]

WriteAccepted(data) ==
    /\ mode = "encode"
    /\ Fits(tail, Len(data), ecapa)
    /\ mem' = Store(tail, data)
    /\ tail' = Wrap(tail + Len(data))
    /\ ret' = "OK"
    /\ UNCHANGED <<mode, ecapa, decoder, got>>

WriteRefused(data) ==
    /\ mode = "encode"
    /\ ~Fits(tail, Len(data), ecapa)
    /\ ret' = "EMSGSIZE"
    /\ UNCHANGED <<mode, mem, encoder, decoder, got>>

Write(data) == WriteAccepted(data) \/ WriteRefused(data)

EncoderFini ==
    /\ mode = "encode"
    /\ mode' = "idle"
    /\ ret' = "OK"
    /\ UNCHANGED <<mem, encoder, decoder, got>>

\* Fault seeded in DecoderInit: the cursor of the previous decoder is kept.
DecoderInitKeepingHead(size) ==
    /\ mode = "idle"
    /\ mode' = "decode"
    /\ dcapa' = size
    /\ ret' = "OK"
    /\ UNCHANGED <<mem, head, encoder, got>>

DecoderInit(size) ==
    /\ mode = "idle"
    /\ mode' = "decode"
    /\ head' = 0
    /\ dcapa' = size
    /\ ret' = "OK"
    /\ UNCHANGED <<mem, encoder, got>>

ReadAccepted(size) ==
    /\ mode = "decode"
    /\ Fits(head, size, dcapa)
    /\ got' = [i \in 1 .. size |-> mem[head + i - 1]]
    /\ head' = Wrap(head + size)
    /\ ret' = "OK"
    /\ UNCHANGED <<mode, mem, dcapa, encoder>>

\* Fault seeded in SkipAccepted: the cursor moves whatever is left.
SkipUnchecked(size) ==
    /\ mode = "decode"
    /\ head' = head + size
    /\ ret' = "OK"
    /\ UNCHANGED <<mode, mem, dcapa, encoder, got>>

SkipAccepted(size) ==
    /\ mode = "decode"
    /\ Fits(head, size, dcapa)
    /\ head' = Wrap(head + size)
    /\ ret' = "OK"
    /\ UNCHANGED <<mode, mem, dcapa, encoder, got>>

\* The read and the skip operation fail alike.
Exhausted(size) ==
    /\ mode = "decode"
    /\ ~Fits(head, size, dcapa)
    /\ ret' = "ENODATA"
    /\ UNCHANGED <<mode, mem, encoder, decoder, got>>

Read(size) == ReadAccepted(size) \/ Exhausted(size)
Skip(size) == SkipAccepted(size) \/ Exhausted(size)

DecoderFini ==
    /\ mode = "decode"
    /\ mode' = "idle"
    /\ ret' = "OK"
    /\ UNCHANGED <<mem, encoder, decoder, got>>

Next ==
    \/ \E size \in 1 .. MemSize : EncoderInit(size) \/ DecoderInit(size)
    \/ \E data \in Payloads : Write(data)
    \/ EncoderFini
    \/ \E size \in Sizes : Read(size) \/ Skip(size)
    \/ DecoderFini

Spec == Init /\ [][Next]_vars

-----------------------------------------------------------------------------
(* Properties *)

\* Every variable has its type; a size_t never leaves its range.
TypeOK ==
    /\ mode \in {"idle", "encode", "decode"}
    /\ mem \in [0 .. MemSize - 1 -> Byte]
    /\ tail \in 0 .. SizeMax
    /\ ecapa \in 1 .. MemSize
    /\ head \in 0 .. SizeMax
    /\ dcapa \in 0 .. MemSize
    /\ ret \in {"OK", "EMSGSIZE", "ENODATA"}
    /\ got \in Seq(Byte)

\* A cursor never passes the end of its buffer, whatever sizes are asked for:
\* what dpack_encoder_assert_buffer_api() and dpack_decoder_assert_buffer_api()
\* assert on entry of every operation (buffer.c:20,114).
CursorsInBounds == tail <= ecapa /\ head <= dcapa

AcceptsWhatIsLeft ==
    /\ \A data \in Payloads :
            Write(data) => (ret' = "OK" <=> Len(data) <= EncoderLeft)
    /\ \A size \in Sizes :
            Read(size) \/ Skip(size) => (ret' = "OK" <=> size <= DecoderLeft)

\* A caller that trusts dpack_encoder_space_left() or dpack_decoder_data_left()
\* is never surprised: a request is accepted exactly when its size is at most
\* what was left just before the call.
LeftIsExact == [][AcceptsWhatIsLeft]_vars

\* The first n bytes of the memory area, as a sequence.
Prefix(n) == [i \in 1 .. n |-> mem[i - 1]]

\* The buffer codecs implement the byte stream: what an encoder accepted is what
\* the memory holds, in order, and what a decoder set up over it reads.
Stream == INSTANCE ByteStream WITH
    log <- Prefix(tail),
    room <- ecapa,
    src <- IF mode = "decode" THEN Prefix(dcapa) ELSE <<>>,
    pos <- IF mode = "decode" THEN head ELSE 0

ImplementsByteStream == Stream!Spec
=============================================================================
