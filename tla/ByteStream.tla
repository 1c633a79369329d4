----------------------------- MODULE ByteStream ------------------------------
(***************************************************************************)
(* What a codec backed by a fixed buffer promises to the layers above it,  *)
(* whatever its cursors and the width of its integers:                     *)
(*                                                                         *)
(*   - an encoder is an append-only log of bounded size: a write is        *)
(*     accepted whole when it fits in the room that is left, and refused   *)
(*     whole otherwise;                                                    *)
(*   - a decoder is a reader of a fixed sequence of bytes: a read returns  *)
(*     the next bytes in order and a skip passes over them, or the call is *)
(*     refused and the reader stays where it is;                           *)
(*   - a decoder set up over the memory an encoder filled reads the log    *)
(*     back, followed by whatever the rest of the memory holds.            *)
(*                                                                         *)
(* BufferCodec implements this specification.                              *)
(***************************************************************************)
EXTENDS Naturals, Sequences

CONSTANTS
    Byte,       \* the values of a byte
    MemSize,    \* the size of the memory both codecs work on
    Payloads,   \* the byte sequences the layers above may write
    Sizes       \* the sizes the layers above may read or skip

VARIABLES
    mode,       \* "idle", or the codec that is set up: "encode" or "decode"
    log,        \* the bytes the last encoder accepted, in order
    room,       \* the size of the last encoder's buffer
    src,        \* the bytes the decoder is set up over, none without a decoder
    pos,        \* how many of them it has consumed
    ret,        \* the return code of the last call
    got         \* the bytes the last read returned

vars == <<mode, log, room, src, pos, ret, got>>

Init ==
    /\ mode = "idle"
    /\ log = <<>>
    /\ room \in 1 .. MemSize
    /\ src = <<>>
    /\ pos = 0
    /\ ret = "OK"
    /\ got = <<>>

OpenLog(size) ==
    /\ mode = "idle"
    /\ mode' = "encode"
    /\ log' = <<>>
    /\ room' = size
    /\ ret' = "OK"
    /\ UNCHANGED <<src, pos, got>>

Extend(data) ==
    /\ mode = "encode"
    /\ \/ /\ Len(log) + Len(data) <= room
          /\ log' = log \o data
          /\ ret' = "OK"
       \/ /\ Len(log) + Len(data) > room
          /\ ret' = "EMSGSIZE"
          /\ UNCHANGED log
    /\ UNCHANGED <<mode, room, src, pos, got>>

\* The bytes s agree with the log wherever both are defined.
Agrees(s) == \A i \in DOMAIN s : i <= Len(log) => s[i] = log[i]

OpenReader(size) ==
    /\ mode = "idle"
    /\ mode' = "decode"
    /\ \E s \in [1 .. size -> Byte] : Agrees(s) /\ src' = s
    /\ pos' = 0
    /\ ret' = "OK"
    /\ UNCHANGED <<log, room, got>>

Get(size) ==
    /\ mode = "decode"
    /\ \/ /\ pos + size <= Len(src)
          /\ got' = [i \in 1 .. size |-> src[pos + i]]
          /\ pos' = pos + size
          /\ ret' = "OK"
       \/ /\ pos + size > Len(src)
          /\ ret' = "ENODATA"
          /\ UNCHANGED <<pos, got>>
    /\ UNCHANGED <<mode, log, room, src>>

Pass(size) ==
    /\ mode = "decode"
    /\ \/ /\ pos + size <= Len(src)
          /\ pos' = pos + size
          /\ ret' = "OK"
       \/ /\ pos + size > Len(src)
          /\ ret' = "ENODATA"
          /\ UNCHANGED pos
    /\ UNCHANGED <<mode, log, room, src, got>>

Close ==
    /\ mode # "idle"
    /\ mode' = "idle"
    /\ src' = <<>>
    /\ pos' = 0
    /\ ret' = "OK"
    /\ UNCHANGED <<log, room, got>>

Next ==
    \/ \E size \in 1 .. MemSize : OpenLog(size) \/ OpenReader(size)
    \/ \E data \in Payloads : Extend(data)
    \/ \E size \in Sizes : Get(size) \/ Pass(size)
    \/ Close

Spec == Init /\ [][Next]_vars
=============================================================================
