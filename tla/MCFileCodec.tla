----------------------------- MODULE MCFileCodec -----------------------------
(* Finite instances of FileCodec for TLC, with pages of two bytes. *)
EXTENDS FileCodec

\* Words of four bits.

Bit(word, i) == (word \div 2^i) % 2

MCAnd(a, b) ==
    LET Of(i) == 2^i * Bit(a, i) * Bit(b, i) IN Of(0) + Of(1) + Of(2) + Of(3)
=============================================================================
