---------------------------- MODULE MCBufferCodec ----------------------------
(* Finite instances of BufferCodec for TLC. *)
EXTENDS BufferCodec

\* Writes of one and two bytes with every content, and one of SIZE_MAX bytes,
\* whose sum with any other cursor than 0 wraps around.
MCPayloads ==
    [1 .. 1 -> Byte] \cup [1 .. 2 -> Byte]
        \cup {[i \in 1 .. SizeMax |-> CHOOSE b \in Byte : TRUE]}

\* A byte, two, and the sizes that wrap around just below and just above SIZE_MAX.
MCSizes == {1, 2, SizeMax - 1, SizeMax}
=============================================================================
