------------------------------- MODULE MCScalar -------------------------------
(* Finite instances of Scalar for TLC: bytes of six bits, so that the tags and  *)
(* the integers that are tags by themselves fit, and levels of 1 to 4 bytes.    *)
EXTENDS Scalar

MCWidth == <<1, 2, 3, 4>>

\* The integers around the bounds of every type and of what is a tag by itself.
Edges ==
    { 0, -8, 32, 64, -32, 4096, 2048, -2048, 64 ^ 3, 64 ^ 3 \div 2, -(64 ^ 3 \div 2) }
MCValues == UNION { {n - 1, n} : n \in Edges } \cup {64 ^ 4 - 1, -(64 ^ 4 \div 2)}

\* Zero, a few reals that are not floats and some that are, and the infinites.
Infinite == 31 * 64 ^ 3
MCReals == {0, 1, -1, 64, -(64 ^ 3), 64 ^ 3 + 64, Infinite - 1, Infinite, -Infinite}

\* Streams of one scalar, whole or cut short at every byte, and something after the
\* whole ones; the first digit is around the change of sign and what is not a number.
Payloads(n) == { d \in [1 .. n -> {0, 31, 32, 63}] : \A i \in 2 .. n : d[i] \in {0, 63} }
Scalars(t, n) == { <<Tag[t]>> \o d : d \in Payloads(n) }
Lone == {0, 1, 31, 56, 63, NilTag, NilTag + 1, FalseTag, TrueTag}
MCStreams ==
    UNION { UNION { Scalars(t, n) : n \in 0 .. Size[t] } : t \in Tagged }
        \cup UNION { { s \o <<1>> : s \in Scalars(t, Size[t]) } :
                       t \in {"uint8", "int8", "uint16", "int16"} }
        \cup { <<t>> : t \in Lone } \cup { <<t, 1>> : t \in Lone }

\* A range for all the types, one for the signed ones and one for the widest.
MCBounds == { <<1, 31>>, <<-31, 2400>>, <<32, 64 ^ 3 \div 2>> }
MCRealBounds == { <<-1, 64 ^ 3>> }
=============================================================================
