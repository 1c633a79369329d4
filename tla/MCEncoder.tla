------------------------------ MODULE MCEncoder -------------------------------
(* Finite instances of Encoder for TLC.  The thresholds between the formats of  *)
(* the same kind are one apart, so that the buffer holds several items.         *)
EXTENDS Encoder

\* What the encoder may write as a tag.
MCUnit ==
    { [kind |-> k, n |-> n] : k \in {"fixstr", "fixarr", "fixmap"}, n \in 1 .. 1 }
        \cup { [kind |-> k, n |-> 0] : k \in {"atom", "str", "bin", "arr", "map"} }
        \cup { [kind |-> "scalar", n |-> n] : n \in 1 .. 4 }
=============================================================================
