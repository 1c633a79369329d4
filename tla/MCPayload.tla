------------------------------ MODULE MCPayload ------------------------------
(* Finite instances of Payload for TLC. *)
EXTENDS Payload

\* Read as counts or characters, these units stand for 0 to 4, the limits being 3
\* characters, 2 for length-value strings, and 2 bytes of a binary.
MCUnit ==
    { [kind |-> "atom",   n |-> 0],
      [kind |-> "atom",   n |-> 4],
      [kind |-> "scalar", n |-> 1],
      [kind |-> "fixstr", n |-> 0],
      [kind |-> "fixstr", n |-> 1],
      [kind |-> "fixstr", n |-> 2],
      [kind |-> "str",    n |-> 3],
      [kind |-> "bin",    n |-> 2],
      [kind |-> "fixarr", n |-> 1] }

All(n) == [1 .. n -> MCUnit]

\* The tails of the longest streams: a null character, and one that is not, which
\* is also a string by itself.
Chars == { [kind |-> "atom", n |-> 0], [kind |-> "fixstr", n |-> 1] }

\* Every stream of at most three units, and those of four to six that begin with the
\* tag and the length of a string or a binary.
MCStreams ==
    {<<>>} \cup UNION { All(n) : n \in 1 .. 3 }
        \cup UNION { { s \o t : s \in { s \in All(2) : s[1].kind \in {"str", "bin"} },
                                t \in [1 .. n -> Chars] } : n \in 2 .. 4 }
=============================================================================
