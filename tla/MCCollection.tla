----------------------------- MODULE MCCollection -----------------------------
(* Finite instances of Collection for TLC. *)
EXTENDS Collection

\* Read as counts, these units stand for 0 to 3, the limits being 2.
MCUnit ==
    { [kind |-> "atom",   n |-> 0],
      [kind |-> "scalar", n |-> 1],
      [kind |-> "fixarr", n |-> 2],
      [kind |-> "fixmap", n |-> 2],
      [kind |-> "arr",    n |-> 1],
      [kind |-> "map",    n |-> 3] }

AllStreams(len) == [1 .. len -> MCUnit]

\* The streams that begin with a collection of two.
PairsFirst(len) ==
    { s \in AllStreams(len) : s[1].kind \in {"fixarr", "fixmap"} }

MCStreams == { <<>> } \cup UNION { AllStreams(len) : len \in 1 .. 4 } \cup PairsFirst(5)

\* Streams for the claim the code does not keep: an array of two elements,
\* complete, with and without items behind it.
Atom == [kind |-> "atom", n |-> 0]
Atoms(n) == [i \in 1 .. n |-> Atom]
Pair(kind, n) == << [kind |-> kind, n |-> 2] >> \o Atoms(n)
ArrayStreams == { Pair("fixarr", 2), Pair("fixarr", 3), Pair("fixarr", 4) }
=============================================================================
