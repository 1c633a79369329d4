------------------------------ MODULE MCDiscard ------------------------------
(* Finite instances of Discard for TLC: every stream over a small alphabet. *)
EXTENDS Discard

\* One unit of each kind at least; read as counts they stand for 0 to 3, the
\* limits being 2 elements, 1 field, 2 characters and 1 byte of a binary.
MCUnit ==
    { [kind |-> "atom",   n |-> 0],
      [kind |-> "scalar", n |-> 2],
      [kind |-> "fixstr", n |-> 1],
      [kind |-> "str",    n |-> 0],
      [kind |-> "bin",    n |-> 2],
      [kind |-> "fixarr", n |-> 2],
      [kind |-> "arr",    n |-> 1],
      [kind |-> "fixmap", n |-> 1],
      [kind |-> "map",    n |-> 2],
      [kind |-> "ext",    n |-> 3] }
=============================================================================
