-------------------------------- MODULE Wire ---------------------------------
(***************************************************************************)
(* The MessagePack stream a decoder works on, as src/src/common.h and the  *)
(* decoding functions see it, and a reference definition of what one       *)
(* complete item is.                                                       *)
(*                                                                         *)
(* A stream is a sequence of units.  A unit stands for one tag byte, for   *)
(* one big endian count (of 1, 2 or 4 bytes) or for one byte of payload:   *)
(* which of these it is depends on where a decoder meets it, as on a real  *)
(* stream.  Read as a tag, a unit is of one of these kinds:                *)
(*                                                                         *)
(*   "atom"    fixuint, fixint, false, true, nil and the unused tag 0xc1:  *)
(*             nothing follows the tag                                     *)
(*   "scalar"  (u)int8 .. (u)int64, float32, float64: n payload units      *)
(*   "fixstr"  the length of the payload, n, is in the tag                 *)
(*   "str"     the other strings this build can handle, str8 and str16 by  *)
(*             default: the length is in a count                           *)
(*   "bin"     bin8, bin16, bin32: the same for a binary                   *)
(*   "fixarr"  the number of elements, n, is in the tag                    *)
(*   "arr"     array16, the same: the number of elements is in a count     *)
(*   "fixmap", "map"  the same for fields, each an identifier and a value  *)
(*   "ext"     the extensions, and what this build cannot handle: by       *)
(*             default str32, array32 and map32                            *)
(*                                                                         *)
(* Read as a count, a unit stands for the number n.                        *)
(***************************************************************************)
EXTENDS Integers, Sequences

CONSTANTS
    Unit,       \* the alphabet of the streams: records [kind, n]
    StrMax,     \* DPACK_STRLEN_MAX
    BinMax,     \* DPACK_BINSZ_MAX
    ElmMax,     \* DPACK_ARRAY_ELMNR_MAX
    FldMax      \* DPACK_MAP_FLDNR_MAX

Kind == {"atom", "scalar", "fixstr", "str", "bin", "fixarr", "arr", "fixmap", "map", "ext"}

ASSUME LimitsAssumption ==
    /\ StrMax \in Nat \ {0}
    /\ BinMax \in Nat \ {0}
    /\ ElmMax \in Nat \ {0}
    /\ FldMax \in Nat \ {0}

\* No scalar is without payload; a count embedded in a tag is never above the
\* limit the library puts on it (15 or 31 against 4095, 1024 and 128).
ASSUME UnitAssumption ==
    /\ Unit \subseteq [kind : Kind, n : Nat]
    /\ \A u \in Unit :
          /\ u.kind = "scalar" => u.n > 0
          /\ u.kind = "fixstr" => u.n <= StrMax
          /\ u.kind = "fixarr" => u.n <= ElmMax
          /\ u.kind = "fixmap" => u.n <= FldMax

-----------------------------------------------------------------------------
(* The layout of the item whose tag is unit p + 1 of stream w. *)

Counted(u) == u.kind \in {"str", "bin", "arr", "map"}

\* The tag and its count.
HeaderSize(w, p) == IF Counted(w[p + 1]) THEN 2 ELSE 1

\* The number the item announces: of payload units, elements or fields.
Count(w, p) == IF Counted(w[p + 1]) THEN w[p + 2].n ELSE w[p + 1].n

Supported(w, p) ==
    CASE w[p + 1].kind \in {"fixstr", "str"} -> Count(w, p) <= StrMax
      [] w[p + 1].kind = "bin" -> Count(w, p) <= BinMax
      [] w[p + 1].kind \in {"fixarr", "arr"} -> Count(w, p) <= ElmMax
      [] w[p + 1].kind \in {"fixmap", "map"} -> Count(w, p) <= FldMax
      [] w[p + 1].kind = "ext" -> FALSE
      [] OTHER -> TRUE

PayloadSize(w, p) ==
    IF w[p + 1].kind \in {"scalar", "fixstr", "str", "bin"} THEN Count(w, p) ELSE 0

\* How many items the item contains.
Children(w, p) ==
    CASE w[p + 1].kind \in {"fixarr", "arr"} -> Count(w, p)
      [] w[p + 1].kind \in {"fixmap", "map"} -> 2 * Count(w, p)
      [] OTHER -> 0

\* Where the tag of the item after it is, which is inside it if it contains some.
NextTag(w, p) == p + HeaderSize(w, p) + PayloadSize(w, p)

\* Skim(w)[q][need] is what discarding `need' items from position q of stream w comes
\* to: where the decoder stands in the end, and the return code.  The nesting is
\* flattened into the number of items that are still to come.
Skim(w) ==
    LET Rest[q \in 0 .. Len(w)] ==
        [ need \in Nat |->
            IF need = 0 THEN
                [head |-> q, ret |-> "OK"]
            ELSE IF q = Len(w) THEN
                [head |-> q, ret |-> "ENODATA"]
            ELSE IF q + HeaderSize(w, q) > Len(w) THEN
                [head |-> q + 1, ret |-> "ENODATA"]
            ELSE IF ~Supported(w, q) THEN
                [head |-> q + HeaderSize(w, q), ret |-> "ENOTSUP"]
            ELSE IF NextTag(w, q) > Len(w) THEN
                [head |-> q + HeaderSize(w, q), ret |-> "ENODATA"]
            ELSE
                Rest[NextTag(w, q)][need - 1 + Children(w, q)] ]
    IN  Rest

SkipItems(w, p, nr) == Skim(w)[p][nr]
=============================================================================
