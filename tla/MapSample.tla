------------------------------ MODULE MapSample -------------------------------
(***************************************************************************)
(* The map sample application: src/sample/map_sample.c, the program around *)
(* it (test-map_sample.c) and the files it saves and loads (test.c).       *)
(*                                                                         *)
(* One process fills a sample, packs it and saves it to a file; another    *)
(* one loads the file and unpacks it, field by field, under the control of *)
(* dpack_map_decode_range().  They share the file only: the first one      *)
(* writes it in place and may die at any time, the second one reads it in  *)
(* several steps, at any time, and the file may be someone else's.         *)
(*                                                                         *)
(* The value of a field is the class of values its checks tell apart:      *)
(* "low" and "high" stand for an ashort up to 50 and above, "bad" for a    *)
(* value of the right type that is refused, "alien" for another type,      *)
(* "cut" for a field whose end is missing and "null" for no string.        *)
(***************************************************************************)
EXTENDS Integers, Sequences, FiniteSets

CONSTANTS
    Foreign,    \* the files written by others
    Tails       \* what the fields of a message look like from some place in it on

Field == {"ashort", "astring", "abool", "anuint"}
Value == {"low", "high", "text", "true", "false", "num", "bad", "alien", "cut", "null"}

\* What a field is decoded from, and what its setter accepts
Decodes(f) ==
    CASE f = "ashort" -> {"low", "high", "bad"}
      [] f = "astring" -> {"text", "bad"}
      [] f = "abool" -> {"true", "false"}
      [] f = "anuint" -> {"num"}
Valid(f) == Decodes(f) \ {"bad"}

\* A sample: its bitmap of filled fields, the values of its fields, and who owns the
\* memory of astring.
Sample == [filled : SUBSET Field, slot : [Field -> Value], astr : {"none", "lent", "owned"}]

\* MAP_SAMPLE_INIT: numbers and booleans start as zero.
NewSample ==
    [filled |-> {}, astr |-> "none",
     slot |-> [ashort |-> "low", astring |-> "null", abool |-> "false", anuint |-> "num"]]

\* What is in a file, or was loaded from it: a map of nr fields, as many of them as there
\* are.  Ghost: the sample that was packed, if all of this comes from one save, and
\* a new one if it is someone else's or a mixture.
Record == [id : Field \cup {"other"}, value : Value]
File == [nr : Nat, fields : Seq(Record), of : Sample]
Empty == [nr |-> 0, fields |-> <<>>, of |-> NewSample]

ASSUME ForeignAssumption == Foreign \subseteq File /\ \A m \in Foreign : m.of = NewSample
ASSUME TailsAssumption == Tails \subseteq Seq(Record)

VARIABLES
    file,       \* the content of the file
    pack,       \* the packing process: [phase, buff]
    load,       \* load_from_file() of the unpacking process: [buff, stale], what fread()
                \* has read so far, Empty for nothing, and, ghost, whether the file was
                \* truncated since
    unpack      \* the rest of it: [phase, spl, heap, buff, next, ret], where heap counts
                \* the strings allocated and not freed

vars == <<file, pack, load, unpack>>

-----------------------------------------------------------------------------
(* map_sample.h, map_sample.c *)

\* enum map_sample_field
Index == [ashort |-> 0, astring |-> 1, abool |-> 2, anuint |-> 3]

\* MAP_SAMPLE_MAND_FLD_MSK is the union of the indices of ashort and abool, not of
\* their bits: 0 | 2, the bit of astring.
MandFldMsk == 2
Masked(f) == (MandFldMsk \div 2 ^ Index[f]) % 2 = 1

\* map_sample_check()
Check(spl) ==
    IF \E f \in Field : Masked(f) /\ f \notin spl.filled THEN "EPERM"
    ELSE IF "astring" \notin spl.filled /\ spl.slot["ashort"] # "high" THEN "EINVAL"
    ELSE "OK"

\* map_sample_fini() of a sample that only borrows its string
Fini(spl) == [spl EXCEPT !.astr = "none"]

\* Fault seeded in Packed: the optional fields are always packed.
PackedAll(spl) ==
    [nr |-> Cardinality(spl.filled),
     fields |-> [i \in 1 .. 4 |-> LET f == <<"ashort", "astring", "abool", "anuint">>[i]
                                  IN  [id |-> f, value |-> spl.slot[f]]],
     of |-> Fini(spl)]

\* map_sample_pack(): the mandatory fields are encoded whether they are filled or not,
\* with the zero they were initialised with if they are not, and only counted if they are.
Packed(spl) ==
    LET field(f) == << [id |-> f, value |-> spl.slot[f]] >>
        optional(f) == IF f \in spl.filled THEN field(f) ELSE <<>>
    IN  [nr |-> Cardinality(spl.filled),
         fields |-> field("ashort") \o optional("astring")
                      \o field("abool") \o optional("anuint"),
         of |-> Fini(spl)]

-----------------------------------------------------------------------------
(* The packing process *)

\* Whatever the setters (map_sample_set_*(), map_sample_lend_astring(),
\* map_sample_cede_astring()) make of a new sample: any fields, with values that pass
\* their checks.
IsSet(spl) ==
    /\ \A f \in Field : IF f \in spl.filled THEN spl.slot[f] \in Valid(f)
                       ELSE spl.slot[f] = NewSample.slot[f]
    /\ spl.astr = IF "astring" \in spl.filled THEN "lent" ELSE "none"

SetSamples ==
    { spl \in [filled : SUBSET Field,
               slot : [ashort : {"low", "high"}, astring : {"text", "null"},
                       abool : {"true", "false"}, anuint : {"num"}],
               astr : {"none", "lent"}] : IsSet(spl) }

\* pack_to_file(), as far as fopen(path, "w"): a sample is filled, which is asserted to
\* pass map_sample_check(), packed and released, and the file is truncated, whoever has
\* read a part of it.
PackBegin ==
    /\ pack.phase = "idle"
    /\ \E spl \in SetSamples :
          /\ Check(spl) = "OK"
          /\ pack' = [phase |-> "save", buff |-> Packed(spl)]
    /\ file' = Empty
    /\ load' = [load EXCEPT !.stale = load.buff # Empty]
    /\ UNCHANGED unpack

\* The beginning of a message: n whole fields, and perhaps the beginning of the next one.
Prefix(m, n, begun) ==
    [m EXCEPT !.fields =
        SubSeq(@, 1, n) \o IF begun THEN << [id |-> m.fields[n + 1].id, value |-> "cut"] >>
                           ELSE <<>>]

\* What can be there of a message of which s was there: as much, or more.
Extended(m, s) ==
    {m} \cup { Prefix(m, n, begun) : n \in Len(s.fields) .. Len(m.fields) - 1, begun \in BOOLEAN }

PackIdle == [phase |-> "idle", buff |-> Empty]

\* fwrite(): the file grows; when the disk is full, or the process dies, it stays so.
SavePart ==
    /\ pack.phase = "save" /\ Len(file.fields) < Len(pack.buff.fields)
    /\ file' \in Extended(pack.buff, file)
    /\ pack' \in {pack, PackIdle}
    /\ UNCHANGED <<load, unpack>>

\* The rest of fwrite(), and fclose()
SaveWhole ==
    /\ pack.phase = "save"
    /\ file' = pack.buff
    /\ pack' = PackIdle
    /\ UNCHANGED <<load, unpack>>

-----------------------------------------------------------------------------
(* load_from_file() *)

\* Whether some bytes that the map announces are missing
Incomplete(m) ==
    Len(m.fields) < m.nr \/ \E i \in DOMAIN m.fields : m.fields[i].value = "cut"

LoadIdle == [buff |-> Empty, stale |-> FALSE]

\* fread() calls read() once more: it gets some of the bytes that follow those it has.
LoadRead ==
    /\ unpack.phase = "idle" /\ ~load.stale /\ file # Empty
    /\ \E m \in Extended(file, load.buff) : load' = [load EXCEPT !.buff = m]
    /\ UNCHANGED <<file, pack, unpack>>

\* The size of what was loaded is tested, which never refuses two fields that are whole nor
\* accepts a map without fields.
Loaded(m) ==
    /\ \/ Cardinality({ i \in DOMAIN m.fields : m.fields[i].value # "cut" }) < 2
          /\ UNCHANGED unpack
       \/ /\ m.fields # <<>>
          /\ unpack' = [phase |-> "unpack", spl |-> NewSample, heap |-> 0, buff |-> m,
                        next |-> 1, ret |-> "OK"]
    /\ load' = LoadIdle
    /\ UNCHANGED <<file, pack>>

\* read() meets the end of the file, which may have been truncated, or an error: what was
\* loaded so far is all that there is.
LoadEnd ==
    /\ unpack.phase = "idle" /\ load.buff # Empty
    /\ Loaded(load.buff)

\* The fields of s, and whether the last one is cut
CutLast(s) == s # <<>> /\ s[Len(s)].value = "cut"
Uncut(s) == IF CutLast(s) THEN SubSeq(s, 1, Len(s) - 1) ELSE s

\* The field that is cut goes on with bytes of another message.
Mixed(m, tail) == [m EXCEPT !.fields = Uncut(@) \o tail, !.of = NewSample]

\* What read() gets, from here to the end, is of another message, which the file was
\* truncated for, and from wherever in it the first one was left.
LoadMixed ==
    /\ unpack.phase = "idle" /\ load.stale /\ file # Empty
    /\ \E tail \in Tails :
          /\ CutLast(load.buff.fields) /\ tail # <<>> =>
                tail[1].id = load.buff.fields[Len(load.buff.fields)].id
          /\ Loaded(Mixed(load.buff, tail))

-----------------------------------------------------------------------------
(* The unpacking process *)

Returns(code) == [unpack EXCEPT !.phase = "done", !.ret = code]

\* dpack_map_decode_range(): the number of fields is checked first.
UnpackRefused ==
    /\ unpack.phase = "unpack" /\ unpack.next = 1 /\ unpack.buff.nr \notin 2 .. 4
    /\ unpack' = Returns(IF unpack.buff.nr = 0 THEN "EBADMSG" ELSE "EMSGSIZE")
    /\ UNCHANGED <<file, pack, load>>

Unpacking ==
    /\ unpack.phase = "unpack" /\ unpack.buff.nr \in 2 .. 4
    /\ unpack.next <= unpack.buff.nr

\* The field that comes next, if it is there to the end
Here == unpack.next \in DOMAIN unpack.buff.fields /\ unpack.buff.fields[unpack.next].value # "cut"
Incoming == unpack.buff.fields[unpack.next]

\* Fault seeded in UnpackCut: the error of a field is ignored.
UnpackCutIgnored ==
    /\ Unpacking /\ ~Here
    /\ unpack' = [unpack EXCEPT !.next = @ + 1]
    /\ UNCHANGED <<file, pack, load>>

\* A failure of dpack_map_decode_fldid(), or of the decoding function of the field
UnpackCut ==
    /\ Unpacking /\ ~Here
    /\ unpack' = Returns("ENODATA")
    /\ UNCHANGED <<file, pack, load>>

\* Fault seeded in Unexpected: a field that came already is taken again.
UnexpectedAgain(id) == IF id \notin Field THEN "EBADMSG" ELSE "OK"

\* map_sample_unpack_field(), and the first test of the function of each field
Unexpected(id) ==
    IF id \notin Field THEN "EBADMSG" ELSE IF id \in unpack.spl.filled THEN "EEXIST" ELSE "OK"

UnpackFieldRefused ==
    /\ Unpacking /\ Here
    /\ \/ /\ Unexpected(Incoming.id) # "OK"
          /\ unpack' = Returns(Unexpected(Incoming.id))
       \/ /\ Unexpected(Incoming.id) = "OK" /\ Incoming.value \notin Decodes(Incoming.id)
          /\ unpack' = Returns("ENOMSG")
       \/ /\ Unexpected(Incoming.id) = "OK" /\ Incoming.id = "astring"
          /\ Incoming.value \in Decodes("astring")
          /\ unpack' = Returns("ENOMEM")
    /\ UNCHANGED <<file, pack, load>>

\* The function of field f decodes v into the sample; dpack_decode_lvstr() allocates.
WithField(f, v) ==
    LET u == [unpack EXCEPT !.spl.slot[f] = v] IN
    IF f = "astring" THEN [u EXCEPT !.spl.astr = "owned", !.heap = @ + 1] ELSE u

\* stroll_lvstr_drop(), stroll_lvstr_fini(): what astring owns is freed.
Dropped(u) ==
    IF u.spl.astr = "owned" THEN [u EXCEPT !.spl.astr = "none", !.heap = @ - 1] ELSE u

\* Fault seeded in Undone: the string that was refused is kept.
UndoneNever(id, u) == u

\* The string that was decoded is dropped when its check fails.
Undone(id, u) == IF id = "astring" THEN Dropped(u) ELSE u

\* The value was decoded into the sample, its check failed and its bit is not set.
UnpackFieldRejected ==
    /\ Unpacking /\ Here
    /\ Unexpected(Incoming.id) = "OK"
    /\ Incoming.value \in Decodes(Incoming.id) \ Valid(Incoming.id)
    /\ LET u == Undone(Incoming.id, WithField(Incoming.id, Incoming.value))
       IN  unpack' = [u EXCEPT !.phase = "done", !.ret = "EINVAL"]
    /\ UNCHANGED <<file, pack, load>>

UnpackFieldDone ==
    /\ Unpacking /\ Here
    /\ Unexpected(Incoming.id) = "OK"
    /\ Incoming.value \in Valid(Incoming.id)
    /\ unpack' = [WithField(Incoming.id, Incoming.value) EXCEPT
                    !.next = @ + 1, !.spl.filled = @ \cup {Incoming.id}]
    /\ UNCHANGED <<file, pack, load>>

UnpackChecked ==
    /\ unpack.phase = "unpack" /\ unpack.buff.nr \in 2 .. 4
    /\ unpack.next > unpack.buff.nr
    /\ unpack' = Returns(Check(unpack.spl))
    /\ UNCHANGED <<file, pack, load>>

Reset ==
    [phase |-> "idle", spl |-> NewSample, heap |-> 0, buff |-> Empty, next |-> 1, ret |-> "OK"]

\* unpack() of test-map_sample.c releases the sample whatever the outcome.
UnpackFini ==
    /\ unpack.phase = "done"
    /\ unpack' = [Dropped(unpack) EXCEPT !.phase = "fini"]
    /\ UNCHANGED <<file, pack, load>>

UnpackEnd ==
    /\ unpack.phase = "fini"
    /\ unpack' = Reset
    /\ UNCHANGED <<file, pack, load>>

-----------------------------------------------------------------------------
Init ==
    /\ file \in Foreign \cup {Empty}
    /\ pack = PackIdle
    /\ load = LoadIdle
    /\ unpack = Reset

Next ==
    \/ PackBegin \/ SavePart \/ SaveWhole
    \/ LoadRead \/ LoadEnd \/ LoadMixed
    \/ UnpackRefused \/ UnpackCut \/ UnpackFieldRefused \/ UnpackFieldRejected
    \/ UnpackFieldDone \/ UnpackChecked \/ UnpackFini \/ UnpackEnd

Spec == Init /\ [][Next]_vars

-----------------------------------------------------------------------------
(* Properties *)

\* Every variable has its type; unpacking never takes a field beyond what was loaded.
TypeOK ==
    /\ file \in File
    /\ pack.phase \in {"idle", "save"} /\ pack.buff \in File
    /\ load.buff \in File /\ load.stale \in BOOLEAN
    /\ unpack.phase \in {"idle", "unpack", "done", "fini"}
    /\ unpack.spl \in Sample /\ unpack.heap \in Int /\ unpack.buff \in File
    /\ unpack.next \in 1 .. Len(unpack.buff.fields) + 1
    /\ unpack.ret \in {"OK", "EBADMSG", "EMSGSIZE", "ENODATA", "EEXIST", "ENOMSG",
                       "ENOMEM", "EINVAL", "EPERM"}

Mandatory == {"ashort", "abool"}

\* What unpacking accepted: the sample that map_sample_unpack() returned.
Accepted == unpack.phase = "done" /\ unpack.ret = "OK"

\* Each field that is filled holds the value of the only field of the message with that
\* identifier, which passed its check; a sample that is accepted holds them all.
FilledFromMessage ==
    unpack.phase # "idle" =>
        LET read == { i \in 1 .. unpack.next - 1 : i \in DOMAIN unpack.buff.fields }
            of(f) == { i \in read : unpack.buff.fields[i].id = f }
        IN  /\ \A f \in unpack.spl.filled :
                  /\ Cardinality(of(f)) = 1
                  /\ \A i \in of(f) : unpack.buff.fields[i].value = unpack.spl.slot[f]
                  /\ unpack.spl.slot[f] \in Valid(f)
            /\ Accepted => Cardinality(unpack.spl.filled) = unpack.buff.nr

\* A sample that was packed with its mandatory fields, whatever became of the file before,
\* after or while it was loaded, is unpacked as it was, unless its end is missing, and then
\* it is refused; it is only refused for that or for want of memory.  Left out: what was
\* loaded from two saves, the second of which truncated the file between two read() of
\* fread() (test.c:39,119), is of no sample, and may be accepted.
UnpackedAsPacked ==
    LET of == unpack.buff.of IN
    unpack.phase = "done" /\ Mandatory \subseteq of.filled =>
        IF Incomplete(unpack.buff) THEN unpack.ret # "OK"
        ELSE \/ unpack.ret = "ENOMEM"
             \/ /\ unpack.ret = "OK"
                /\ unpack.spl.filled = of.filled /\ unpack.spl.slot = of.slot

\* The sample owns the only string that unpacking allocated and did not free, and it owns one
\* exactly as long as astring is filled: a string that is refused is freed on the spot and
\* never kept, and the sample that is released frees its own once, whether astring, another
\* field or none was refused.
StringFreed ==
    /\ unpack.heap = IF unpack.spl.astr = "owned" THEN 1 ELSE 0
    /\ unpack.phase \in {"idle", "fini"} => unpack.spl.astr = "none"
    /\ unpack.phase \in {"unpack", "done"} =>
          (unpack.spl.astr = "owned" <=> "astring" \in unpack.spl.filled)

\* Claimed by the comment of map_sample_check() (map_sample.c:214): all mandatory fields
\* of a sample that was accepted are set.
MandatoryFilled == Accepted => Mandatory \subseteq unpack.spl.filled
=============================================================================
