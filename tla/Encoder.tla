------------------------------- MODULE Encoder --------------------------------
(***************************************************************************)
(* Encoding of strings, binaries, arrays and maps: src/src/string.c,       *)
(* lvstr.c, bin.c, array.c and map.c, on an encoder that takes every write *)
(* whole or refuses it (src/src/buffer.c, see BufferCodec).                *)
(*                                                                         *)
(* A function makes one write after the other and returns at the first one *)
(* that is refused: nothing of what it wrote before is taken back.         *)
(*                                                                         *)
(* The application encodes one message, of any nesting.  It is a correct   *)
(* one: it encodes as many elements or fields as it announced, stops at    *)
(* the first error, and starts again with a new encoder.                   *)
(*                                                                         *)
(* What was written is kept as units of Wire, and its size in bytes apart, *)
(* since a count is one unit of 1, 2 or 4 bytes.                           *)
(***************************************************************************)
EXTENDS Wire

CONSTANTS
    FixStrMax,      \* _DPACK_FIXSTR_LEN_MAX
    Str8Max,        \* _DPACK_STR8_LEN_MAX
    Str16Max,       \* _DPACK_STR16_LEN_MAX
    LvMax,          \* DPACK_LVSTRLEN_MAX
    Bin8Max,        \* _DPACK_BIN8_SIZE_MAX
    Bin16Max,       \* _DPACK_BIN16_SIZE_MAX
    FixNrMax,       \* _DPACK_FIXARRAY_ELMNR_MAX, _DPACK_FIXMAP_FLDNR_MAX
    Nr16Max,        \* _DPACK_ARRAY16_ELMNR_MAX, _DPACK_MAP16_FLDNR_MAX
    IntWidth,       \* the sizes of the payload of integers, 0 for none and 8 for 64 bits
    IdWidth,        \* the same for the field identifiers
    FloatWidth,     \* sizeof(float)
    DoubleWidth,    \* sizeof(double)
    Capacity,       \* the sizes of buffers
    MaxDepth        \* bound: how deep the application nests collections

\* The limits of the build may be on either side of the thresholds between the formats: by
\* default strings, arrays and maps (4095, 1024 and 128) stay under the 16-bit ones, 65535,
\* and binaries (65536) go above.
ASSUME ThresholdsAssumption ==
    /\ FixStrMax \in 1 .. Str8Max /\ Str8Max \in 1 .. Str16Max /\ Str16Max \in Nat
    /\ LvMax \in 1 .. StrMax
    /\ Bin8Max \in 1 .. Bin16Max /\ Bin16Max \in Nat
    /\ FixNrMax \in 1 .. Nr16Max /\ Nr16Max \in Nat
    /\ 0 \in IdWidth /\ IdWidth \subseteq IntWidth /\ IntWidth \subseteq 0 .. 8
    /\ FloatWidth \in Nat \ {0} /\ DoubleWidth \in Nat \ {0}
    /\ Capacity \subseteq Nat \ {0} /\ MaxDepth \in Nat

VARIABLES
    capa,       \* the size of the buffer
    used,       \* dpack_encoder_space_used()
    buf,        \* what was written
    ret,        \* the return code of the last call
    frames,     \* ghost: the collections begun and not ended, the innermost last
    quote       \* ghost: the sizes announced for the last call, where it began

vars == <<capa, used, buf, ret, frames, quote>>

\* A collection of nr elements or fields, of which due are still to come; it began
\* at byte "start", its content at byte "data".
Frame == [kind : {"message", "array", "map"}, nr : Nat, due : Nat, start : Nat, data : Nat]
Quote == [from : Nat, min : Nat, max : Nat]

-----------------------------------------------------------------------------
(* Writes: some units, and how many bytes they are. *)

Chunk(units, size) == [units |-> units, size |-> size]
TagOf(kind, n) == Chunk(<< [kind |-> kind, n |-> n] >>, 1)
CountOf(n, width) == Chunk(<< [kind |-> "atom", n |-> n] >>, width)
PayloadOf(n) == Chunk([i \in 1 .. n |-> [kind |-> "atom", n |-> 0]], n)

Bytes(chunks) ==
    LET Upto[i \in 0 .. Len(chunks)] == IF i = 0 THEN 0 ELSE Upto[i - 1] + chunks[i].size
    IN  Upto[Len(chunks)]

Units(chunks) ==
    LET Upto[i \in 0 .. Len(chunks)] == IF i = 0 THEN <<>> ELSE Upto[i - 1] \o chunks[i].units
    IN  Upto[Len(chunks)]

\* Fault seeded in Fits: one byte past the end is accepted.
FitsAndOne(chunks) == used + Bytes(chunks) <= capa + 1

\* dpack_encoder_write(), made once for each of them
Fits(chunks) == used + Bytes(chunks) <= capa

\* The first write refused: all those before it are done.
Refused(chunks) ==
    CHOOSE i \in DOMAIN chunks :
        ~Fits(SubSeq(chunks, 1, i)) /\ Fits(SubSeq(chunks, 1, i - 1))

-----------------------------------------------------------------------------
(* What each function writes. *)

\* How wide the count of a string, of a binary and of a collection is; the tag of the
\* shortest strings and collections holds it.
StrWidth(len) ==
    IF len <= FixStrMax THEN 0 ELSE IF len <= Str8Max THEN 1 ELSE IF len <= Str16Max THEN 2 ELSE 4
BinWidth(size) == IF size <= Bin8Max THEN 1 ELSE IF size <= Bin16Max THEN 2 ELSE 4
NrWidth(nr) == IF nr <= FixNrMax THEN 0 ELSE IF nr <= Nr16Max THEN 2 ELSE 4

\* A tag and its payload, if any: the scalars
Scalar(width) ==
    IF width = 0 THEN << TagOf("atom", 0) >>
    ELSE << TagOf("scalar", width), PayloadOf(width) >>

\* Fault seeded in EncodeStrFix: there is no str16, the count of str8 is cut.
EncodeStrFixCut(len) ==
    (IF len <= FixStrMax THEN << TagOf("fixstr", len) >>
     ELSE << TagOf("str", 0), CountOf(len % (Str8Max + 1), 1) >>)
    \o << PayloadOf(len) >>

EncodeStrFix(len) ==
    (IF len <= FixStrMax THEN << TagOf("fixstr", len) >>
     ELSE << TagOf("str", 0), CountOf(len, StrWidth(len)) >>)
    \o << PayloadOf(len) >>

EncodeStr(len) == EncodeStrFix(len)
EncodeLvstr(len) == EncodeStrFix(len)

EncodeBin(size) ==
    << TagOf("bin", 0), CountOf(size, BinWidth(size)), PayloadOf(size) >>

\* Fault seeded in ArrayBegin: the number announced is that of the last index.
ArrayBeginShort(nr) ==
    IF nr <= FixNrMax THEN << TagOf("fixarr", nr) >>
    ELSE << TagOf("arr", 0), CountOf(nr - 1, NrWidth(nr)) >>

ArrayBegin(nr) ==
    IF nr <= FixNrMax THEN << TagOf("fixarr", nr) >>
    ELSE << TagOf("arr", 0), CountOf(nr, NrWidth(nr)) >>

MapBegin(nr) ==
    IF nr <= FixNrMax THEN << TagOf("fixmap", nr) >>
    ELSE << TagOf("map", 0), CountOf(nr, NrWidth(nr)) >>

\* dpack_map_encode_fldid(): an unsigned integer
FieldId(width) == Scalar(width)

\* A field of a map: its identifier, and its value if the identifier was accepted
Field(id, value) == FieldId(id) \o value

-----------------------------------------------------------------------------
(* The sizes announced. *)

\* DPACK_BOOL_SIZE, DPACK_NIL_SIZE, DPACK_FLOAT_SIZE, DPACK_DOUBLE_SIZE
ScalarSize(width) == 1 + width

StrSize(len) ==
    CASE len \in 1 .. FixStrMax -> 1 + len
      [] len \in FixStrMax + 1 .. Str8Max -> 2 + len
      [] len \in Str8Max + 1 .. Str16Max -> 3 + len
      [] len \in Str16Max + 1 .. StrMax -> 5 + len

\* DPACK_STR_CONST_SIZE
StrConstSize(len) ==
    len + (IF len > Str16Max THEN 5 ELSE IF len > Str8Max THEN 3 ELSE IF len > FixStrMax THEN 2 ELSE 1)

LvstrSize(len) == StrSize(len)
LvstrConstSize(len) == StrConstSize(len)

BinSize(size) ==
    CASE size \in 1 .. Bin8Max -> 2 + size
      [] size \in Bin8Max + 1 .. Bin16Max -> 3 + size
      [] size \in Bin16Max + 1 .. BinMax -> 5 + size

\* DPACK_BIN_CONST_SIZE
BinConstSize(size) == size + (IF size > Bin16Max THEN 5 ELSE IF size > Bin8Max THEN 3 ELSE 2)

\* dpack_array_mixed_size()
ArraySize(nr, data) == data + (IF nr <= FixNrMax THEN 1 ELSE IF nr <= Nr16Max THEN 3 ELSE 5)

\* Fault seeded in MapSize: the bound of fixmap is one too low.
MapSizeStrict(nr, data) == data + (IF nr < FixNrMax THEN 1 ELSE IF nr <= Nr16Max THEN 3 ELSE 5)

\* dpack_map_size()
MapSize(nr, data) == data + (IF nr <= FixNrMax THEN 1 ELSE IF nr <= Nr16Max THEN 3 ELSE 5)

\* DPACK_MAP_FLDID_SIZE_MIN, DPACK_MAP_FLDID_SIZE_MAX
FieldIdMin == ScalarSize(0)
FieldIdMax == ScalarSize(CHOOSE w \in IdWidth : \A v \in IdWidth : v <= w)

\* DPACK_UINT_SIZE_MIN, DPACK_UINT_SIZE_MAX and the like
IntMin == ScalarSize(0)
IntMax == ScalarSize(CHOOSE w \in IntWidth : \A v \in IntWidth : v <= w)

\* DPACK_ARRAY_HEAD_SIZE, DPACK_MAP_HEAD_SIZE
HeadSize(nr) == IF nr > Nr16Max THEN 5 ELSE IF nr > FixNrMax THEN 3 ELSE 1

-----------------------------------------------------------------------------
Top == frames[Len(frames)]
InMap == frames # <<>> /\ Top.kind = "map"
InItems == frames # <<>> /\ Top.kind # "map"

\* The application made one call more for the innermost collection.
Paid == [frames EXCEPT ![Len(frames)].due = @ - 1]

\* A call that makes these writes, was announced to take from min to max bytes, and
\* leaves the application in these frames.
Write(chunks, min, max, rest) ==
    /\ ret = "OK" /\ Top.due > 0
    /\ quote' = [from |-> used, min |-> min, max |-> max]
    /\ \/ /\ Fits(chunks)
          /\ used' = used + Bytes(chunks)
          /\ buf' = buf \o Units(chunks)
          /\ frames' = rest
          /\ UNCHANGED ret
       \/ /\ ~Fits(chunks)
          /\ LET done == SubSeq(chunks, 1, Refused(chunks) - 1) IN
             /\ used' = used + Bytes(done)
             /\ buf' = buf \o Units(done)
          /\ ret' = "EMSGSIZE"
          /\ UNCHANGED frames
    /\ UNCHANGED capa

\* A value: an element of an array, or the message itself.
Item(value, min, max) == InItems /\ Write(value, min, max, Paid)

\* A field of a map, whose value was announced to take from min to max bytes.
MapField(value, min, max) ==
    InMap /\ \E id \in IdWidth :
        Write(Field(id, value), FieldIdMin + min, FieldIdMax + max, Paid)

\* The frame of a collection that this call begins, after some bytes of its own.
Began(kind, nr, before, begin) ==
    Append(Paid, [kind |-> kind, nr |-> nr, due |-> nr, start |-> used + before,
                  data |-> used + before + Bytes(begin)])

NestedItem(kind, begin, nr) ==
    /\ InItems /\ Len(frames) <= MaxDepth
    /\ Write(begin, HeadSize(nr), HeadSize(nr), Began(kind, nr, 0, begin))

NestedField(kind, begin, nr) ==
    /\ InMap /\ Len(frames) <= MaxDepth
    /\ \E id \in IdWidth :
          Write(Field(id, begin), FieldIdMin + HeadSize(nr), FieldIdMax + HeadSize(nr),
                Began(kind, nr, Bytes(FieldId(id)), begin))

EncodeBoolOrNil == Item(Scalar(0), ScalarSize(0), ScalarSize(0))
EncodeInt == \E width \in IntWidth : Item(Scalar(width), IntMin, IntMax)
EncodeFloat == Item(Scalar(FloatWidth), ScalarSize(FloatWidth), ScalarSize(FloatWidth))
EncodeDouble == Item(Scalar(DoubleWidth), ScalarSize(DoubleWidth), ScalarSize(DoubleWidth))
EncodeStrItem == \E len \in 1 .. StrMax : Item(EncodeStr(len), StrSize(len), StrConstSize(len))
EncodeLvstrItem ==
    \E len \in 1 .. LvMax : Item(EncodeLvstr(len), LvstrSize(len), LvstrConstSize(len))
EncodeBinItem == \E size \in 1 .. BinMax : Item(EncodeBin(size), BinSize(size), BinConstSize(size))
ArrayBeginEncode == \E nr \in 1 .. ElmMax : NestedItem("array", ArrayBegin(nr), nr)
MapBeginEncode == \E nr \in 1 .. FldMax : NestedItem("map", MapBegin(nr), nr)

MapEncodeBool == MapField(Scalar(0), ScalarSize(0), ScalarSize(0))
MapEncodeInt == \E width \in IntWidth : MapField(Scalar(width), IntMin, IntMax)
MapEncodeFloat == MapField(Scalar(FloatWidth), ScalarSize(FloatWidth), ScalarSize(FloatWidth))
MapEncodeDouble ==
    MapField(Scalar(DoubleWidth), ScalarSize(DoubleWidth), ScalarSize(DoubleWidth))
MapEncodeStr == \E len \in 1 .. StrMax : MapField(EncodeStr(len), StrSize(len), StrConstSize(len))
MapEncodeStrFix ==
    \E len \in 1 .. StrMax : MapField(EncodeStrFix(len), StrSize(len), StrConstSize(len))
MapEncodeLvstr ==
    \E len \in 1 .. LvMax : MapField(EncodeLvstr(len), LvstrSize(len), LvstrConstSize(len))
MapEncodeBin == \E size \in 1 .. BinMax : MapField(EncodeBin(size), BinSize(size), BinConstSize(size))
MapEncodeNil == MapField(Scalar(0), ScalarSize(0), ScalarSize(0))
MapBeginEncodeNestMap == \E nr \in 1 .. FldMax : NestedField("map", MapBegin(nr), nr)
MapBeginEncodeNestArray == \E nr \in 1 .. ElmMax : NestedField("array", ArrayBegin(nr), nr)

\* dpack_array_end_encode(), dpack_map_end_encode(): nothing is written.
EndEncode ==
    /\ frames # <<>> /\ Top.due = 0 /\ Top.kind # "message" /\ ret = "OK"
    /\ frames' = SubSeq(frames, 1, Len(frames) - 1)
    /\ quote' = LET size == IF Top.kind = "map" THEN MapSize(Top.nr, used - Top.data)
                            ELSE ArraySize(Top.nr, used - Top.data)
                IN  [from |-> Top.start, min |-> size, max |-> size]
    /\ UNCHANGED <<capa, used, buf, ret>>

Message == << [kind |-> "message", nr |-> 1, due |-> 1, start |-> 0, data |-> 0] >>

Init ==
    /\ capa \in Capacity
    /\ used = 0 /\ buf = <<>> /\ ret = "OK"
    /\ frames = Message
    /\ quote = [from |-> 0, min |-> 0, max |-> 0]

\* dpack_encoder_fini() and dpack_encoder_init_buffer(), for the next message.
Restart ==
    /\ ret # "OK" \/ (Len(frames) = 1 /\ Top.due = 0)
    /\ capa' \in Capacity
    /\ used' = 0 /\ buf' = <<>> /\ ret' = "OK"
    /\ frames' = Message
    /\ quote' = [from |-> 0, min |-> 0, max |-> 0]

NextItem ==
    \/ EncodeBoolOrNil \/ EncodeInt \/ EncodeFloat \/ EncodeDouble
    \/ EncodeStrItem \/ EncodeLvstrItem \/ EncodeBinItem
    \/ ArrayBeginEncode \/ MapBeginEncode

NextField ==
    \/ MapEncodeBool \/ MapEncodeInt \/ MapEncodeFloat \/ MapEncodeDouble
    \/ MapEncodeStr \/ MapEncodeStrFix \/ MapEncodeLvstr \/ MapEncodeBin \/ MapEncodeNil
    \/ MapBeginEncodeNestMap \/ MapBeginEncodeNestArray

Next == NextItem \/ NextField \/ EndEncode \/ Restart

Spec == Init /\ [][Next]_vars

-----------------------------------------------------------------------------
(* Properties *)

\* The items that the collections begun still owe to a reader of the message.
Owed ==
    LET Upto[i \in 0 .. Len(frames)] ==
            IF i = 0 THEN 0
            ELSE Upto[i - 1] + frames[i].due * (IF frames[i].kind = "map" THEN 2 ELSE 1)
    IN  Upto[Len(frames)]

\* Every variable has its type, and the encoder never passes the end of its buffer.
TypeOK ==
    /\ capa \in Capacity /\ used \in 0 .. capa
    /\ buf \in Seq([kind : Kind, n : Nat])
    /\ ret \in {"OK", "EMSGSIZE"}
    /\ frames \in Seq(Frame) /\ Len(frames) \in 1 .. MaxDepth + 1
    /\ quote \in Quote

\* As long as no call failed, a decoder that skips the message (dpack_decoder_discard())
\* needs exactly the items that the application still has to encode, at every level of
\* nesting: whatever a call wrote, it is one element or one field.
ReadsBack ==
    ret = "OK" =>
        LET missing == [i \in 1 .. Owed |-> [kind |-> "atom", n |-> 0]] IN
        /\ SkipItems(buf \o missing, 0, 1) = [head |-> Len(buf) + Owed, ret |-> "OK"]
        /\ \/ Owed = 0 \/ SkipItems(buf, 0, 1).ret = "ENODATA"

\* A message cut short by a buffer too small, wherever the refused write was, is
\* never taken for a whole one.
CutIsNoticed == ret = "EMSGSIZE" => SkipItems(buf, 0, 1).ret = "ENODATA"

\* dpack_str_size(), dpack_lvstr_size(), dpack_bin_size(), dpack_array_mixed_size(),
\* dpack_map_size(), the macros that compute the same when compiling, and the SIZE_MIN
\* and SIZE_MAX macros of map.h tell the truth: a call takes what they announce, and is
\* only refused when less than that was left.
SizesAnnounced ==
    /\ IF ret = "OK" THEN used - quote.from \in quote.min .. quote.max
       ELSE quote.from + quote.max > capa
    /\ \A len \in 1 .. StrMax : StrSize(len) = StrConstSize(len)
    /\ \A size \in 1 .. BinMax : BinSize(size) = BinConstSize(size)
=============================================================================
