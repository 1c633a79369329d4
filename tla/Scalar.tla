-------------------------------- MODULE Scalar --------------------------------
(***************************************************************************)
(* The scalar codecs of src/src/scalar.c: booleans, nil, the integers from *)
(* dpack_encode_uint8() and dpack_decode_uint8() to their int64 forms, the *)
(* floats and the doubles, and the _min, _max and _range decoding forms.   *)
(*                                                                         *)
(* The four widths of integers are the levels 1 to 4: level l is Width[l]  *)
(* bytes wide, and a byte has Base values (256 in the code, where the      *)
(* widths are 1, 2, 4 and 8 bytes).  The functions of a level handle the   *)
(* tags of that level and call those of the level below for the others.    *)
(*                                                                         *)
(* A float has the width of level 3 and a double that of level 4: the sign *)
(* and the exponent in the first byte, the mantissa in the others.  Reals  *)
(* are kept as integers in the same order, those of a double: a float is   *)
(* the double whose last bytes are zero.                                   *)
(*                                                                         *)
(* An application fills a buffer of Room bytes with at most MaxItems       *)
(* scalars and decodes it, or decodes a stream that comes from elsewhere.  *)
(***************************************************************************)
EXTENDS Integers, Sequences

CONSTANTS
    Base,       \* how many values a byte has
    Width,      \* the size in bytes of each level
    FirstTag,   \* DPACK_UINT8_TAG
    Room,       \* the size of the buffer
    MaxItems,   \* bound: how many scalars the application encodes
    Values,     \* the integers it encodes
    Reals,      \* the reals it encodes, as doubles
    Streams,    \* the streams that come from elsewhere
    Bounds,     \* the pairs <<low, high>> given to the _range forms of integers
    RealBounds  \* and those of reals

Byte == 0 .. Base - 1

ASSUME WidthAssumption ==
    /\ Width \in [1 .. 4 -> Nat \ {0}] /\ Width[1] = 1
    /\ \A l \in 1 .. 3 : Width[l] < Width[l + 1]
ASSUME BaseAssumption ==
    /\ Base \in Nat /\ Base % 8 = 0
    /\ FirstTag \in Base \div 2 + 6 .. Base - Base \div 8 - 8
ASSUME RoomAssumption == Room \in Nat
ASSUME StreamsAssumption == Streams \subseteq Seq(Byte) /\ Values \cup Reals \subseteq Int

\* The powers of Base, up to the number of values of the widest level.
Power[k \in 0 .. Width[4]] == IF k = 0 THEN 1 ELSE Base * Power[k - 1]

\* All but the sign bit of a double is its magnitude.
ASSUME RealsAssumption ==
    \A x \in Reals : -(Power[Width[4]] \div 2) < x /\ x < Power[Width[4]] \div 2

VARIABLES
    mode,       \* "encode" or "decode"
    disc,       \* decoder->disc
    buf,        \* the bytes encoded, or the stream to decode
    head,       \* how many of them are decoded
    ret,        \* the return code of the last call
    val,        \* what the last decoding function stored, unless it failed to decode
    call,       \* ghost: the type and the bounds of the last call, where it began
    items       \* ghost: what was encoded, and where each of them begins

scalarVars == <<mode, disc, buf, head, ret, val, call, items>>

-----------------------------------------------------------------------------
(* Types and tags *)

Uint == <<"uint8", "uint16", "uint32", "uint64">>
Sint == <<"int8", "int16", "int32", "int64">>
SignedTypes == { Sint[l] : l \in 1 .. 4 }
IntTypes == { Uint[l] : l \in 1 .. 4 } \cup SignedTypes
Type == IntTypes \cup {"float", "double", "bool", "nil"}

Tagged == IntTypes \cup {"float", "double"}

Level ==
    [type \in Tagged |->
        CASE type = "float" -> 3
          [] type = "double" -> 4
          [] OTHER -> CHOOSE l \in 1 .. 4 : type \in {Uint[l], Sint[l]}]
Size == [type \in Tagged |-> Width[Level[type]]]

\* (U)INT8_MIN to (U)INT64_MAX
RangeOf ==
    [type \in IntTypes |->
        LET all == Power[Size[type]] IN
        IF type \in SignedTypes THEN -(all \div 2) .. all \div 2 - 1 ELSE 0 .. all - 1]

Fixuint(tag) == tag < Base \div 2
Fixint(tag) == tag >= Base - Base \div 8

NilTag == FirstTag - 6
FalseTag == FirstTag - 4
TrueTag == FirstTag - 3

\* DPACK_FLOAT32_TAG, DPACK_FLOAT64_TAG, DPACK_UINT8_TAG .. DPACK_INT64_TAG
Tag ==
    [type \in Tagged |->
        FirstTag + CASE type \in {"float", "double"} -> Level[type] - 5
                     [] type \in SignedTypes -> Level[type] + 3
                     [] OTHER -> Level[type] - 1]
PayloadTags == { Tag[type] : type \in Tagged }
HasPayload(tag) == tag \in PayloadTags
TypeOfTag == [tag \in PayloadTags |-> CHOOSE type \in Tagged : Tag[type] = tag]

\* htobe16() .. htobe64(): the bytes of an integer, the most significant first,
\* in two's complement; be16toh() .. be64toh() and the conversion to a signed type.
Bytes(n, width) == [i \in 1 .. width |-> (n \div Power[width - i]) % Base]

Unsigned(s) ==
    LET Upto[i \in 0 .. Len(s)] == IF i = 0 THEN 0 ELSE Base * Upto[i - 1] + s[i]
    IN  Upto[Len(s)]

Signed(n, width) == IF n >= Power[width] \div 2 THEN n - Power[width] ELSE n

\* The reals: a sign and a magnitude.  What is above the infinite is not a number.
Finer(width) == Power[Width[4] - width]
RealBytes(x, width) ==
    Bytes(IF x < 0 THEN Power[width] \div 2 + (-x) \div Finer(width) ELSE x \div Finer(width),
          width)
Magnitude(s) == Unsigned(s) % (Power[Len(s)] \div 2)
RealOf(s) == Magnitude(s) * Finer(Len(s)) * (IF Unsigned(s) = Magnitude(s) THEN 1 ELSE -1)
IsNan(s) == Magnitude(s) > (Base \div 2 - 1) * Power[Len(s) - 1]

-----------------------------------------------------------------------------
(* Encoding: the writes a function makes, one or two. *)

TagAnd(type, bytes) == << <<Tag[type]>>, bytes >>
Wide(type, n) == TagAnd(type, Bytes(n, Size[type]))
Alone(byte) == << <<byte>> >>

EncodeBool(b) == Alone(IF b = 1 THEN TrueTag ELSE FalseTag)
EncodeNil == Alone(NilTag)

EncodeUint8(n) == IF n >= Base \div 2 THEN Wide("uint8", n) ELSE << Bytes(n, 1) >>
EncodeInt8(n) == IF n < -(Base \div 8) THEN Wide("int8", n) ELSE << Bytes(n, 1) >>

EncodeUint16(n) == IF n \in RangeOf["uint8"] THEN EncodeUint8(n) ELSE Wide("uint16", n)

\* Fault seeded in EncodeInt16: the range of the level below is that of uint8_t.
EncodeInt16Unsigned(n) ==
    IF n \in RangeOf["int8"] \cup RangeOf["uint8"] THEN EncodeInt8(n) ELSE Wide("int16", n)

EncodeInt16(n) == IF n \in RangeOf["int8"] THEN EncodeInt8(n) ELSE Wide("int16", n)
EncodeUint32(n) == IF n \in RangeOf["uint16"] THEN EncodeUint16(n) ELSE Wide("uint32", n)
EncodeInt32(n) == IF n \in RangeOf["int16"] THEN EncodeInt16(n) ELSE Wide("int32", n)
EncodeUint64(n) == IF n \in RangeOf["uint32"] THEN EncodeUint32(n) ELSE Wide("uint64", n)
EncodeInt64(n) == IF n \in RangeOf["int32"] THEN EncodeInt32(n) ELSE Wide("int64", n)

EncodeFloat(x) == TagAnd("float", RealBytes(x, Size["float"]))
EncodeDouble(x) == TagAnd("double", RealBytes(x, Size["double"]))

\* Fault seeded in RoomFor: the last byte past the end is accepted.
RoomForOneMore(used, data) == used + Len(data) <= Room + 1

\* dpack_encoder_write(), as far as its result goes
RoomFor(used, data) == used + Len(data) <= Room

\* Every write that has room is done, up to the first that has none.  After that
\* the encoder is in error, and not to be used (scalar.h:619-621).
Encode(n, writes) ==
    /\ mode = "encode" /\ ret = "OK" /\ Len(items) < MaxItems
    /\ LET whole == IF Len(writes) = 1 THEN writes[1] ELSE writes[1] \o writes[2] IN
       \/ /\ RoomFor(Len(buf), whole)
          /\ buf' = buf \o whole
          /\ items' = Append(items, [at |-> Len(buf), n |-> n])
          /\ UNCHANGED ret
       \/ /\ ~RoomFor(Len(buf), whole)
          /\ buf' = IF RoomFor(Len(buf), writes[1]) THEN buf \o writes[1] ELSE buf
          /\ ret' = "EMSGSIZE"
          /\ UNCHANGED items
    /\ UNCHANGED <<mode, disc, head, val, call>>

-----------------------------------------------------------------------------
(* Decoding.  An outcome is where the decoder ends up, the return code, and the *)
(* number stored, if any, as a sequence of one (0 for false and 1 for true).    *)

Nothing == <<>>
Outcome(p, code, n) == [head |-> p, ret |-> code, val |-> n]

\* dpack_decoder_read() and dpack_decoder_skip() of what follows position p
Holds(p, width) == p + width <= Len(buf)
BytesAt(p, width) == SubSeq(buf, p + 1, p + width)
ReadAt(p, width) == Unsigned(BytesAt(p, width))

\* dpack_maybe_discard(), for a tag that was read before position p: scalars only
\* are in the streams of this model.
Discarded(tag, p) ==
    LET width == IF HasPayload(tag) THEN Size[TypeOfTag[tag]] ELSE 0 IN
    IF ~disc \/ width = 0 THEN Outcome(p, "OK", Nothing)
    ELSE IF Holds(p, width) THEN Outcome(p + width, "OK", Nothing)
    ELSE Outcome(p, "ENODATA", Nothing)

\* Fault seeded in UnknownTag: what was not expected is not discarded.
UnknownTagKept(tag, p) == Outcome(p, "ENOMSG", Nothing)

\* A tag that the function does not know
UnknownTag(tag, p) ==
    LET d == Discarded(tag, p) IN
    Outcome(d.head, IF d.ret = "OK" THEN "ENOMSG" ELSE d.ret, Nothing)

\* Fault seeded in LoadOwn: the bytes are not put back in the order of the host.
LoadOwnSwapped(type, p) ==
    LET bytes == BytesAt(p, Size[type])
        n == Unsigned([i \in DOMAIN bytes |-> bytes[Len(bytes) + 1 - i]])
    IN  IF ~Holds(p, Size[type]) THEN Outcome(p, "ENODATA", Nothing)
        ELSE Outcome(p + Size[type], "OK",
                     << IF type \in SignedTypes THEN Signed(n, Size[type]) ELSE n >>)

\* The tag is the one of the type itself.
LoadOwn(type, p) ==
    LET n == ReadAt(p, Size[type]) IN
    IF ~Holds(p, Size[type]) THEN Outcome(p, "ENODATA", Nothing)
    ELSE Outcome(p + Size[type], "OK",
                 << IF type \in SignedTypes THEN Signed(n, Size[type]) ELSE n >>)

\* Fault seeded in LoadOther: the sign of the integer is not looked at.
LoadOtherUnchecked(type, p) ==
    IF ~Holds(p, Size[type]) THEN Outcome(p, "ENODATA", Nothing)
    ELSE Outcome(p + Size[type], "OK", << ReadAt(p, Size[type]) >>)

\* The tag is the one of the type of the other sign and the same size: the integer
\* must be in both.
LoadOther(type, p) ==
    LET n == ReadAt(p, Size[type]) IN
    IF ~Holds(p, Size[type]) THEN Outcome(p, "ENODATA", Nothing)
    ELSE IF Signed(n, Size[type]) >= 0 THEN Outcome(p + Size[type], "OK", <<n>>)
    ELSE Outcome(p + Size[type], "ENOMSG", Nothing)

\* A negative integer under DPACK_INT8_TAG is stored as it is, and the code 0 of the
\* read is returned.
LoadUint8(tag, p) ==
    CASE Fixuint(tag) -> Outcome(p, "OK", <<tag>>)
      [] tag \in {Tag["uint8"], Tag["int8"]} -> LoadOwn("uint8", p)
      [] Fixint(tag) -> Outcome(p, "ENOMSG", Nothing)
      [] OTHER -> UnknownTag(tag, p)

\* Every failure comes out as -ENOMSG, but the end of data under DPACK_INT8_TAG.
LoadInt8(tag, p) ==
    CASE Fixint(tag) -> Outcome(p, "OK", <<tag - Base>>)
      [] tag = Tag["int8"] -> LoadOwn("int8", p)
      [] Fixuint(tag) -> Outcome(p, "OK", <<tag>>)
      [] tag = Tag["uint8"] ->
            LET o == LoadOther("int8", p) IN
            IF o.ret = "OK" THEN o ELSE [o EXCEPT !.ret = "ENOMSG"]
      [] OTHER -> [UnknownTag(tag, p) EXCEPT !.ret = "ENOMSG"]

LoadUint16(tag, p) ==
    CASE tag = Tag["uint16"] -> LoadOwn("uint16", p)
      [] tag = Tag["int16"] -> LoadOther("uint16", p)
      [] OTHER -> LoadUint8(tag, p)
LoadInt16(tag, p) ==
    CASE tag = Tag["int16"] -> LoadOwn("int16", p)
      [] tag = Tag["uint16"] -> LoadOther("int16", p)
      [] OTHER -> LoadInt8(tag, p)
LoadUint32(tag, p) ==
    CASE tag = Tag["uint32"] -> LoadOwn("uint32", p)
      [] tag = Tag["int32"] -> LoadOther("uint32", p)
      [] OTHER -> LoadUint16(tag, p)
LoadInt32(tag, p) ==
    CASE tag = Tag["int32"] -> LoadOwn("int32", p)
      [] tag = Tag["uint32"] -> LoadOther("int32", p)
      [] OTHER -> LoadInt16(tag, p)
LoadUint64(tag, p) ==
    CASE tag = Tag["uint64"] -> LoadOwn("uint64", p)
      [] tag = Tag["int64"] -> LoadOther("uint64", p)
      [] OTHER -> LoadUint32(tag, p)
LoadInt64(tag, p) ==
    CASE tag = Tag["int64"] -> LoadOwn("int64", p)
      [] tag = Tag["uint64"] -> LoadOther("int64", p)
      [] OTHER -> LoadInt32(tag, p)

\* What is not a number is behind the decoder, and is not stored.
LoadReal(type, p) ==
    LET bytes == BytesAt(p, Size[type]) IN
    IF ~Holds(p, Size[type]) THEN Outcome(p, "ENODATA", Nothing)
    ELSE IF IsNan(bytes) THEN Outcome(p + Size[type], "EBADMSG", Nothing)
    ELSE Outcome(p + Size[type], "OK", << RealOf(bytes) >>)

LoadFloat(tag, p) == IF tag = Tag["float"] THEN LoadReal("float", p) ELSE UnknownTag(tag, p)
LoadDouble(tag, p) == IF tag = Tag["double"] THEN LoadReal("double", p) ELSE LoadFloat(tag, p)

LoadBool(tag, p) ==
    CASE tag = FalseTag -> Outcome(p, "OK", <<0>>)
      [] tag = TrueTag -> Outcome(p, "OK", <<1>>)
      [] OTHER -> UnknownTag(tag, p)

LoadNil(tag, p) == IF tag = NilTag THEN Outcome(p, "OK", Nothing) ELSE UnknownTag(tag, p)

\* The _min, _max and _range forms: the number is decoded, then compared.
InBounds(n, bounds) == bounds[1] <= n /\ n <= bounds[2]

\* After a failure the decoder is not to be used (scalar.h:195-197), unless it discards
\* what it refuses and there was enough of it: that is what the discard mode is for.
Usable == ret = "OK" \/ (disc /\ ret # "ENODATA")

\* The forms of a type: its tag is read, then what the tag stands for.
Decode(type, Load(_, _), bounds) ==
    /\ mode = "decode" /\ Usable
    /\ LET o == IF Holds(head, 1) THEN Load(buf[head + 1], head + 1)
                ELSE Outcome(head, "ENODATA", Nothing)
       IN  /\ head' = o.head
           /\ val' = o.val
           /\ ret' = IF o.ret = "OK" /\ o.val # Nothing /\ ~InBounds(o.val[1], bounds)
                     THEN "ERANGE" ELSE o.ret
    /\ call' = [type |-> type, bounds |-> bounds, at |-> head]
    /\ UNCHANGED <<mode, disc, buf, items>>

-----------------------------------------------------------------------------
NoCall == [type |-> "nil", bounds |-> <<0, -1>>, at |-> 0]

ScalarInit ==
    /\ disc \in BOOLEAN
    /\ \/ mode = "encode" /\ buf = <<>>
       \/ mode = "decode" /\ buf \in Streams
    /\ head = 0
    /\ ret = "OK"
    /\ val = Nothing
    /\ call = NoCall
    /\ items = <<>>

\* The application goes from encoding to decoding.
Turn ==
    /\ mode = "encode"
    /\ mode' = "decode"
    /\ ret' = "OK"
    /\ items' = <<>>
    /\ UNCHANGED <<disc, buf, head, val, call>>

\* dpack_decode_uint8() and the like accept every number of their type, the _min and
\* _max forms check one bound, the _range forms both.
Everything == <<-Power[Width[4]], Power[Width[4]]>>
Forms(bounds) == {bounds, <<bounds[1], Everything[2]>>, <<Everything[1], bounds[2]>>}
BoundsOf ==
    [type \in IntTypes |->
        {Everything}
            \cup UNION { Forms(b) : b \in { b \in Bounds : {b[1], b[2]} \subseteq RangeOf[type] } }]
RealBoundsOf == {Everything} \cup UNION { Forms(b) : b \in RealBounds }

\* The integers and the reals that the application has for a type.
ValuesOf(type) == Values \cap RangeOf[type]
FloatValues == { x \in Reals : x % Finer(Size["float"]) = 0 }

EncodeInteger ==
    \/ \E n \in ValuesOf("uint8") : Encode(n, EncodeUint8(n))
    \/ \E n \in ValuesOf("int8") : Encode(n, EncodeInt8(n))
    \/ \E n \in ValuesOf("uint16") : Encode(n, EncodeUint16(n))
    \/ \E n \in ValuesOf("int16") : Encode(n, EncodeInt16(n))
    \/ \E n \in ValuesOf("uint32") : Encode(n, EncodeUint32(n))
    \/ \E n \in ValuesOf("int32") : Encode(n, EncodeInt32(n))
    \/ \E n \in ValuesOf("uint64") : Encode(n, EncodeUint64(n))
    \/ \E n \in ValuesOf("int64") : Encode(n, EncodeInt64(n))

EncodeOther ==
    \/ \E b \in {0, 1} : Encode(b, EncodeBool(b))
    \/ Encode(0, EncodeNil)
    \/ \E x \in FloatValues : Encode(x, EncodeFloat(x))
    \/ \E x \in Reals : Encode(x, EncodeDouble(x))

DecodeUint8 == \E b \in BoundsOf["uint8"] : Decode("uint8", LoadUint8, b)
DecodeInt8 == \E b \in BoundsOf["int8"] : Decode("int8", LoadInt8, b)
DecodeUint16 == \E b \in BoundsOf["uint16"] : Decode("uint16", LoadUint16, b)
DecodeInt16 == \E b \in BoundsOf["int16"] : Decode("int16", LoadInt16, b)
DecodeUint32 == \E b \in BoundsOf["uint32"] : Decode("uint32", LoadUint32, b)
DecodeInt32 == \E b \in BoundsOf["int32"] : Decode("int32", LoadInt32, b)
DecodeUint64 == \E b \in BoundsOf["uint64"] : Decode("uint64", LoadUint64, b)
DecodeInt64 == \E b \in BoundsOf["int64"] : Decode("int64", LoadInt64, b)
DecodeFloat == \E b \in RealBoundsOf : Decode("float", LoadFloat, b)
DecodeDouble == \E b \in RealBoundsOf : Decode("double", LoadDouble, b)
DecodeBool == Decode("bool", LoadBool, Everything)
DecodeNil == Decode("nil", LoadNil, Everything)

ScalarNext ==
    \/ EncodeInteger \/ EncodeOther
    \/ Turn
    \/ DecodeUint8 \/ DecodeInt8 \/ DecodeUint16 \/ DecodeInt16
    \/ DecodeUint32 \/ DecodeInt32 \/ DecodeUint64 \/ DecodeInt64
    \/ DecodeFloat \/ DecodeDouble \/ DecodeBool \/ DecodeNil

ScalarSpec == ScalarInit /\ [][ScalarNext]_scalarVars

-----------------------------------------------------------------------------
(* The layout of scalars, whatever type they are decoded as *)

HeadAt(p) == buf[p + 1]
PayloadAt(p) == IF HasPayload(HeadAt(p)) THEN Size[TypeOfTag[HeadAt(p)]] ELSE 0
Whole(p) == p < Len(buf) /\ Holds(p + 1, PayloadAt(p))
EndOf(p) == p + 1 + PayloadAt(p)

IsReal(p) == HasPayload(HeadAt(p)) /\ TypeOfTag[HeadAt(p)] \notin IntTypes
IsNumber(p) == ~IsReal(p) \/ ~IsNan(BytesAt(p + 1, PayloadAt(p)))

\* The number that stands at position p, nil and the unused tag being worth 0.
Denoted(p) ==
    LET tag == HeadAt(p)
        n == ReadAt(p + 1, PayloadAt(p))
    IN  IF Fixuint(tag) THEN tag
        ELSE IF Fixint(tag) THEN tag - Base
        ELSE IF IsReal(p) THEN RealOf(BytesAt(p + 1, PayloadAt(p)))
        ELSE IF ~HasPayload(tag) THEN (IF tag = TrueTag THEN 1 ELSE 0)
        ELSE IF TypeOfTag[tag] \in SignedTypes THEN Signed(n, PayloadAt(p)) ELSE n

\* The types whose functions may decode what stands at position p.
Readable(type, p) ==
    LET tag == HeadAt(p) IN
    CASE type \in IntTypes ->
            /\ Fixuint(tag) \/ Fixint(tag) \/ (HasPayload(tag) /\ ~IsReal(p))
            /\ PayloadAt(p) <= Size[type]
            /\ Denoted(p) \in RangeOf[type]
      [] type = "float" -> tag = Tag["float"] /\ IsNumber(p)
      [] type = "double" -> IsReal(p) /\ IsNumber(p)
      [] type = "bool" -> tag \in {FalseTag, TrueTag}
      [] OTHER -> tag = NilTag

-----------------------------------------------------------------------------
(* Properties *)

\* Every variable has its type, and neither codec passes the end of its buffer.
ScalarTypeOK ==
    /\ mode \in {"encode", "decode"} /\ disc \in BOOLEAN
    /\ buf \in Seq(Byte) /\ (mode = "encode" => Len(buf) <= Room)
    /\ head \in 0 .. Len(buf)
    /\ ret \in {"OK", "EMSGSIZE", "ENODATA", "ENOMSG", "EBADMSG", "ERANGE"}
    /\ val \in Seq(Int) /\ Len(val) <= 1
    /\ call.type \in Type /\ call.at \in 0 .. head
    /\ items \in Seq([at : Nat, n : Int])

\* What the functions of every type encode stands in the buffer one item after
\* the other, each whole and standing for the number given; after a refused
\* number the items are still there, with at most the tag of the last one.
EncodedWhole ==
    mode = "encode" =>
        LET End(i) == IF i = 0 THEN 0 ELSE EndOf(items[i].at) IN
        /\ \A i \in DOMAIN items :
              /\ items[i].at = End(i - 1)
              /\ Whole(items[i].at)
              /\ Denoted(items[i].at) = items[i].n
        /\ Len(buf) - End(Len(items)) \in 0 .. (IF ret = "OK" THEN 0 ELSE 1)

\* The outcome of the last call, if it decoded what stands at position p.
DecodedAt(p) ==
    /\ val = (IF call.type = "nil" THEN Nothing ELSE <<Denoted(p)>>)
    /\ head = EndOf(p)
    /\ ret = IF InBounds(Denoted(p), call.bounds) THEN "OK" ELSE "ERANGE"

Decodable(p) == Whole(p) /\ Readable(call.type, p)
Called == mode = "decode" /\ call # NoCall

\* Every number that the type of a decoding function can hold is decoded, whichever
\* type of at most that size it was encoded as, and the bounds of the call decide
\* between success and -ERANGE.  The functions of the signed types only accept an
\* unsigned integer that fits the signed type of its own width (scalar.c:261-277).
InRangeDecoded ==
    /\ Called /\ Decodable(call.at)
    /\ call.type \in SignedTypes /\ HasPayload(HeadAt(call.at)) =>
          Denoted(call.at) \in RangeOf[Sint[Level[TypeOfTag[HeadAt(call.at)]]]]
    => DecodedAt(call.at)

\* A function that returns success stored the number that stands in the stream,
\* whole, and a NaN is never one.  This is about every function but those of the
\* unsigned types given a negative integer under DPACK_INT8_TAG: see
\* NothingOutOfRange.
NothingInvented ==
    /\ Called /\ ret = "OK"
    /\ call.type \notin { Uint[l] : l \in 1 .. 4 } \/ HeadAt(call.at) # Tag["int8"]
    => Decodable(call.at) /\ DecodedAt(call.at)

\* In discard mode, a scalar that is refused, for its type, its sign, its bounds or
\* because it is not a number, is behind the decoder all the same.
RefusedLeavesEnd == Called /\ disc /\ Whole(call.at) => head = EndOf(call.at)

\* Claimed by the documentation of the unsigned types (scalar.h): success means
\* that an integer of the type was decoded.
NothingOutOfRange ==
    Called /\ ret = "OK" /\ call.type \in IntTypes => Denoted(call.at) \in RangeOf[call.type]
=============================================================================
