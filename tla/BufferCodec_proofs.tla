-------------------------- MODULE BufferCodec_proofs --------------------------
(***************************************************************************)
(* Theorems about BufferCodec, for every memory size, every width of       *)
(* size_t, every set of byte values and every set of requests.             *)
(***************************************************************************)
EXTENDS BufferCodec, SequenceTheorems, TLAPS

(* A size_t expression that stays in range does not wrap around. *)
LEMMA WrapInRange ==
    ASSUME NEW n \in 0 .. SizeMax
    PROVE  Wrap(n) = n
BY MemSizeAssumption DEF Wrap

LEMMA FitsMeansRoom ==
    ASSUME NEW cursor \in 0 .. SizeMax, NEW size \in 1 .. SizeMax,
           NEW capa \in 0 .. MemSize
    PROVE  /\ Fits(cursor, size, capa) <=> cursor + size <= capa
           /\ Fits(cursor, size, capa) => Wrap(cursor + size) = cursor + size
<1>1. CASE cursor + size <= SizeMax
  <2>1. Wrap(cursor + size) = cursor + size
    BY <1>1, WrapInRange, MemSizeAssumption
  <2> QED
    BY <1>1, <2>1, MemSizeAssumption DEF Fits, AddOverflow
<1>2. CASE cursor + size > SizeMax
  BY <1>2, MemSizeAssumption DEF Fits, AddOverflow
<1> QED
  BY <1>1, <1>2, MemSizeAssumption

-----------------------------------------------------------------------------
(* The inductive invariant.  Neither part is inductive alone: a cursor keeps *)
(* its type because it keeps below its capacity, and the comparison against  *)
(* the capacity only means something on a sum that did not wrap around.      *)

IInv == TypeOK /\ CursorsInBounds

LEMMA InitIInv == Init => IInv
<1> SUFFICES ASSUME Init PROVE IInv
  OBVIOUS
<1>1. 0 \in 0 .. SizeMax /\ 0 \in 0 .. MemSize
  BY MemSizeAssumption
<1>2. <<>> \in Seq(Byte)
  BY EmptySeq
<1> QED
  BY <1>1, <1>2 DEF Init, IInv, TypeOK, CursorsInBounds

LEMMA StoreType ==
    ASSUME NEW at \in Nat, NEW data \in Seq(Byte), mem \in [0 .. MemSize - 1 -> Byte]
    PROVE  Store(at, data) \in [0 .. MemSize - 1 -> Byte]
<1> SUFFICES ASSUME NEW i \in 0 .. MemSize - 1
             PROVE  (IF i \in at .. at + Len(data) - 1 THEN data[i - at + 1]
                                                       ELSE mem[i]) \in Byte
  BY DEF Store
<1>1. CASE i \in at .. at + Len(data) - 1
  <2>1. Len(data) \in Nat
    BY LenProperties
  <2>2. i - at + 1 \in 1 .. Len(data)
    BY <1>1, <2>1, MemSizeAssumption
  <2> QED
    BY <1>1, <2>2, ElementOfSeq
<1>2. CASE i \notin at .. at + Len(data) - 1
  BY <1>2
<1> QED
  BY <1>1, <1>2

LEMMA NextIInv == IInv /\ [Next]_vars => IInv'
<1> SUFFICES ASSUME IInv, [Next]_vars PROVE IInv'
  OBVIOUS
<1> USE DEF IInv, TypeOK, CursorsInBounds
<1>0. /\ tail \in Nat /\ ecapa \in Nat /\ head \in Nat /\ dcapa \in Nat
      /\ 0 \in 0 .. SizeMax
      /\ 0 .. MemSize \subseteq 0 .. SizeMax
  BY MemSizeAssumption
<1>1. ASSUME NEW size \in 1 .. MemSize, EncoderInit(size) PROVE IInv'
  BY <1>0, <1>1 DEF EncoderInit, decoder
<1>2. ASSUME NEW size \in 1 .. MemSize, DecoderInit(size) PROVE IInv'
  BY <1>0, <1>2, MemSizeAssumption DEF DecoderInit, encoder
<1>3. ASSUME NEW data \in Payloads, WriteAccepted(data) PROVE IInv'
  <2>1. data \in Seq(Byte) /\ Len(data) \in 1 .. SizeMax
    BY RequestsAssumption
  <2>2. tail' = tail + Len(data) /\ tail + Len(data) <= ecapa
    BY <1>3, <2>1, FitsMeansRoom, MemSizeAssumption DEF WriteAccepted
  <2>3. tail' \in 0 .. SizeMax
    BY <1>0, <2>1, <2>2, MemSizeAssumption
  <2>4. mem' \in [0 .. MemSize - 1 -> Byte]
    BY <1>0, <1>3, <2>1, StoreType DEF WriteAccepted
  <2> QED
    BY <1>3, <2>2, <2>3, <2>4 DEF WriteAccepted, decoder
<1>4. ASSUME NEW data \in Payloads, WriteRefused(data) PROVE IInv'
  BY <1>4 DEF WriteRefused, encoder, decoder
<1>5. CASE EncoderFini
  BY <1>5 DEF EncoderFini, encoder, decoder
<1>6. ASSUME NEW size \in Sizes, ReadAccepted(size) PROVE IInv'
  <2>1. size \in 1 .. SizeMax
    BY RequestsAssumption
  <2>2. head' = head + size /\ head + size <= dcapa
    BY <1>6, <2>1, FitsMeansRoom DEF ReadAccepted
  <2>3. head' \in 0 .. SizeMax
    BY <1>0, <2>1, <2>2, MemSizeAssumption
  <2>4. got' \in Seq(Byte)
    <3>1. ASSUME NEW i \in 1 .. size PROVE mem[head + i - 1] \in Byte
      <4>1. head + i - 1 \in 0 .. MemSize - 1
        BY <1>0, <2>1, <2>2, MemSizeAssumption
      <4> QED
        BY <4>1
    <3>2. [i \in 1 .. size |-> mem[head + i - 1]] \in Seq(Byte)
      BY <2>1, <3>1, IsASeq, MemSizeAssumption
    <3> QED
      BY <1>6, <3>2 DEF ReadAccepted
  <2> QED
    BY <1>6, <2>2, <2>3, <2>4 DEF ReadAccepted, encoder
<1>7. ASSUME NEW size \in Sizes, SkipAccepted(size) PROVE IInv'
  <2>1. size \in 1 .. SizeMax
    BY RequestsAssumption
  <2>2. head' = head + size /\ head + size <= dcapa
    BY <1>7, <2>1, FitsMeansRoom DEF SkipAccepted
  <2>3. head' \in 0 .. SizeMax
    BY <1>0, <2>1, <2>2, MemSizeAssumption
  <2> QED
    BY <1>7, <2>2, <2>3 DEF SkipAccepted, encoder
<1>8. ASSUME NEW size \in Sizes, Exhausted(size) PROVE IInv'
  BY <1>8 DEF Exhausted, encoder, decoder
<1>9. CASE DecoderFini
  BY <1>9 DEF DecoderFini, encoder, decoder
<1>10. CASE UNCHANGED vars
  BY <1>10 DEF vars
<1> QED
  BY <1>1, <1>2, <1>3, <1>4, <1>5, <1>6, <1>7, <1>8, <1>9, <1>10
     DEF Next, Write, Read, Skip

(* Every reachable state of the codecs satisfies the inductive invariant. *)
THEOREM Invariance == Spec => []IInv
BY InitIInv, NextIInv, PTL DEF Spec

(* Every variable of the buffer codecs keeps its type (buffer.c). *)
THEOREM TypeCorrect == Spec => []TypeOK
<1>1. IInv => TypeOK
  BY DEF IInv
<1> QED
  BY <1>1, Invariance, PTL

(* No cursor ever passes the capacity of its buffer, whatever the sizes that *)
(* are asked for and however wide size_t is (buffer.c:64,145,168).           *)
THEOREM NoOverrun == Spec => []CursorsInBounds
<1>1. IInv => CursorsInBounds
  BY DEF IInv
<1> QED
  BY <1>1, Invariance, PTL

-----------------------------------------------------------------------------
(* The room and the data left, as the callers are told. *)

LEMMA LeftInRange ==
    ASSUME IInv
    PROVE  EncoderLeft = ecapa - tail /\ DecoderLeft = dcapa - head
<1>1. ecapa - tail \in 0 .. SizeMax /\ dcapa - head \in 0 .. SizeMax
  BY MemSizeAssumption DEF IInv, TypeOK, CursorsInBounds
<1> QED
  BY <1>1, WrapInRange DEF EncoderLeft, DecoderLeft

(* A request is accepted exactly when it is no larger than what was announced *)
(* by dpack_encoder_buffer_left() or dpack_decoder_buffer_left() just before. *)
THEOREM LeftExact == Spec => LeftIsExact
<1>1. ASSUME IInv, NEW data \in Payloads, Write(data)
      PROVE  ret' = "OK" <=> Len(data) <= EncoderLeft
  <2>1. Len(data) \in 1 .. SizeMax
    BY RequestsAssumption
  <2>2. Fits(tail, Len(data), ecapa) <=> Len(data) <= EncoderLeft
    <3>1. Fits(tail, Len(data), ecapa) <=> tail + Len(data) <= ecapa
      BY <1>1, <2>1, FitsMeansRoom, MemSizeAssumption DEF IInv, TypeOK
    <3> QED
      BY <1>1, <2>1, <3>1, LeftInRange, MemSizeAssumption DEF IInv, TypeOK
  <2> QED
    BY <1>1, <2>2 DEF Write, WriteAccepted, WriteRefused
<1>2. ASSUME IInv, NEW size \in Sizes, Read(size) \/ Skip(size)
      PROVE  ret' = "OK" <=> size <= DecoderLeft
  <2>1. size \in 1 .. SizeMax
    BY RequestsAssumption
  <2>2. Fits(head, size, dcapa) <=> size <= DecoderLeft
    <3>1. Fits(head, size, dcapa) <=> head + size <= dcapa
      BY <1>2, <2>1, FitsMeansRoom DEF IInv, TypeOK
    <3> QED
      BY <1>2, <2>1, <3>1, LeftInRange, MemSizeAssumption DEF IInv, TypeOK
  <2> QED
    BY <1>2, <2>2 DEF Read, Skip, ReadAccepted, SkipAccepted, Exhausted
<1>3. IInv => AcceptsWhatIsLeft
  BY <1>1, <1>2 DEF AcceptsWhatIsLeft
<1> QED
  BY <1>3, Invariance, PTL DEF LeftIsExact

-----------------------------------------------------------------------------
(* The refinement: what the memory holds below a cursor is the stream. *)

LEMMA PrefixIsSeq ==
    ASSUME NEW n \in 0 .. MemSize, mem \in [0 .. MemSize - 1 -> Byte]
    PROVE  /\ Prefix(n) \in Seq(Byte)
           /\ Prefix(n) \in [1 .. n -> Byte]
           /\ Len(Prefix(n)) = n
           /\ DOMAIN Prefix(n) = 1 .. n
           /\ \A i \in 1 .. n : Prefix(n)[i] = mem[i - 1]
<1>1. n \in Nat /\ \A i \in 1 .. n : mem[i - 1] \in Byte
  BY MemSizeAssumption
<1>2. Prefix(n) \in [1 .. n -> Byte]
  BY <1>1 DEF Prefix
<1>3. Prefix(n) \in Seq(Byte)
  BY <1>1, <1>2, SeqDef
<1> QED
  BY <1>1, <1>2, <1>3, LenProperties DEF Prefix

LEMMA PrefixZero == Prefix(0) = <<>>
BY DEF Prefix

LEMMA PrefixIsSeqNext ==
    ASSUME NEW n \in 0 .. MemSize, mem' \in [0 .. MemSize - 1 -> Byte]
    PROVE  /\ [i \in 1 .. n |-> mem'[i - 1]] \in Seq(Byte)
           /\ Len([i \in 1 .. n |-> mem'[i - 1]]) = n
<1> DEFINE p == [i \in 1 .. n |-> mem'[i - 1]]
<1>1. n \in Nat /\ \A i \in 1 .. n : mem'[i - 1] \in Byte
  BY MemSizeAssumption
<1>2. p \in [1 .. n -> Byte]
  BY <1>1
<1>3. p \in Seq(Byte)
  BY <1>1, <1>2, SeqDef
<1> QED
  BY <1>1, <1>2, <1>3, LenProperties

(* Storing the bytes of a write after the log appends them to it. *)
LEMMA StoreAppends ==
    ASSUME IInv, NEW data \in Payloads, tail + Len(data) <= ecapa,
           mem' = Store(tail, data), tail' = tail + Len(data)
    PROVE  Prefix(tail)' = Prefix(tail) \o data
<1>1. /\ data \in Seq(Byte)
      /\ Len(data) \in Nat
      /\ tail \in Nat
      /\ tail \in 0 .. MemSize
      /\ tail + Len(data) \in 0 .. MemSize
  BY RequestsAssumption, MemSizeAssumption DEF IInv, TypeOK, CursorsInBounds
<1>2. mem' \in [0 .. MemSize - 1 -> Byte]
  BY <1>1, StoreType DEF IInv, TypeOK
<1> DEFINE new == [i \in 1 .. tail + Len(data) |-> mem'[i - 1]]
<1>3. Prefix(tail)' = new
  BY DEF Prefix
<1>4. new \in Seq(Byte) /\ Len(new) = tail + Len(data)
  BY <1>1, <1>2, PrefixIsSeqNext
<1> DEFINE old == Prefix(tail)
<1>5. /\ old \in Seq(Byte)
      /\ Len(old) = tail
      /\ \A i \in 1 .. tail : old[i] = mem[i - 1]
  BY <1>1, PrefixIsSeq DEF IInv, TypeOK
<1> HIDE DEF old, new
<1>6. /\ old \o data \in Seq(Byte)
      /\ Len(old \o data) = tail + Len(data)
      /\ \A i \in 1 .. tail + Len(data) :
            (old \o data)[i] = IF i <= tail THEN old[i] ELSE data[i - tail]
  <2>1. /\ old \o data \in Seq(Byte)
        /\ Len(old \o data) = Len(old) + Len(data)
        /\ \A i \in 1 .. Len(old) + Len(data) :
              (old \o data)[i] = IF i <= Len(old) THEN old[i] ELSE data[i - Len(old)]
    BY <1>1, <1>5, ConcatProperties, Zenon
  <2> QED
    BY <1>5, <2>1
<1>7. ASSUME NEW i \in 1 .. tail + Len(data) PROVE new[i] = (old \o data)[i]
  <2>1. i - 1 \in 0 .. MemSize - 1 /\ new[i] = mem'[i - 1]
    BY <1>1, MemSizeAssumption DEF new
  <2>2. CASE i <= tail
    <3>1. i \in 1 .. tail /\ i - 1 \notin tail .. tail + Len(data) - 1
      BY <1>1, <2>2
    <3>2. mem'[i - 1] = mem[i - 1]
      BY <2>1, <3>1 DEF Store
    <3>3. old[i] = mem[i - 1]
      BY <1>5, <3>1
    <3> QED
      BY <1>6, <2>1, <2>2, <3>2, <3>3
  <2>3. CASE i > tail
    <3>1. i - 1 \in tail .. tail + Len(data) - 1 /\ (i - 1) - tail + 1 = i - tail
      BY <1>1, <2>3
    <3>2. mem'[i - 1] = data[i - tail]
      BY <2>1, <3>1 DEF Store
    <3> QED
      BY <1>1, <1>6, <2>1, <2>3, <3>2
  <2>4. i <= tail \/ i > tail
    BY <1>1
  <2> QED
    BY <2>2, <2>3, <2>4
<1>8. new = old \o data
  BY <1>4, <1>6, <1>7, SeqEqual
<1> QED
  BY <1>3, <1>8 DEF old

LEMMA InitStream == Init => Stream!Init
<1> SUFFICES ASSUME Init PROVE Stream!Init
  OBVIOUS
<1>1. Prefix(tail) = <<>>
  BY PrefixZero DEF Init
<1> QED
  BY <1>1 DEF Init, Stream!Init

LEMMA NextStream == IInv /\ [Next]_vars => [Stream!Next]_(Stream!vars)
<1> SUFFICES ASSUME IInv, [Next]_vars
             PROVE  Stream!Next \/ UNCHANGED Stream!vars
  OBVIOUS
<1>0. /\ tail \in 0 .. MemSize /\ dcapa \in 0 .. MemSize
      /\ mem \in [0 .. MemSize - 1 -> Byte]
      /\ tail \in Nat /\ head \in Nat /\ ecapa \in Nat /\ dcapa \in Nat
      /\ mode \in {"idle", "encode", "decode"}
      /\ IInv'
  BY NextIInv, MemSizeAssumption DEF IInv, TypeOK, CursorsInBounds
<1>1. ASSUME NEW size \in 1 .. MemSize, EncoderInit(size)
      PROVE  Stream!OpenLog(size)
  <2>1. Prefix(tail)' = <<>>
    BY <1>1, PrefixZero DEF EncoderInit, Prefix
  <2> QED
    BY <1>1, <2>1 DEF EncoderInit, decoder, Stream!OpenLog
<1>2. ASSUME NEW size \in 1 .. MemSize, DecoderInit(size)
      PROVE  Stream!OpenReader(size)
  <2>1. size \in 0 .. MemSize
    BY MemSizeAssumption
  <2>2. /\ Prefix(size) \in [1 .. size -> Byte]
        /\ DOMAIN Prefix(size) = 1 .. size
        /\ \A i \in 1 .. size : Prefix(size)[i] = mem[i - 1]
    BY <1>0, <2>1, PrefixIsSeq
  <2>3. /\ Len(Prefix(tail)) = tail
        /\ \A i \in 1 .. tail : Prefix(tail)[i] = mem[i - 1]
    BY <1>0, PrefixIsSeq
  <2>4. Stream!Agrees(Prefix(size))
    BY <1>0, <2>2, <2>3, MemSizeAssumption DEF Stream!Agrees
  <2>5. Prefix(dcapa)' = Prefix(size) /\ Prefix(tail)' = Prefix(tail)
    BY <1>2 DEF DecoderInit, encoder, Prefix
  <2> QED
    BY <1>2, <2>2, <2>4, <2>5 DEF DecoderInit, encoder, Stream!OpenReader
<1>3. ASSUME NEW data \in Payloads, WriteAccepted(data)
      PROVE  Stream!Extend(data)
  <2>1. data \in Seq(Byte) /\ Len(data) \in 1 .. SizeMax
    BY RequestsAssumption
  <2>2. tail' = tail + Len(data) /\ tail + Len(data) <= ecapa
    BY <1>3, <2>1, FitsMeansRoom, MemSizeAssumption
       DEF WriteAccepted, IInv, TypeOK
  <2>3. mem' = Store(tail, data)
    BY <1>3 DEF WriteAccepted
  <2>4. Prefix(tail)' = Prefix(tail) \o data
    BY <1>0, <2>2, <2>3, StoreAppends
  <2>5. Len(Prefix(tail)) = tail
    BY <1>0, PrefixIsSeq
  <2>6. mode = "encode" /\ mode' = "encode" /\ ret' = "OK"
        /\ ecapa' = ecapa /\ head' = head /\ dcapa' = dcapa /\ got' = got
    BY <1>3 DEF WriteAccepted, decoder
  <2> QED
    BY <2>2, <2>4, <2>5, <2>6 DEF Stream!Extend
<1>4. ASSUME NEW data \in Payloads, WriteRefused(data)
      PROVE  Stream!Extend(data)
  <2>1. data \in Seq(Byte) /\ Len(data) \in 1 .. SizeMax
    BY RequestsAssumption
  <2>2. tail + Len(data) > ecapa
    BY <1>0, <1>4, <2>1, FitsMeansRoom, MemSizeAssumption
       DEF WriteRefused, IInv, TypeOK
  <2>3. Len(Prefix(tail)) = tail
    BY <1>0, PrefixIsSeq
  <2>4. Prefix(tail)' = Prefix(tail)
    BY <1>4 DEF WriteRefused, encoder, Prefix
  <2> QED
    BY <1>4, <2>2, <2>3, <2>4
       DEF WriteRefused, encoder, decoder, Stream!Extend
<1>5. ASSUME EncoderFini \/ DecoderFini
      PROVE  Stream!Close
  <2>1. /\ mode # "idle" /\ mode' = "idle" /\ ret' = "OK"
        /\ UNCHANGED <<mem, tail, ecapa, head, dcapa, got>>
    BY <1>5 DEF EncoderFini, DecoderFini, encoder, decoder
  <2>2. Prefix(tail)' = Prefix(tail)
    BY <2>1 DEF Prefix
  <2> QED
    BY <2>1, <2>2 DEF Stream!Close
<1>6. ASSUME NEW size \in Sizes,
             ReadAccepted(size) \/ SkipAccepted(size) \/ Exhausted(size)
      PROVE  /\ ReadAccepted(size) => Stream!Get(size)
             /\ SkipAccepted(size) => Stream!Pass(size)
             /\ Exhausted(size) => Stream!Get(size)
  <2>1. size \in 1 .. SizeMax /\ size \in Nat
    BY RequestsAssumption, MemSizeAssumption
  <2>2. /\ mode = "decode" /\ mode' = "decode"
        /\ UNCHANGED <<mem, tail, ecapa, dcapa>>
    BY <1>6 DEF ReadAccepted, SkipAccepted, Exhausted, encoder, decoder
  <2>3. Prefix(tail)' = Prefix(tail) /\ Prefix(dcapa)' = Prefix(dcapa)
    BY <2>2 DEF Prefix
  <2>4. /\ Len(Prefix(dcapa)) = dcapa
        /\ \A i \in 1 .. dcapa : Prefix(dcapa)[i] = mem[i - 1]
    BY <1>0, PrefixIsSeq
  <2>5. /\ Fits(head, size, dcapa) <=> head + size <= dcapa
        /\ Fits(head, size, dcapa) => Wrap(head + size) = head + size
    BY <2>1, FitsMeansRoom DEF IInv, TypeOK
  <2>6. ASSUME ReadAccepted(size) PROVE Stream!Get(size)
    <3>1. head' = head + size /\ head + size <= dcapa
      BY <2>5, <2>6 DEF ReadAccepted
    <3>2. \A i \in 1 .. size : Prefix(dcapa)[head + i] = mem[head + i - 1]
      BY <1>0, <2>1, <2>4, <3>1
    <3>3. got' = [i \in 1 .. size |-> Prefix(dcapa)[head + i]]
      BY <2>6, <3>2 DEF ReadAccepted
    <3>4. ret' = "OK"
      BY <2>6 DEF ReadAccepted
    <3> QED
      BY <2>2, <2>3, <2>4, <3>1, <3>3, <3>4 DEF Stream!Get
  <2>7. ASSUME SkipAccepted(size) PROVE Stream!Pass(size)
    <3>1. head' = head + size /\ head + size <= dcapa /\ ret' = "OK" /\ got' = got
      BY <2>5, <2>7 DEF SkipAccepted
    <3> QED
      BY <2>2, <2>3, <2>4, <3>1 DEF Stream!Pass
  <2>8. ASSUME Exhausted(size) PROVE Stream!Get(size)
    <3>1. head' = head /\ head + size > dcapa /\ ret' = "ENODATA" /\ got' = got
      BY <1>0, <2>1, <2>5, <2>8 DEF Exhausted, decoder
    <3> QED
      BY <2>2, <2>3, <2>4, <3>1 DEF Stream!Get
  <2> QED
    BY <2>6, <2>7, <2>8
<1>7. CASE UNCHANGED vars
  BY <1>7 DEF vars, Prefix, Stream!vars
<1> QED
  BY <1>1, <1>2, <1>3, <1>4, <1>5, <1>6, <1>7
     DEF Next, Write, Read, Skip, Stream!Next

(* The buffer codecs implement the byte stream: nothing an encoder accepted is *)
(* lost, reordered or overwritten before a decoder reads it back, and a call   *)
(* that fails leaves no trace in the stream (buffer.c, both operation tables). *)
THEOREM Refinement == Spec => ImplementsByteStream
BY InitStream, NextStream, Invariance, PTL
   DEF Spec, ImplementsByteStream, Stream!Spec
=============================================================================
