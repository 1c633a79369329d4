---------------------------- MODULE Encoder_proofs ----------------------------
(***************************************************************************)
(* Theorems about Encoder, for every limit, threshold, width and capacity. *)
(*                                                                         *)
(* What was written is a message of which a decoder still waits for some   *)
(* items, Pending below.  A call takes one or two of them, and owes those  *)
(* that the collection it begins contains: the number of items pending is  *)
(* always the number owed by the collections begun.                        *)
(***************************************************************************)
EXTENDS Encoder, Wire_proofs, SequenceTheorems

-----------------------------------------------------------------------------
(* Sums over sequences: bytes, units, and the items owed. *)

Chunks == Seq([units : Stream, size : Nat])

LEMMA ChunkFacts ==
    ASSUME NEW c \in Chunks
    PROVE  /\ Len(c) \in Nat
           /\ \A i \in 1 .. Len(c) : c[i].units \in Stream /\ c[i].size \in Nat
<1> DEFINE R == [units : Stream, size : Nat]
<1>1. c \in Seq(R)
  BY DEF Chunks
<1> HIDE DEF R
<1>2. Len(c) \in Nat /\ \A i \in 1 .. Len(c) : c[i] \in R
  BY <1>1
<1> QED
  BY <1>2 DEF R

\* The equations of the recursive functions, and what one more element adds
LEMMA BytesEquation ==
    ASSUME NEW c \in Chunks
    PROVE  \E g : /\ \A i \in 0 .. Len(c) : g[i] = IF i = 0 THEN 0 ELSE g[i - 1] + c[i].size
                  /\ Bytes(c) = g[Len(c)]
<1> DEFINE Solves(g, n) == g = [i \in 0 .. n |-> IF i = 0 THEN 0 ELSE g[i - 1] + c[i].size]
           S == { n \in Nat : \E g : Solves(g, n) }
<1>1. 0 \in S
  <2>1. Solves([i \in 0 .. 0 |-> 0], 0)
    OBVIOUS
  <2> QED
    BY <2>1
<1>2. ASSUME NEW n \in S PROVE n + 1 \in S
  <2>1. PICK g : Solves(g, n)
    BY <1>2
  <2> DEFINE h == [i \in 0 .. n + 1 |-> IF i = n + 1 THEN g[n] + c[n + 1].size ELSE g[i]]
  <2>2. \A i \in 0 .. n : g[i] = IF i = 0 THEN 0 ELSE g[i - 1] + c[i].size
    BY <2>1
  <2>3. ASSUME NEW i \in 0 .. n + 1 PROVE h[i] = IF i = 0 THEN 0 ELSE h[i - 1] + c[i].size
    <3>1. CASE i = n + 1
      <4>1. i # 0 /\ i - 1 = n /\ n \in 0 .. n + 1 /\ n # n + 1
        BY <1>2, <3>1
      <4>2. h[i] = g[n] + c[n + 1].size /\ h[n] = g[n]
        BY <3>1, <4>1
      <4> HIDE DEF h
      <4> QED
        BY <3>1, <4>1, <4>2, Zenon
    <3>2. CASE i \in 0 .. n
      BY <1>2, <2>2, <3>2
    <3> QED
      BY <1>2, <3>1, <3>2
  <2>4. Solves(h, n + 1)
    BY <2>3
  <2> HIDE DEF h, Solves
  <2> QED
    BY <1>2, <2>4
<1>3. S = Nat
  <2> HIDE DEF Solves
  <2> QED
    BY <1>1, <1>2, Induction
<1> HIDE DEF Solves
<1>4. PICK g : Solves(g, Len(c))
  BY <1>3, ChunkFacts
<1>5. Solves(CHOOSE h : Solves(h, Len(c)), Len(c))
  BY <1>4, Zenon
<1>6. Bytes(c) = (CHOOSE h : Solves(h, Len(c)))[Len(c)]
  BY DEF Bytes, Solves
<1> QED
  BY <1>5, <1>6 DEF Solves

LEMMA UnitsEquation ==
    ASSUME NEW c \in Chunks
    PROVE  \E g : /\ \A i \in 0 .. Len(c) : g[i] = IF i = 0 THEN << >> ELSE g[i - 1] \o c[i].units
                  /\ Units(c) = g[Len(c)]
<1> DEFINE Solves(g, n) == g = [i \in 0 .. n |-> IF i = 0 THEN << >> ELSE g[i - 1] \o c[i].units]
           S == { n \in Nat : \E g : Solves(g, n) }
<1>1. 0 \in S
  <2>1. Solves([i \in 0 .. 0 |-> << >>], 0)
    OBVIOUS
  <2> QED
    BY <2>1
<1>2. ASSUME NEW n \in S PROVE n + 1 \in S
  <2>1. PICK g : Solves(g, n)
    BY <1>2
  <2> DEFINE h == [i \in 0 .. n + 1 |-> IF i = n + 1 THEN g[n] \o c[n + 1].units ELSE g[i]]
  <2>2. \A i \in 0 .. n : g[i] = IF i = 0 THEN << >> ELSE g[i - 1] \o c[i].units
    BY <2>1
  <2>3. ASSUME NEW i \in 0 .. n + 1 PROVE h[i] = IF i = 0 THEN << >> ELSE h[i - 1] \o c[i].units
    <3>1. CASE i = n + 1
      <4>1. i # 0 /\ i - 1 = n /\ n \in 0 .. n + 1 /\ n # n + 1
        BY <1>2, <3>1
      <4>2. h[i] = g[n] \o c[n + 1].units /\ h[n] = g[n]
        BY <3>1, <4>1
      <4> HIDE DEF h
      <4> QED
        BY <3>1, <4>1, <4>2, Zenon
    <3>2. CASE i \in 0 .. n
      BY <1>2, <2>2, <3>2
    <3> QED
      BY <1>2, <3>1, <3>2
  <2>4. Solves(h, n + 1)
    BY <2>3
  <2> HIDE DEF h, Solves
  <2> QED
    BY <1>2, <2>4
<1>3. S = Nat
  <2> HIDE DEF Solves
  <2> QED
    BY <1>1, <1>2, Induction
<1> HIDE DEF Solves
<1>4. PICK g : Solves(g, Len(c))
  BY <1>3, ChunkFacts
<1>5. Solves(CHOOSE h : Solves(h, Len(c)), Len(c))
  BY <1>4, Zenon
<1>6. Units(c) = (CHOOSE h : Solves(h, Len(c)))[Len(c)]
  BY DEF Units, Solves
<1> QED
  BY <1>5, <1>6 DEF Solves

LEMMA BytesStep ==
    ASSUME NEW c \in Chunks, NEW d \in Chunks, Len(d) = Len(c) + 1, \A i \in 1 .. Len(c) : d[i] = c[i]
    PROVE  Bytes(d) = Bytes(c) + d[Len(d)].size
<1>1. PICK g : /\ \A i \in 0 .. Len(c) : g[i] = IF i = 0 THEN 0 ELSE g[i - 1] + c[i].size
              /\ Bytes(c) = g[Len(c)]
  BY BytesEquation
<1>2. PICK h : /\ \A i \in 0 .. Len(d) : h[i] = IF i = 0 THEN 0 ELSE h[i - 1] + d[i].size
              /\ Bytes(d) = h[Len(d)]
  BY BytesEquation
<1>3. Len(c) \in Nat
  BY ChunkFacts
<1> DEFINE S == { i \in Nat : i <= Len(c) => g[i] = h[i] }
<1>4. 0 \in S
  BY <1>1, <1>2, <1>3
<1>5. ASSUME NEW n \in S PROVE n + 1 \in S
  <2> SUFFICES ASSUME n + 1 <= Len(c) PROVE g[n + 1] = h[n + 1]
    BY <1>5
  <2>1. n + 1 <= Len(c)
    OBVIOUS
  <2> QED
    <3>1. g[n] = h[n] /\ d[n + 1] = c[n + 1]
      BY <1>3, <1>5, <2>1
    <3>2. g[n + 1] = g[n] + c[n + 1].size /\ h[n + 1] = h[n] + d[n + 1].size
      <4>1. n + 1 \in 0 .. Len(c) /\ n + 1 \in 0 .. Len(d) /\ n + 1 # 0 /\ (n + 1) - 1 = n
        BY <1>3, <1>5, <2>1
      <4>2. g[n + 1] = g[(n + 1) - 1] + c[n + 1].size
        BY <1>1, <4>1
      <4>3. h[n + 1] = h[(n + 1) - 1] + d[n + 1].size
        BY <1>2, <4>1
      <4> QED
        BY ONLY <4>1, <4>2, <4>3, Zenon
    <3> QED
      BY ONLY <3>1, <3>2, Zenon
<1>6. S = Nat
  BY <1>4, <1>5, Induction
<1>7. g[Len(c)] = h[Len(c)]
  BY <1>3, <1>6
<1>8. h[Len(d)] = h[Len(c)] + d[Len(d)].size
  <2>1. Len(d) \in 0 .. Len(d) /\ Len(d) # 0 /\ Len(d) - 1 = Len(c)
    BY <1>3
  <2>2. h[Len(d)] = h[Len(d) - 1] + d[Len(d)].size
    BY <1>2, <2>1
  <2> QED
    BY ONLY <2>1, <2>2, Zenon
<1> QED
  BY ONLY <1>1, <1>2, <1>7, <1>8, Zenon

LEMMA UnitsStep ==
    ASSUME NEW c \in Chunks, NEW d \in Chunks, Len(d) = Len(c) + 1, \A i \in 1 .. Len(c) : d[i] = c[i]
    PROVE  Units(d) = Units(c) \o d[Len(d)].units
<1>1. PICK g : /\ \A i \in 0 .. Len(c) : g[i] = IF i = 0 THEN << >> ELSE g[i - 1] \o c[i].units
              /\ Units(c) = g[Len(c)]
  BY UnitsEquation
<1>2. PICK h : /\ \A i \in 0 .. Len(d) : h[i] = IF i = 0 THEN << >> ELSE h[i - 1] \o d[i].units
              /\ Units(d) = h[Len(d)]
  BY UnitsEquation
<1>3. Len(c) \in Nat
  BY ChunkFacts
<1> DEFINE S == { i \in Nat : i <= Len(c) => g[i] = h[i] }
<1>4. 0 \in S
  BY <1>1, <1>2, <1>3
<1>5. ASSUME NEW n \in S PROVE n + 1 \in S
  <2> SUFFICES ASSUME n + 1 <= Len(c) PROVE g[n + 1] = h[n + 1]
    BY <1>5
  <2>1. n + 1 <= Len(c)
    OBVIOUS
  <2> QED
    <3>1. g[n] = h[n] /\ d[n + 1] = c[n + 1]
      BY <1>3, <1>5, <2>1
    <3>2. g[n + 1] = g[n] \o c[n + 1].units /\ h[n + 1] = h[n] \o d[n + 1].units
      <4>1. n + 1 \in 0 .. Len(c) /\ n + 1 \in 0 .. Len(d) /\ n + 1 # 0 /\ (n + 1) - 1 = n
        BY <1>3, <1>5, <2>1
      <4>2. g[n + 1] = g[(n + 1) - 1] \o c[n + 1].units
        BY <1>1, <4>1
      <4>3. h[n + 1] = h[(n + 1) - 1] \o d[n + 1].units
        BY <1>2, <4>1
      <4> QED
        BY ONLY <4>1, <4>2, <4>3, Zenon
    <3> QED
      BY ONLY <3>1, <3>2, Zenon
<1>6. S = Nat
  BY <1>4, <1>5, Induction
<1>7. g[Len(c)] = h[Len(c)]
  BY <1>3, <1>6
<1>8. h[Len(d)] = h[Len(c)] \o d[Len(d)].units
  <2>1. Len(d) \in 0 .. Len(d) /\ Len(d) # 0 /\ Len(d) - 1 = Len(c)
    BY <1>3
  <2>2. h[Len(d)] = h[Len(d) - 1] \o d[Len(d)].units
    BY <1>2, <2>1
  <2> QED
    BY ONLY <2>1, <2>2, Zenon
<1> QED
  BY ONLY <1>1, <1>2, <1>7, <1>8, Zenon

-----------------------------------------------------------------------------
(* Sequences *)

\* The first elements of a sequence
LEMMA Prefix ==
    ASSUME NEW R, NEW c \in Seq(R), NEW n \in 0 .. Len(c)
    PROVE  /\ SubSeq(c, 1, n) \in Seq(R) /\ Len(SubSeq(c, 1, n)) = n
           /\ \A i \in 1 .. n : SubSeq(c, 1, n)[i] = c[i]
<1>1. 1 \in Int /\ n \in Int /\ \A i \in 1 .. n : c[i] \in R
  OBVIOUS
<1> DEFINE f == SubSeq(c, 1, n)
<1>2. /\ f \in Seq(R) /\ Len(f) = (IF 1 <= n THEN n - 1 + 1 ELSE 0)
      /\ \A i \in 1 .. n - 1 + 1 : f[i] = c[1 + i - 1]
  BY <1>1, SubSeqProperties
<1> HIDE DEF f
<1>3. \A i \in 1 .. n : i \in 1 .. n - 1 + 1 /\ 1 + i - 1 = i
  OBVIOUS
<1>4. \A i \in 1 .. n : f[i] = c[i]
  BY ONLY <1>2, <1>3, Zenon
<1>5. Len(f) = n
  BY <1>2
<1> QED
  BY <1>2, <1>4, <1>5 DEF f

LEMMA ConcatFacts ==
    ASSUME NEW R, NEW c \in Seq(R), NEW d \in Seq(R)
    PROVE  /\ c \o d \in Seq(R) /\ Len(c \o d) = Len(c) + Len(d)
           /\ \A i \in 1 .. Len(c) : (c \o d)[i] = c[i]
           /\ \A i \in 1 .. Len(d) : (c \o d)[Len(c) + i] = d[i]
<1> DEFINE q == c \o d
<1>1. /\ q \in Seq(R) /\ Len(q) = Len(c) + Len(d)
      /\ \A i \in 1 .. Len(c) + Len(d) : q[i] = IF i <= Len(c) THEN c[i] ELSE d[i - Len(c)]
  BY ConcatProperties
<1> HIDE DEF q
<1>2. Len(c) \in Nat /\ Len(d) \in Nat
  OBVIOUS
<1>3. \A i \in 1 .. Len(c) : q[i] = c[i]
  BY <1>1, <1>2
<1>4. ASSUME NEW i \in 1 .. Len(d) PROVE q[Len(c) + i] = d[i]
  <2>1. /\ Len(c) + i \in 1 .. Len(c) + Len(d) /\ ~(Len(c) + i <= Len(c))
        /\ (Len(c) + i) - Len(c) = i
    BY <1>2
  <2>2. q[Len(c) + i] = d[(Len(c) + i) - Len(c)]
    BY <1>1, <2>1
  <2> QED
    BY ONLY <2>1, <2>2, Zenon
<1> QED
  BY <1>1, <1>3, <1>4 DEF q

LEMMA EmptyOnly ==
    ASSUME NEW R, NEW c \in Seq(R), Len(c) = 0
    PROVE  c = << >>
BY EmptySeq

\* The same of chunks
LEMMA ChunkPrefix ==
    ASSUME NEW c \in Chunks, NEW n \in 0 .. Len(c)
    PROVE  /\ SubSeq(c, 1, n) \in Chunks /\ Len(SubSeq(c, 1, n)) = n
           /\ \A i \in 1 .. n : SubSeq(c, 1, n)[i] = c[i]
BY Prefix DEF Chunks

LEMMA ChunkFront ==
    ASSUME NEW c \in Chunks, NEW n \in Nat, Len(c) = n + 1
    PROVE  \E f \in Chunks : Len(f) = n /\ \A i \in 1 .. n : f[i] = c[i]
<1>1. n \in 0 .. Len(c)
  OBVIOUS
<1> QED
  BY <1>1, ChunkPrefix

LEMMA ChunkConcat ==
    ASSUME NEW c \in Chunks, NEW d \in Chunks
    PROVE  /\ c \o d \in Chunks /\ Len(c \o d) = Len(c) + Len(d)
           /\ \A i \in 1 .. Len(c) : (c \o d)[i] = c[i]
           /\ \A i \in 1 .. Len(d) : (c \o d)[Len(c) + i] = d[i]
BY ConcatFacts DEF Chunks

LEMMA NoUnit == << >> \in Stream /\ Len(<< >>) = 0
BY EmptySeq DEF Stream

LEMMA StreamAssoc ==
    \A a, b, c \in Stream : (a \o b) \o c = a \o (b \o c)
BY ConcatAssociative DEF Stream

LEMMA NoChunk ==
    ASSUME NEW c \in Chunks, Len(c) = 0
    PROVE  Bytes(c) = 0 /\ Units(c) = << >>
<1>1. 0 \in 0 .. Len(c)
  OBVIOUS
<1>2. Bytes(c) = 0
  BY <1>1, BytesEquation
<1>3. Units(c) = << >>
  BY <1>1, UnitsEquation
<1> QED
  BY <1>2, <1>3

LEMMA ChunksTyped ==
    ASSUME NEW c \in Chunks
    PROVE  Bytes(c) \in Nat /\ Units(c) \in Stream
<1> DEFINE Typed(d) == Bytes(d) \in Nat /\ Units(d) \in Stream
           S == { n \in Nat : \A d \in Chunks : Len(d) = n => Typed(d) }
<1>1. 0 \in S
  BY NoChunk, NoUnit
<1>2. ASSUME NEW n \in S PROVE n + 1 \in S
  <2>1. SUFFICES ASSUME NEW d \in Chunks, Len(d) = n + 1 PROVE Typed(d)
    BY <1>2
  <2>2. PICK f \in Chunks : Len(f) = n /\ \A i \in 1 .. n : f[i] = d[i]
    BY <1>2, <2>1, ChunkFront
  <2>3. Typed(f)
    BY <1>2, <2>2
  <2>4. Bytes(d) = Bytes(f) + d[Len(d)].size /\ Units(d) = Units(f) \o d[Len(d)].units
    BY <2>1, <2>2, BytesStep, UnitsStep
  <2>5. d[Len(d)].size \in Nat /\ d[Len(d)].units \in Stream
    <3>1. Len(d) \in 1 .. Len(d)
      BY <1>2, <2>1
    <3> QED
      BY <3>1, ChunkFacts
  <2>6. Units(d) \in Stream
    BY <2>3, <2>4, <2>5, ConcatProperties DEF Stream
  <2> QED
    BY <2>3, <2>4, <2>5, <2>6
<1> HIDE DEF Typed
<1>3. S = Nat
  BY <1>1, <1>2, Induction
<1>4. Typed(c)
  BY <1>3, ChunkFacts
<1> QED
  BY <1>4 DEF Typed

LEMMA ChunksConcat ==
    ASSUME NEW c \in Chunks, NEW d \in Chunks
    PROVE  /\ c \o d \in Chunks
           /\ Bytes(c \o d) = Bytes(c) + Bytes(d)
           /\ Units(c \o d) = Units(c) \o Units(d)
<1> DEFINE Sums(e) == /\ Bytes(c \o e) = Bytes(c) + Bytes(e)
                      /\ Units(c \o e) = Units(c) \o Units(e)
           S == { n \in Nat : \A e \in Chunks : Len(e) = n => Sums(e) }
<1>1. 0 \in S
  <2> SUFFICES ASSUME NEW e \in Chunks, Len(e) = 0 PROVE Sums(e)
    OBVIOUS
  <2>1. e = << >> /\ Bytes(e) = 0 /\ Units(e) = << >>
    BY NoChunk, EmptyOnly DEF Chunks
  <2>2. c \o e = c /\ Units(c) \o Units(e) = Units(c)
    BY <2>1, ChunksTyped, ConcatEmptySeq DEF Chunks, Stream
  <2> QED
    BY <2>1, <2>2, ChunksTyped
<1>2. ASSUME NEW n \in S PROVE n + 1 \in S
  <2>1. SUFFICES ASSUME NEW e \in Chunks, Len(e) = n + 1 PROVE Sums(e)
    BY <1>2
  <2>2. PICK f \in Chunks : Len(f) = n /\ \A i \in 1 .. n : f[i] = e[i]
    BY <1>2, <2>1, ChunkFront
  <2>3. Sums(f)
    BY <1>2, <2>2
  <2>4. Bytes(e) = Bytes(f) + e[Len(e)].size /\ Units(e) = Units(f) \o e[Len(e)].units
    BY <2>1, <2>2, BytesStep, UnitsStep
  <2>5. PICK p \in Chunks : /\ p = c \o f /\ Len(p) = Len(c) + n
                            /\ \A i \in 1 .. Len(c) : p[i] = c[i]
                            /\ \A i \in 1 .. n : p[Len(c) + i] = f[i]
    <3> DEFINE q == c \o f
    <3>1. /\ q \in Chunks /\ Len(q) = Len(c) + n
          /\ \A i \in 1 .. Len(c) : q[i] = c[i]
          /\ \A i \in 1 .. n : q[Len(c) + i] = f[i]
      BY <2>2, ChunkConcat
    <3> HIDE DEF q
    <3>2. q = c \o f
      BY DEF q
    <3> QED
      BY <3>1, <3>2
  <2>6. PICK q \in Chunks : /\ q = c \o e /\ Len(q) = Len(c) + (n + 1)
                            /\ \A i \in 1 .. Len(c) : q[i] = c[i]
                            /\ \A i \in 1 .. n + 1 : q[Len(c) + i] = e[i]
    <3> DEFINE x == c \o e
    <3>1. /\ x \in Chunks /\ Len(x) = Len(c) + (n + 1)
          /\ \A i \in 1 .. Len(c) : x[i] = c[i]
          /\ \A i \in 1 .. n + 1 : x[Len(c) + i] = e[i]
      <4>1. /\ x \in Chunks /\ Len(x) = Len(c) + Len(e)
            /\ \A i \in 1 .. Len(c) : x[i] = c[i]
            /\ \A i \in 1 .. Len(e) : x[Len(c) + i] = e[i]
        BY <2>1, ChunkConcat
      <4> HIDE DEF x
      <4> QED
        BY <2>1, <4>1
    <3> HIDE DEF x
    <3>2. x = c \o e
      BY DEF x
    <3> QED
      BY <3>1, <3>2
  <2>7. Len(q) = Len(p) + 1 /\ \A i \in 1 .. Len(p) : q[i] = p[i]
    <3>1. Len(c) \in Nat /\ n \in Nat
      BY <1>2, ChunkFacts
    <3>2. ASSUME NEW i \in 1 .. Len(p) PROVE q[i] = p[i]
      <4>1. CASE i <= Len(c)
        BY <2>5, <2>6, <3>1, <4>1
      <4>2. CASE i > Len(c)
        <5>1. PICK j \in 1 .. n : i = Len(c) + j
          <6>1. i - Len(c) \in 1 .. n /\ i = Len(c) + (i - Len(c))
            BY <2>5, <3>1, <4>2
          <6> QED
            BY <6>1
        <5> QED
          BY <2>2, <2>5, <2>6, <3>1, <5>1
      <4> QED
        BY <3>1, <4>1, <4>2
    <3> QED
      BY <2>5, <2>6, <3>1, <3>2
  <2>8. q[Len(q)] = e[Len(e)]
    BY <1>2, <2>1, <2>6
  <2>9. Bytes(q) = Bytes(p) + e[Len(e)].size /\ Units(q) = Units(p) \o e[Len(e)].units
    BY <2>7, <2>8, BytesStep, UnitsStep
  <2>10. e[Len(e)].size \in Nat /\ e[Len(e)].units \in Stream
    <3>1. Len(e) \in 1 .. Len(e)
      BY <1>2, <2>1
    <3> QED
      BY <3>1, ChunkFacts
  <2>11. Bytes(c \o e) = Bytes(c) + Bytes(e)
    <3>1. Bytes(c) \in Nat /\ Bytes(f) \in Nat
      BY <2>2, ChunksTyped
    <3>2. Bytes(p) = Bytes(c) + Bytes(f)
      BY <2>3, <2>5
    <3> QED
      BY ONLY <2>4, <2>6, <2>9, <2>10, <3>1, <3>2
  <2>12. Units(c \o e) = Units(c) \o Units(e)
    <3>1. Units(c) \in Stream /\ Units(f) \in Stream /\ e[Len(e)].units \in Stream
      BY <2>10, ChunksTyped
    <3>2. (Units(c) \o Units(f)) \o e[Len(e)].units = Units(c) \o (Units(f) \o e[Len(e)].units)
      BY ONLY <3>1, StreamAssoc, Zenon
    <3> QED
      BY <2>3, <2>4, <2>5, <2>6, <2>9, <3>2
  <2> QED
    BY <2>11, <2>12
<1> HIDE DEF Sums
<1>3. S = Nat
  BY <1>1, <1>2, Induction
<1>4. Sums(d)
  BY <1>3, ChunkFacts
<1>5. c \o d \in Chunks
  BY ConcatProperties DEF Chunks
<1> QED
  BY <1>4, <1>5 DEF Sums

LEMMA OneChunk ==
    ASSUME NEW c \in Chunks, Len(c) = 1
    PROVE  Bytes(c) = c[1].size /\ Units(c) = c[1].units
<1>1. << >> \in Chunks /\ Len(<< >>) = 0
  BY EmptySeq DEF Chunks
<1>2. c[1].units \in Stream /\ c[1].size \in Nat
  BY ChunkFacts
<1> DEFINE z == << >>
<1>3. /\ z \in Chunks /\ Len(c) = Len(z) + 1 /\ \A i \in 1 .. Len(z) : c[i] = z[i]
      /\ Bytes(z) = 0 /\ Units(z) = << >>
  BY <1>1, NoChunk
<1> HIDE DEF z
<1>4. Bytes(c) = 0 + c[1].size /\ Units(c) = << >> \o c[1].units
  BY <1>3, BytesStep, UnitsStep
<1> QED
  BY <1>2, <1>4, ConcatEmptySeq DEF Stream

LEMMA TwoChunks ==
    ASSUME NEW c \in Chunks, Len(c) = 2
    PROVE  Bytes(c) = c[1].size + c[2].size /\ Units(c) = c[1].units \o c[2].units
<1>1. 1 \in Nat /\ Len(c) = 1 + 1
  OBVIOUS
<1>2. PICK f \in Chunks : Len(f) = 1 /\ \A i \in 1 .. 1 : f[i] = c[i]
  BY ONLY <1>1, c \in Chunks, ChunkFront
<1>3. Bytes(f) = c[1].size /\ Units(f) = c[1].units
  BY <1>2, OneChunk
<1>4. Len(c) = Len(f) + 1 /\ (\A i \in 1 .. Len(f) : c[i] = f[i]) /\ c[Len(c)] = c[2]
  BY <1>2
<1>5. Bytes(c) = Bytes(f) + c[2].size /\ Units(c) = Units(f) \o c[2].units
  BY <1>4, BytesStep, UnitsStep
<1> QED
  BY <1>3, <1>5

LEMMA ThreeChunks ==
    ASSUME NEW c \in Chunks, Len(c) = 3
    PROVE  /\ Bytes(c) = c[1].size + c[2].size + c[3].size
           /\ Units(c) = (c[1].units \o c[2].units) \o c[3].units
<1>1. 2 \in Nat /\ Len(c) = 2 + 1
  OBVIOUS
<1>2. PICK f \in Chunks : Len(f) = 2 /\ \A i \in 1 .. 2 : f[i] = c[i]
  BY ONLY <1>1, c \in Chunks, ChunkFront
<1>3. Bytes(f) = c[1].size + c[2].size /\ Units(f) = c[1].units \o c[2].units
  <2>1. f[1] = c[1] /\ f[2] = c[2]
    BY <1>2
  <2> QED
    BY <1>2, <2>1, TwoChunks
<1>4. Len(c) = Len(f) + 1 /\ (\A i \in 1 .. Len(f) : c[i] = f[i]) /\ c[Len(c)] = c[3]
  BY <1>2
<1>5. Bytes(c) = Bytes(f) + c[3].size /\ Units(c) = Units(f) \o c[3].units
  BY <1>4, BytesStep, UnitsStep
<1> QED
  BY <1>3, <1>5

-----------------------------------------------------------------------------
(* What a decoder makes of the writes of a call. *)

\* Stream w has the units of u from position q on.
Has(w, q, u) == q + Len(u) <= Len(w) /\ \A i \in 1 .. Len(u) : w[q + i] = u[i]

\* The writes of p are the first ones of c, but not all of them.
Cut(p, c) == Len(p) < Len(c) /\ \A i \in 1 .. Len(p) : p[i] = c[i]

\* A decoder that meets these writes takes them for `need' items, that contain kids
\* others; it notices when they are cut short.
Call(c, need, kids) ==
    /\ c \in Chunks /\ Len(c) > 0 /\ need \in Nat \ {0} /\ kids \in Nat
    /\ \A w \in Stream : \A q \in 0 .. Len(w) : \A k \in Nat :
          k >= need /\ Has(w, q, Units(c)) =>
              SkipItems(w, q, k) = SkipItems(w, q + Len(Units(c)), k - need + kids)
    /\ \A p \in Chunks : Cut(p, c) =>
          \A w \in Stream : \A q \in 0 .. Len(w) : \A k \in Nat :
             k >= need /\ Has(w, q, Units(p)) /\ Len(w) = q + Len(Units(p)) =>
                 SkipItems(w, q, k).ret = "ENODATA"

\* What follows a tag or its count, the items it contains, and the limits of the library.
Pay(kind, n) == IF kind \in {"scalar", "fixstr", "str", "bin"} THEN n ELSE 0
Kids(kind, n) ==
    CASE kind \in {"fixarr", "arr"} -> n
      [] kind \in {"fixmap", "map"} -> 2 * n
      [] OTHER -> 0
InLimits(kind, n) ==
    /\ kind \in {"fixstr", "str"} => n <= StrMax
    /\ kind = "bin" => n <= BinMax
    /\ kind \in {"fixarr", "arr"} => n <= ElmMax
    /\ kind \in {"fixmap", "map"} => n <= FldMax
    /\ kind \in Kind \ {"ext"}

LEMMA PlainItem ==
    ASSUME NEW w \in Stream, NEW q \in Nat, q + 1 <= Len(w), NEW s \in Symbol, w[q + 1] = s,
           ~Counted(s), InLimits(s.kind, s.n)
    PROVE  /\ HeaderSize(w, q) = 1 /\ Supported(w, q)
           /\ NextTag(w, q) = q + 1 + Pay(s.kind, s.n) /\ Children(w, q) = Kids(s.kind, s.n)
<1>1. HeaderSize(w, q) = 1 /\ Count(w, q) = s.n
  BY DEF HeaderSize, Count
<1>2. Supported(w, q)
  BY <1>1 DEF Supported, InLimits, Counted, Kind
<1>3. PayloadSize(w, q) = Pay(s.kind, s.n) /\ Children(w, q) = Kids(s.kind, s.n)
  BY <1>1 DEF PayloadSize, Pay, Children, Kids, Counted
<1> QED
  BY <1>1, <1>2, <1>3 DEF NextTag

LEMMA CountedItem ==
    ASSUME NEW w \in Stream, NEW q \in Nat, q + 2 <= Len(w), NEW s \in Symbol, w[q + 1] = s,
           Counted(s), NEW a \in Symbol, w[q + 2] = a, InLimits(s.kind, a.n)
    PROVE  /\ HeaderSize(w, q) = 2 /\ Supported(w, q)
           /\ NextTag(w, q) = q + 2 + Pay(s.kind, a.n) /\ Children(w, q) = Kids(s.kind, a.n)
<1>1. HeaderSize(w, q) = 2 /\ Count(w, q) = a.n
  BY DEF HeaderSize, Count
<1>2. Supported(w, q)
  BY <1>1 DEF Supported, InLimits, Counted, Kind
<1>3. PayloadSize(w, q) = Pay(s.kind, a.n) /\ Children(w, q) = Kids(s.kind, a.n)
  BY <1>1 DEF PayloadSize, Pay, Children, Kids, Counted
<1> QED
  BY <1>1, <1>2, <1>3 DEF NextTag

\* Nothing was written.
LEMMA CutNone ==
    ASSUME NEW p \in Chunks, Len(p) = 0, NEW w \in Stream, NEW q \in 0 .. Len(w),
           NEW k \in Nat \ {0}, Len(w) = q + Len(Units(p))
    PROVE  SkipItems(w, q, k).ret = "ENODATA"
<1>1. q = Len(w)
  BY NoChunk
<1>2. SkipItems(w, q, k) = [head |-> q, ret |-> "ENODATA"]
  BY <1>1, SkipStops
<1> QED
  BY <1>2

\* A tag and its payload, if any
LEMMA PlainCall ==
    ASSUME NEW s \in Symbol, ~Counted(s), InLimits(s.kind, s.n),
           NEW c \in Chunks, c[1].units = <<s>>,
           \/ Len(c) = 1 /\ Pay(s.kind, s.n) = 0
           \/ Len(c) = 2 /\ Pay(s.kind, s.n) # 0 /\ Len(c[2].units) = Pay(s.kind, s.n)
    PROVE  Call(c, 1, Kids(s.kind, s.n))
<1> DEFINE pay == Pay(s.kind, s.n)
           kids == Kids(s.kind, s.n)
<1>0. \/ Len(c) = 1 /\ pay = 0
      \/ Len(c) = 2 /\ pay # 0 /\ Len(c[2].units) = pay
  OBVIOUS
<1>1. pay \in Nat /\ kids \in Nat
  BY DEF Pay, Kids, Symbol
<1>2. <<s>> \in Stream /\ Len(<<s>>) = 1 /\ <<s>>[1] = s
  BY DEF Stream
<1> HIDE DEF pay, kids
<1>3. Units(c) \in Stream /\ Len(Units(c)) = 1 + pay /\ Units(c)[1] = s
  <2>1. CASE Len(c) = 1
    <3>1. Units(c) = <<s>> /\ pay = 0
      BY <1>0, <2>1, OneChunk
    <3> QED
      BY <1>2, <3>1
  <2>2. CASE Len(c) = 2
    <3>1. c[2].units \in Stream /\ Len(c[2].units) = pay
      <4>1. 2 \in 1 .. Len(c)
        BY <2>2
      <4> QED
        BY <1>0, <2>2, <4>1, ChunkFacts
    <3> DEFINE u == <<s>> \o c[2].units
    <3>2. Units(c) = u
      BY <2>2, TwoChunks
    <3>3. /\ Len(u) = Len(<<s>>) + Len(c[2].units)
          /\ \A i \in 1 .. Len(<<s>>) : u[i] = <<s>>[i]
      BY <1>2, <3>1, ConcatFacts DEF Stream
    <3> HIDE DEF u
    <3>4. u[1] = s /\ Len(u) = 1 + pay
      BY <1>2, <3>1, <3>3
    <3> QED
      BY <3>2, <3>4, ChunksTyped
  <2> QED
    BY <1>0, <2>1, <2>2
<1>4. ASSUME NEW w \in Stream, NEW q \in 0 .. Len(w), q + 1 <= Len(w), w[q + 1] = s
      PROVE  /\ HeaderSize(w, q) = 1 /\ Supported(w, q)
             /\ NextTag(w, q) = q + 1 + pay /\ Children(w, q) = kids
  BY <1>4, PlainItem DEF pay, kids
<1>5. ASSUME NEW w \in Stream, NEW q \in 0 .. Len(w), NEW k \in Nat, k >= 1, Has(w, q, Units(c))
      PROVE  SkipItems(w, q, k) = SkipItems(w, q + Len(Units(c)), k - 1 + kids)
  <2>1. Len(w) \in Nat
    BY StreamPositions
  <2>2. q + (1 + pay) <= Len(w) /\ w[q + 1] = s /\ q + 1 <= Len(w)
    BY <1>1, <1>3, <1>5, <2>1 DEF Has
  <2>3. Readable(w, q) /\ NextTag(w, q) = q + Len(Units(c)) /\ Children(w, q) = kids
    BY <1>1, <1>3, <1>4, <2>1, <2>2 DEF Readable
  <2> QED
    BY <1>5, <2>3, SkipInto
<1>6. ASSUME NEW p \in Chunks, Cut(p, c), NEW w \in Stream, NEW q \in 0 .. Len(w), NEW k \in Nat,
             k >= 1, Has(w, q, Units(p)), Len(w) = q + Len(Units(p))
      PROVE  SkipItems(w, q, k).ret = "ENODATA"
  <2>1. Len(w) \in Nat /\ Len(p) \in Nat
    BY StreamPositions, ChunkFacts
  <2> DEFINE pieces == Len(p)
  <2> DEFINE all == Len(c)
  <2>0. /\ pieces \in Nat /\ pieces < all /\ \A i \in 1 .. pieces : p[i] = c[i]
        /\ (all = 1 \/ (all = 2 /\ pay # 0))
    BY <1>0, <1>6, <2>1 DEF Cut
  <2> HIDE DEF pieces, all
  <2>2. CASE Len(p) = 0
    BY <1>6, <2>2, CutNone
  <2>3. CASE Len(p) = 1
    <3>1. Len(c) = 2 /\ pay # 0 /\ p[1] = c[1]
      <4>1. pieces = 1
        BY <2>3 DEF pieces
      <4>2. all = 2 /\ pay # 0 /\ p[1] = c[1]
        BY ONLY <2>0, <4>1
      <4> QED
        BY <4>2 DEF all
    <3>2. Units(p) = <<s>>
      BY <2>3, <3>1, OneChunk
    <3>3. q + 1 = Len(w) /\ w[q + 1] = s
      BY <1>2, <1>6, <3>2 DEF Has
    <3>4. q # Len(w) /\ q + HeaderSize(w, q) <= Len(w) /\ Supported(w, q) /\ NextTag(w, q) > Len(w)
      BY <1>1, <1>4, <2>1, <3>1, <3>3
    <3>5. SkipItems(w, q, k) = [head |-> q + HeaderSize(w, q), ret |-> "ENODATA"]
      BY <1>6, <3>4, SkipStops
    <3> QED
      BY <3>5
  <2> QED
    <3>1. pieces = 0 \/ pieces = 1
      BY ONLY <2>0
    <3> QED
      BY <2>2, <2>3, <3>1 DEF pieces
<1> QED
  BY <1>1, <1>5, <1>6 DEF Call, kids

\* A tag, its count, and its payload, if any
LEMMA CountedCall ==
    ASSUME NEW s \in Symbol, Counted(s), NEW a \in Symbol, InLimits(s.kind, a.n),
           NEW c \in Chunks, c[1].units = <<s>>, c[2].units = <<a>>,
           \/ Len(c) = 2 /\ Pay(s.kind, a.n) = 0
           \/ Len(c) = 3 /\ Pay(s.kind, a.n) # 0 /\ Len(c[3].units) = Pay(s.kind, a.n)
    PROVE  Call(c, 1, Kids(s.kind, a.n))
<1> DEFINE pay == Pay(s.kind, a.n)
           kids == Kids(s.kind, a.n)
           head == <<s>> \o <<a>>
<1>0. \/ Len(c) = 2 /\ pay = 0
      \/ Len(c) = 3 /\ pay # 0 /\ Len(c[3].units) = pay
  OBVIOUS
<1>1. pay \in Nat /\ kids \in Nat
  BY DEF Pay, Kids, Symbol
<1>2. <<s>> \in Stream /\ Len(<<s>>) = 1 /\ <<s>>[1] = s
  BY DEF Stream
<1>3. head \in Stream /\ Len(head) = 2 /\ head[1] = s /\ head[2] = a
  <2>1. <<a>> \in Stream /\ Len(<<a>>) = 1 /\ <<a>>[1] = a
    BY DEF Stream
  <2>2. /\ head \in Stream /\ Len(head) = Len(<<s>>) + Len(<<a>>)
        /\ \A i \in 1 .. Len(<<s>>) : head[i] = <<s>>[i]
        /\ \A i \in 1 .. Len(<<a>>) : head[Len(<<s>>) + i] = <<a>>[i]
    BY <1>2, <2>1, ConcatFacts DEF Stream
  <2> HIDE DEF head
  <2>3. head[1] = s
    BY <1>2, <2>2
  <2>4. head[1 + 1] = a
    BY <1>2, <2>1, <2>2
  <2> QED
    BY <1>2, <2>1, <2>2, <2>3, <2>4
<1>4. /\ Units(c) \in Stream /\ Len(Units(c)) = 2 + pay /\ Units(c)[1] = s /\ Units(c)[2] = a
  <2> HIDE DEF pay, kids, head
  <2>1. CASE Len(c) = 2
    <3>1. Units(c) = head
      BY <2>1, TwoChunks DEF head
    <3>2. pay = 0
      BY ONLY <1>0, <2>1
    <3> QED
      BY <1>3, <3>1, <3>2
  <2>2. CASE Len(c) = 3
    <3>1. c[3].units \in Stream /\ Len(c[3].units) = pay
      <4>1. 3 \in 1 .. Len(c)
        BY <2>2
      <4> QED
        <5>1. Len(c[3].units) = pay
          BY ONLY <1>0, <2>2
        <5> QED
          BY <4>1, <5>1, ChunkFacts
    <3> DEFINE u == head \o c[3].units
    <3>2. Units(c) = u
      BY <2>2, ThreeChunks DEF head
    <3>3. /\ Len(u) = Len(head) + Len(c[3].units)
          /\ \A i \in 1 .. Len(head) : u[i] = head[i]
      BY <1>3, <3>1, ConcatFacts DEF Stream
    <3> HIDE DEF u
    <3>4. u[1] = s /\ u[2] = a /\ Len(u) = 2 + pay
      BY <1>3, <3>1, <3>3
    <3> QED
      BY <3>2, <3>4, ChunksTyped
  <2> QED
    BY <1>0, <2>1, <2>2
<1> HIDE DEF pay, kids, head
<1>5. ASSUME NEW w \in Stream, NEW q \in 0 .. Len(w), q + 2 <= Len(w), w[q + 1] = s, w[q + 2] = a
      PROVE  /\ HeaderSize(w, q) = 2 /\ Supported(w, q)
             /\ NextTag(w, q) = q + 2 + pay /\ Children(w, q) = kids
  BY <1>5, CountedItem DEF pay, kids
<1>6. ASSUME NEW w \in Stream, NEW q \in 0 .. Len(w), NEW k \in Nat, k >= 1, Has(w, q, Units(c))
      PROVE  SkipItems(w, q, k) = SkipItems(w, q + Len(Units(c)), k - 1 + kids)
  <2>1. Len(w) \in Nat
    BY StreamPositions
  <2>2. q + (2 + pay) <= Len(w) /\ w[q + 1] = s /\ w[q + 2] = a
    BY <1>1, <1>4, <1>6, <2>1 DEF Has
  <2>3. Readable(w, q) /\ NextTag(w, q) = q + Len(Units(c)) /\ Children(w, q) = kids
    BY <1>1, <1>4, <1>5, <2>1, <2>2 DEF Readable
  <2> QED
    BY <1>6, <2>3, SkipInto
<1>7. ASSUME NEW p \in Chunks, Cut(p, c), NEW w \in Stream, NEW q \in 0 .. Len(w), NEW k \in Nat,
             k >= 1, Has(w, q, Units(p)), Len(w) = q + Len(Units(p))
      PROVE  SkipItems(w, q, k).ret = "ENODATA"
  <2>1. Len(w) \in Nat /\ Len(p) \in Nat
    BY StreamPositions, ChunkFacts
  <2> DEFINE pieces == Len(p)
  <2> DEFINE all == Len(c)
  <2>0. /\ pieces \in Nat /\ pieces < all /\ \A i \in 1 .. pieces : p[i] = c[i]
        /\ (all = 2 \/ (all = 3 /\ pay # 0))
    BY <1>0, <1>7, <2>1 DEF Cut
  <2> HIDE DEF pieces, all
  <2>2. CASE Len(p) = 0
    BY <1>7, <2>2, CutNone
  <2>3. CASE Len(p) = 1
    <3>1. p[1] = c[1]
      BY <1>7, <2>3 DEF Cut
    <3>2. Units(p) = <<s>>
      BY <2>3, <3>1, OneChunk
    <3>3. q + 1 = Len(w) /\ w[q + 1] = s
      BY <1>2, <1>7, <3>2 DEF Has
    <3>4. HeaderSize(w, q) = 2 /\ q # Len(w) /\ q + HeaderSize(w, q) > Len(w)
      BY <2>1, <3>3 DEF HeaderSize
    <3>5. SkipItems(w, q, k) = [head |-> q + 1, ret |-> "ENODATA"]
      BY <1>7, <3>4, SkipStops
    <3> QED
      BY <3>5
  <2>4. CASE Len(p) = 2
    <3>1. pay # 0 /\ p[1] = c[1] /\ p[2] = c[2]
      <4>1. pieces = 2
        BY <2>4 DEF pieces
      <4> QED
        BY ONLY <2>0, <4>1
    <3>2. Units(p) = head
      BY <2>4, <3>1, TwoChunks DEF head
    <3>3. q + 2 = Len(w) /\ w[q + 1] = s /\ w[q + 2] = a
      <4>1. Len(w) = q + 2 /\ \A i \in 1 .. 2 : w[q + i] = head[i]
        BY <1>3, <1>7, <3>2 DEF Has
      <4> QED
        BY <1>3, <4>1
    <3>4. q # Len(w) /\ q + HeaderSize(w, q) <= Len(w) /\ Supported(w, q) /\ NextTag(w, q) > Len(w)
      BY <1>1, <1>5, <2>1, <3>1, <3>3
    <3>5. SkipItems(w, q, k) = [head |-> q + HeaderSize(w, q), ret |-> "ENODATA"]
      BY <1>7, <3>4, SkipStops
    <3> QED
      BY <3>5
  <2> QED
    <3>1. pieces = 0 \/ pieces = 1 \/ pieces = 2
      BY ONLY <2>0
    <3> QED
      BY <2>2, <2>3, <2>4, <3>1 DEF pieces
<1> QED
  BY <1>1, <1>6, <1>7 DEF Call, kids

LEMMA HasConcat ==
    ASSUME NEW w \in Stream, NEW q \in 0 .. Len(w), NEW a \in Stream, NEW b \in Stream,
           Has(w, q, a \o b)
    PROVE  /\ Has(w, q, a) /\ q + Len(a) \in 0 .. Len(w) /\ Has(w, q + Len(a), b)
           /\ Len(a \o b) = Len(a) + Len(b) /\ Len(a) \in Nat /\ Len(b) \in Nat
<1> DEFINE u == a \o b
<1>1. /\ Len(u) = Len(a) + Len(b)
      /\ \A i \in 1 .. Len(a) : u[i] = a[i]
      /\ \A i \in 1 .. Len(b) : u[Len(a) + i] = b[i]
  BY ConcatFacts DEF Stream
<1>2. q + Len(u) <= Len(w) /\ \A i \in 1 .. Len(u) : w[q + i] = u[i]
  BY DEF Has
<1> HIDE DEF u
<1>3. Len(a) \in Nat /\ Len(b) \in Nat /\ Len(w) \in Nat
  BY StreamPositions
<1>4. Has(w, q, a) /\ q + Len(a) \in 0 .. Len(w)
  BY <1>1, <1>2, <1>3 DEF Has
<1>5. ASSUME NEW i \in 1 .. Len(b) PROVE w[(q + Len(a)) + i] = b[i]
  <2>1. Len(a) + i \in 1 .. Len(u) /\ (q + Len(a)) + i = q + (Len(a) + i)
    BY <1>1, <1>3
  <2>2. w[q + (Len(a) + i)] = u[Len(a) + i] /\ u[Len(a) + i] = b[i]
    BY <1>1, <1>2, <2>1
  <2> QED
    BY ONLY <2>1, <2>2, Zenon
<1>6. (q + Len(a)) + Len(b) <= Len(w)
  BY <1>1, <1>2, <1>3
<1> QED
  BY <1>1, <1>3, <1>4, <1>5, <1>6 DEF Has, u

\* What is left of a sequence after its beginning
After(p, c) == [i \in 1 .. Len(p) - Len(c) |-> p[Len(c) + i]]

LEMMA Suffix ==
    ASSUME NEW R, NEW p \in Seq(R), NEW c \in Seq(R), Len(c) <= Len(p),
           \A i \in 1 .. Len(c) : p[i] = c[i]
    PROVE  /\ After(p, c) \in Seq(R) /\ p = c \o After(p, c) /\ Len(p) = Len(c) + Len(After(p, c))
<1>1. Len(p) \in Nat /\ Len(c) \in Nat /\ \A i \in 1 .. Len(p) : p[i] \in R
  OBVIOUS
<1> DEFINE n == Len(p) - Len(c)
           r == After(p, c)
<1>2. n \in Nat /\ \A i \in 1 .. n : Len(c) + i \in 1 .. Len(p)
  BY <1>1
<1>3. r \in Seq(R) /\ Len(r) = n /\ \A i \in 1 .. n : r[i] = p[Len(c) + i]
  <2>1. r \in [1 .. n -> R] /\ \A i \in 1 .. n : r[i] = p[Len(c) + i]
    BY <1>1, <1>2 DEF After
  <2> HIDE DEF n, r
  <2>2. r \in Seq(R) /\ Len(r) = n
    BY <1>2, <2>1
  <2> QED
    BY <2>1, <2>2
<1> HIDE DEF r
<1> DEFINE q == c \o r
<1>4. /\ q \in Seq(R) /\ Len(q) = Len(c) + Len(r)
      /\ \A i \in 1 .. Len(c) : q[i] = c[i]
      /\ \A i \in 1 .. Len(r) : q[Len(c) + i] = r[i]
  BY <1>3, ConcatFacts
<1> HIDE DEF q
<1>5. Len(p) = Len(q)
  BY <1>1, <1>3, <1>4
<1>6. ASSUME NEW i \in 1 .. Len(p) PROVE p[i] = q[i]
  <2>1. CASE i <= Len(c)
    BY <1>1, <1>4, <2>1
  <2>2. CASE i > Len(c)
    <3>1. i - Len(c) \in 1 .. n /\ Len(c) + (i - Len(c)) = i
      BY <1>1, <2>2
    <3>2. q[Len(c) + (i - Len(c))] = r[i - Len(c)] /\ r[i - Len(c)] = p[Len(c) + (i - Len(c))]
      BY <1>3, <1>4, <3>1
    <3> QED
      BY ONLY <3>1, <3>2, Zenon
  <2> QED
    BY <1>1, <2>1, <2>2
<1>7. p = q
  BY <1>4, <1>5, <1>6, SeqEqual
<1>8. Len(p) = Len(c) + Len(r)
  BY <1>1, <1>3
<1> QED
  BY <1>3, <1>7, <1>8 DEF q, r

LEMMA ChunkSuffix ==
    ASSUME NEW p \in Chunks, NEW c \in Chunks, Len(c) <= Len(p),
           \A i \in 1 .. Len(c) : p[i] = c[i]
    PROVE  \E r \in Chunks : p = c \o r /\ Len(p) = Len(c) + Len(r)
<1> DEFINE R == [units : Stream, size : Nat]
<1>1. p \in Seq(R) /\ c \in Seq(R)
  BY DEF Chunks
<1> HIDE DEF R
<1>2. After(p, c) \in Seq(R) /\ p = c \o After(p, c) /\ Len(p) = Len(c) + Len(After(p, c))
  BY <1>1, Suffix
<1>3. After(p, c) \in Chunks
  BY <1>2 DEF Chunks, R
<1> QED
  BY <1>2, <1>3

\* One item after the other: an identifier and a value
LEMMA FieldCall ==
    ASSUME NEW c, Call(c, 1, 0), NEW v, NEW kids, Call(v, 1, kids)
    PROVE  Call(c \o v, 2, kids)
<1>1. c \in Chunks /\ v \in Chunks /\ Len(v) > 0 /\ Len(c) > 0 /\ kids \in Nat
  BY DEF Call
<1> DEFINE f == c \o v
           a == Units(c)
           b == Units(v)
<1>2. /\ f \in Chunks /\ Len(f) = Len(c) + Len(v) /\ Units(f) = a \o b
      /\ \A i \in 1 .. Len(c) : f[i] = c[i]
      /\ \A i \in 1 .. Len(v) : f[Len(c) + i] = v[i]
  BY <1>1, ChunkConcat, ChunksConcat
<1>3. a \in Stream /\ b \in Stream
  BY <1>1, ChunksTyped
<1>4. Len(c) \in Nat /\ Len(v) \in Nat
  BY <1>1, ChunkFacts
<1>5. ASSUME NEW w \in Stream, NEW q \in 0 .. Len(w), NEW k \in Nat, k >= 1, Has(w, q, a)
      PROVE  SkipItems(w, q, k) = SkipItems(w, q + Len(a), k - 1)
  <2>1. SkipItems(w, q, k) = SkipItems(w, q + Len(a), k - 1 + 0)
    BY <1>5 DEF Call
  <2>2. k - 1 + 0 = k - 1
    OBVIOUS
  <2> QED
    BY <2>1, <2>2
<1>6. ASSUME NEW w \in Stream, NEW q \in 0 .. Len(w), NEW k \in Nat, k >= 1, Has(w, q, b)
      PROVE  SkipItems(w, q, k) = SkipItems(w, q + Len(b), k - 1 + kids)
  BY <1>6 DEF Call
<1> HIDE DEF f, a, b
<1>7. ASSUME NEW w \in Stream, NEW q \in 0 .. Len(w), NEW k \in Nat, k >= 2, Has(w, q, Units(f))
      PROVE  SkipItems(w, q, k) = SkipItems(w, q + Len(Units(f)), k - 2 + kids)
  <2>1. /\ Has(w, q, a) /\ q + Len(a) \in 0 .. Len(w) /\ Has(w, q + Len(a), b)
        /\ Len(Units(f)) = Len(a) + Len(b) /\ Len(a) \in Nat /\ Len(b) \in Nat
    BY <1>2, <1>3, <1>7, HasConcat
  <2>2. SkipItems(w, q, k) = SkipItems(w, q + Len(a), k - 1)
    BY <1>5, <1>7, <2>1
  <2>3. SkipItems(w, q + Len(a), k - 1) = SkipItems(w, (q + Len(a)) + Len(b), (k - 1) - 1 + kids)
    <3>1. k - 1 \in Nat /\ k - 1 >= 1
      BY <1>7
    <3> QED
      BY <1>6, <2>1, <3>1
  <2>4. (q + Len(a)) + Len(b) = q + Len(Units(f)) /\ (k - 1) - 1 + kids = k - 2 + kids
    BY <1>1, <2>1
  <2> QED
    BY <2>2, <2>3, <2>4
<1>8. ASSUME NEW p \in Chunks, Cut(p, f), NEW w \in Stream, NEW q \in 0 .. Len(w), NEW k \in Nat,
             k >= 2, Has(w, q, Units(p)), Len(w) = q + Len(Units(p))
      PROVE  SkipItems(w, q, k).ret = "ENODATA"
  <2>1. Len(p) \in Nat /\ Len(p) < Len(f) /\ \A i \in 1 .. Len(p) : p[i] = f[i]
    BY <1>8, ChunkFacts DEF Cut
  <2>2. CASE Len(p) < Len(c)
    <3>1. Cut(p, c)
      <4>1. \A i \in 1 .. Len(p) : i \in 1 .. Len(c)
        BY <1>4, <2>1, <2>2
      <4>2. \A i \in 1 .. Len(p) : p[i] = c[i]
        BY ONLY <1>2, <2>1, <4>1, Zenon
      <4> QED
        BY <2>2, <4>2 DEF Cut
    <3>2. k >= 1
      BY <1>8
    <3> QED
      BY <1>8, <3>1, <3>2 DEF Call
  <2>3. CASE Len(c) <= Len(p)
    <3>1. \A i \in 1 .. Len(c) : p[i] = c[i]
      BY <1>2, <1>4, <2>1, <2>3
    <3>2. PICK r \in Chunks : p = c \o r /\ Len(p) = Len(c) + Len(r)
      BY <1>1, <1>8, <2>3, <3>1, ChunkSuffix
    <3>3. Cut(r, v)
      <4>1. Len(r) \in Nat
        BY ChunkFacts
      <4>2. Len(r) < Len(v)
        BY <1>2, <1>4, <2>1, <3>2, <4>1
      <4>3. ASSUME NEW i \in 1 .. Len(r) PROVE r[i] = v[i]
        <5>1. Len(c) + i \in 1 .. Len(p) /\ i \in 1 .. Len(v)
          BY <1>4, <3>2, <4>1, <4>2
        <5>2. (c \o r)[Len(c) + i] = r[i]
          BY <1>1, ChunkConcat
        <5> QED
          BY <1>2, <2>1, <3>2, <5>1, <5>2
      <4> QED
        BY <4>2, <4>3 DEF Cut
    <3> DEFINE z == Units(r)
    <3>4. z \in Stream /\ Units(p) = a \o z
      BY <1>1, <3>2, ChunksConcat, ChunksTyped DEF a
    <3> HIDE DEF z
    <3>5. /\ Has(w, q, a) /\ q + Len(a) \in 0 .. Len(w) /\ Has(w, q + Len(a), z)
          /\ Len(Units(p)) = Len(a) + Len(z) /\ Len(a) \in Nat /\ Len(z) \in Nat
      BY <1>3, <1>8, <3>4, HasConcat
    <3>6. SkipItems(w, q, k) = SkipItems(w, q + Len(a), k - 1)
      BY <1>5, <1>8, <3>5
    <3>7. k - 1 \in Nat /\ k - 1 >= 1 /\ Len(w) = (q + Len(a)) + Len(z)
      BY <1>8, <3>5
    <3>8. SkipItems(w, q + Len(a), k - 1).ret = "ENODATA"
      BY <3>3, <3>5, <3>7 DEF Call, z
    <3> QED
      BY <3>6, <3>8
  <2> QED
    BY <1>4, <2>1, <2>2, <2>3
<1>9. f \in Chunks /\ Len(f) > 0
  BY <1>1, <1>2, <1>4
<1> QED
  BY <1>1, <1>7, <1>8, <1>9 DEF Call, f
-----------------------------------------------------------------------------
(* What each function writes: how many items a decoder takes it for, and how   *)
(* many bytes it is.                                                           *)

Piece == [units : Stream, size : Nat]

LEMMA Tags ==
    ASSUME NEW kind \in Kind, NEW n \in Nat
    PROVE  /\ TagOf(kind, n) \in Piece /\ TagOf(kind, n).size = 1
           /\ TagOf(kind, n).units = << [kind |-> kind, n |-> n] >>
           /\ [kind |-> kind, n |-> n] \in Symbol
<1>1. [kind |-> kind, n |-> n] \in Symbol
  BY DEF Symbol
<1>2. << [kind |-> kind, n |-> n] >> \in Stream
  BY <1>1 DEF Stream
<1> QED
  BY <1>1, <1>2 DEF TagOf, Chunk, Piece

LEMMA Counts ==
    ASSUME NEW n \in Nat, NEW width \in Nat
    PROVE  /\ CountOf(n, width) \in Piece /\ CountOf(n, width).size = width
           /\ CountOf(n, width).units = << [kind |-> "atom", n |-> n] >>
           /\ [kind |-> "atom", n |-> n] \in Symbol
<1>1. [kind |-> "atom", n |-> n] \in Symbol
  BY DEF Symbol, Kind
<1>2. << [kind |-> "atom", n |-> n] >> \in Stream
  BY <1>1 DEF Stream
<1> QED
  BY <1>1, <1>2 DEF CountOf, Chunk, Piece

LEMMA Payloads ==
    ASSUME NEW n \in Nat
    PROVE  /\ PayloadOf(n) \in Piece /\ PayloadOf(n).size = n
           /\ Len(PayloadOf(n).units) = n
<1> DEFINE u == [i \in 1 .. n |-> [kind |-> "atom", n |-> 0]]
<1>1. u \in [1 .. n -> Symbol]
  BY DEF Symbol, Kind
<1> HIDE DEF u
<1>2. u \in Stream /\ Len(u) = n
  BY <1>1 DEF Stream
<1>3. PayloadOf(n) = [units |-> u, size |-> n]
  BY DEF PayloadOf, Chunk, u
<1> QED
  BY <1>2, <1>3 DEF Piece

LEMMA TagWrite ==
    ASSUME NEW kind \in Kind, NEW n \in Nat, kind \notin {"str", "bin", "arr", "map"},
           InLimits(kind, n), Pay(kind, n) = 0
    PROVE  /\ Call(<< TagOf(kind, n) >>, 1, Kids(kind, n))
           /\ Bytes(<< TagOf(kind, n) >>) = 1
<1> DEFINE a == TagOf(kind, n)
           s == [kind |-> kind, n |-> n]
           c == <<a>>
<1>1. a \in Piece /\ a.size = 1 /\ a.units = <<s>> /\ s \in Symbol
  BY Tags
<1>2. ~Counted(s) /\ s.kind = kind /\ s.n = n
  BY DEF Counted
<1> HIDE DEF a, s
<1>3. c \in Chunks /\ Len(c) = 1 /\ c[1] = a
  BY <1>1 DEF Chunks, Piece
<1> HIDE DEF c
<1>4. c[1].units = <<s>>
  BY <1>1, <1>3
<1>5. InLimits(s.kind, s.n) /\ Len(c) = 1 /\ Pay(s.kind, s.n) = 0
  BY <1>2, <1>3
<1>6. Call(c, 1, Kids(s.kind, s.n))
  BY <1>1, <1>2, <1>3, <1>4, <1>5, PlainCall
<1>7. Bytes(c) = 1
  BY <1>1, <1>3, OneChunk
<1> QED
  BY <1>2, <1>6, <1>7 DEF c, a

LEMMA PayloadWrite ==
    ASSUME NEW kind \in Kind, NEW n \in Nat, kind \notin {"str", "bin", "arr", "map"},
           InLimits(kind, n), Pay(kind, n) = n, n # 0
    PROVE  /\ Call(<< TagOf(kind, n), PayloadOf(n) >>, 1, Kids(kind, n))
           /\ Bytes(<< TagOf(kind, n), PayloadOf(n) >>) = 1 + n
<1> DEFINE a == TagOf(kind, n)
           b == PayloadOf(n)
           s == [kind |-> kind, n |-> n]
           c == <<a, b>>
<1>1. a \in Piece /\ a.size = 1 /\ a.units = <<s>> /\ s \in Symbol
  BY Tags
<1>2. ~Counted(s) /\ s.kind = kind /\ s.n = n
  BY DEF Counted
<1>3. b \in Piece /\ b.size = n /\ Len(b.units) = n
  BY Payloads
<1> HIDE DEF a, b, s
<1>4. c \in Chunks /\ Len(c) = 2 /\ c[1] = a /\ c[2] = b
  BY <1>1, <1>3 DEF Chunks, Piece
<1> HIDE DEF c
<1>5. c[1].units = <<s>>
  BY <1>1, <1>4
<1>6. InLimits(s.kind, s.n) /\ Pay(s.kind, s.n) # 0 /\ Len(c[2].units) = Pay(s.kind, s.n)
  BY <1>2, <1>3, <1>4
<1>7. Call(c, 1, Kids(s.kind, s.n))
  BY <1>1, <1>2, <1>4, <1>5, <1>6, PlainCall
<1>8. Bytes(c) = 1 + n
  BY <1>1, <1>3, <1>4, TwoChunks
<1> QED
  BY <1>2, <1>7, <1>8 DEF c, a, b

LEMMA CountWrite ==
    ASSUME NEW kind \in {"arr", "map"}, NEW n \in Nat, NEW width \in Nat, InLimits(kind, n)
    PROVE  /\ Call(<< TagOf(kind, 0), CountOf(n, width) >>, 1, Kids(kind, n))
           /\ Bytes(<< TagOf(kind, 0), CountOf(n, width) >>) = 1 + width
<1> DEFINE a == TagOf(kind, 0)
           b == CountOf(n, width)
           s == [kind |-> kind, n |-> 0]
           t == [kind |-> "atom", n |-> n]
           c == <<a, b>>
<1>0. kind \in Kind /\ Pay(kind, n) = 0
  BY DEF Kind, Pay
<1>1. a \in Piece /\ a.size = 1 /\ a.units = <<s>> /\ s \in Symbol
  BY <1>0, Tags
<1>2. Counted(s) /\ s.kind = kind /\ t.n = n
  BY DEF Counted
<1>3. b \in Piece /\ b.size = width /\ b.units = <<t>> /\ t \in Symbol
  BY Counts
<1> HIDE DEF a, b, s, t
<1>4. c \in Chunks /\ Len(c) = 2 /\ c[1] = a /\ c[2] = b
  BY <1>1, <1>3 DEF Chunks, Piece
<1> HIDE DEF c
<1>5. c[1].units = <<s>> /\ c[2].units = <<t>>
  BY <1>1, <1>3, <1>4
<1>6. InLimits(s.kind, t.n) /\ Pay(s.kind, t.n) = 0
  BY <1>0, <1>2
<1>7. Call(c, 1, Kids(s.kind, t.n))
  BY <1>1, <1>2, <1>3, <1>4, <1>5, <1>6, CountedCall
<1>8. Bytes(c) = 1 + width
  BY <1>1, <1>3, <1>4, TwoChunks
<1> QED
  BY <1>2, <1>7, <1>8 DEF c, a, b

LEMMA CountPayloadWrite ==
    ASSUME NEW kind \in {"str", "bin"}, NEW n \in Nat, NEW width \in Nat, InLimits(kind, n), n # 0
    PROVE  /\ Call(<< TagOf(kind, 0), CountOf(n, width), PayloadOf(n) >>, 1, 0)
           /\ Bytes(<< TagOf(kind, 0), CountOf(n, width), PayloadOf(n) >>) = 1 + width + n
<1> DEFINE a == TagOf(kind, 0)
           b == CountOf(n, width)
           d == PayloadOf(n)
           s == [kind |-> kind, n |-> 0]
           t == [kind |-> "atom", n |-> n]
           c == <<a, b, d>>
<1>0. kind \in Kind /\ Pay(kind, n) = n /\ Kids(kind, n) = 0
  BY DEF Kind, Pay, Kids
<1>1. a \in Piece /\ a.size = 1 /\ a.units = <<s>> /\ s \in Symbol
  BY <1>0, Tags
<1>2. Counted(s) /\ s.kind = kind /\ t.n = n
  BY DEF Counted
<1>3. b \in Piece /\ b.size = width /\ b.units = <<t>> /\ t \in Symbol
  BY Counts
<1>4. d \in Piece /\ d.size = n /\ Len(d.units) = n
  BY Payloads
<1> HIDE DEF a, b, d, s, t
<1>5. c \in Chunks /\ Len(c) = 3 /\ c[1] = a /\ c[2] = b /\ c[3] = d
  BY <1>1, <1>3, <1>4 DEF Chunks, Piece
<1> HIDE DEF c
<1>6. c[1].units = <<s>> /\ c[2].units = <<t>>
  BY <1>1, <1>3, <1>5
<1>7. InLimits(s.kind, t.n) /\ Pay(s.kind, t.n) # 0 /\ Len(c[3].units) = Pay(s.kind, t.n)
  BY <1>0, <1>2, <1>4, <1>5
<1>8. Call(c, 1, Kids(s.kind, t.n))
  BY <1>1, <1>2, <1>3, <1>5, <1>6, <1>7, CountedCall
<1>9. Bytes(c) = 1 + width + n
  BY <1>1, <1>3, <1>4, <1>5, ThreeChunks
<1> QED
  BY <1>0, <1>2, <1>8, <1>9 DEF c, a, b, d
\* What concatenation makes of explicit tuples
LEMMA LastOf ==
    ASSUME NEW S, NEW s \in Seq(S), NEW e \in S, NEW t \in Seq(S), Len(t) = Len(s) + 1,
           \A i \in 1 .. Len(s) : t[i] = s[i], t[Len(t)] = e
    PROVE  s \o <<e>> = t
<1>1. <<e>> \in Seq(S) /\ Len(<<e>>) = 1 /\ <<e>>[1] = e
  OBVIOUS
<1> DEFINE q == s \o <<e>>
<1>2. /\ q \in Seq(S) /\ Len(q) = Len(s) + Len(<<e>>)
      /\ \A i \in 1 .. Len(s) : q[i] = s[i]
      /\ \A i \in 1 .. Len(<<e>>) : q[Len(s) + i] = <<e>>[i]
  BY <1>1, ConcatFacts
<1> HIDE DEF q
<1>3. Len(s) \in Nat /\ Len(q) = Len(t) /\ q[Len(t)] = e
  <2>1. q[Len(s) + 1] = e
    BY <1>1, <1>2
  <2> QED
    BY <1>1, <1>2, <2>1
<1>4. ASSUME NEW i \in 1 .. Len(q) PROVE q[i] = t[i]
  <2>1. i \in 1 .. Len(s) \/ i = Len(t)
    BY <1>3
  <2> QED
    BY <1>2, <1>3, <2>1
<1>5. q = t
  BY <1>2, <1>3, <1>4, SeqEqual
<1> QED
  BY <1>5 DEF q

LEMMA Pair ==
    ASSUME NEW a \in Piece, NEW b \in Piece
    PROVE  <<a>> \o <<b>> = <<a, b>>
<1>1. <<a>> \in Seq(Piece) /\ <<a, b>> \in Seq(Piece)
  OBVIOUS
<1>2. Len(<<a, b>>) = Len(<<a>>) + 1 /\ <<a, b>>[Len(<<a, b>>)] = b
  OBVIOUS
<1>3. \A i \in 1 .. Len(<<a>>) : <<a, b>>[i] = <<a>>[i]
  OBVIOUS
<1> QED
  BY ONLY b \in Piece, <1>1, <1>2, <1>3, LastOf, Zenon

LEMMA Triple ==
    ASSUME NEW a \in Piece, NEW b \in Piece, NEW c \in Piece
    PROVE  <<a, b>> \o <<c>> = <<a, b, c>>
<1>1. <<a, b>> \in Seq(Piece) /\ <<a, b, c>> \in Seq(Piece)
  OBVIOUS
<1>2. Len(<<a, b, c>>) = Len(<<a, b>>) + 1 /\ <<a, b, c>>[Len(<<a, b, c>>)] = c
  OBVIOUS
<1>3. \A i \in 1 .. Len(<<a, b>>) : <<a, b, c>>[i] = <<a, b>>[i]
  OBVIOUS
<1> QED
  BY ONLY c \in Piece, <1>1, <1>2, <1>3, LastOf, Zenon

LEMMA ScalarCall ==
    ASSUME NEW width \in Nat
    PROVE  Call(Scalar(width), 1, 0) /\ Bytes(Scalar(width)) = ScalarSize(width)
<1>1. CASE width = 0
  <2>1. /\ "atom" \in Kind \ {"str", "bin", "arr", "map"} /\ InLimits("atom", 0)
        /\ Pay("atom", 0) = 0 /\ Kids("atom", 0) = 0
    BY DEF Kind, InLimits, Pay, Kids
  <2>2. Call(<< TagOf("atom", 0) >>, 1, 0) /\ Bytes(<< TagOf("atom", 0) >>) = 1
    BY <2>1, TagWrite
  <2> QED
    BY <1>1, <2>2 DEF Scalar, ScalarSize
<1>2. CASE width # 0
  <2>1. /\ "scalar" \in Kind \ {"str", "bin", "arr", "map"} /\ InLimits("scalar", width)
        /\ Pay("scalar", width) = width /\ Kids("scalar", width) = 0
    BY DEF Kind, InLimits, Pay, Kids
  <2>2. /\ Call(<< TagOf("scalar", width), PayloadOf(width) >>, 1, 0)
        /\ Bytes(<< TagOf("scalar", width), PayloadOf(width) >>) = 1 + width
    BY <1>2, <2>1, PayloadWrite
  <2> QED
    BY <1>2, <2>2 DEF Scalar, ScalarSize
<1> QED
  BY <1>1, <1>2

LEMMA StrCall ==
    ASSUME NEW len \in 1 .. StrMax
    PROVE  Call(EncodeStrFix(len), 1, 0) /\ Bytes(EncodeStrFix(len)) = StrConstSize(len)
<1>0. /\ len \in Nat /\ len # 0 /\ StrMax \in Nat
      /\ FixStrMax \in Nat /\ Str8Max \in Nat /\ Str16Max \in Nat
      /\ FixStrMax <= Str8Max /\ Str8Max <= Str16Max
  BY LimitsAssumption, ThresholdsAssumption
<1>1. CASE len <= FixStrMax
  <2>1. /\ "fixstr" \in Kind \ {"str", "bin", "arr", "map"} /\ InLimits("fixstr", len)
        /\ Pay("fixstr", len) = len /\ Kids("fixstr", len) = 0
    BY DEF Kind, InLimits, Pay, Kids
  <2> DEFINE a == TagOf("fixstr", len)
             d == PayloadOf(len)
  <2>2. Call(<<a, d>>, 1, 0) /\ Bytes(<<a, d>>) = 1 + len
    BY <1>0, <2>1, PayloadWrite
  <2>3. a \in Piece /\ d \in Piece
    BY <1>0, <2>1, Tags, Payloads
  <2>4. EncodeStrFix(len) = <<a>> \o <<d>>
    BY <1>1 DEF EncodeStrFix
  <2> HIDE DEF a, d
  <2>5. EncodeStrFix(len) = <<a, d>>
    BY <2>3, <2>4, Pair
  <2>6. StrConstSize(len) = 1 + len
    BY <1>0, <1>1 DEF StrConstSize
  <2> QED
    BY <2>2, <2>5, <2>6
<1>2. CASE len > FixStrMax
  <2>1. "str" \in Kind /\ InLimits("str", len)
    BY DEF Kind, InLimits
  <2> DEFINE a == TagOf("str", 0)
             b == CountOf(len, StrWidth(len))
             d == PayloadOf(len)
  <2>2. StrWidth(len) \in Nat /\ StrConstSize(len) = 1 + StrWidth(len) + len
    BY <1>0, <1>2 DEF StrWidth, StrConstSize
  <2>3. Call(<<a, b, d>>, 1, 0) /\ Bytes(<<a, b, d>>) = 1 + StrWidth(len) + len
    BY <1>0, <2>1, <2>2, CountPayloadWrite
  <2>4. a \in Piece /\ b \in Piece /\ d \in Piece
    BY <1>0, <2>1, <2>2, Tags, Counts, Payloads
  <2>5. EncodeStrFix(len) = <<a, b>> \o <<d>>
    BY <1>0, <1>2 DEF EncodeStrFix
  <2> HIDE DEF a, b, d
  <2>6. EncodeStrFix(len) = <<a, b, d>>
    BY <2>4, <2>5, Triple
  <2> QED
    BY <2>2, <2>3, <2>6
<1> QED
  BY <1>0, <1>1, <1>2

LEMMA BinCall ==
    ASSUME NEW size \in 1 .. BinMax
    PROVE  Call(EncodeBin(size), 1, 0) /\ Bytes(EncodeBin(size)) = BinConstSize(size)
<1>1. /\ size \in Nat /\ size # 0 /\ BinMax \in Nat
      /\ Bin8Max \in Nat /\ Bin16Max \in Nat /\ Bin8Max <= Bin16Max
  BY LimitsAssumption, ThresholdsAssumption
<1>2. InLimits("bin", size)
  BY DEF Kind, InLimits
<1>3. BinWidth(size) \in Nat /\ BinConstSize(size) = 1 + BinWidth(size) + size
  BY <1>1 DEF BinWidth, BinConstSize
<1> QED
  BY <1>1, <1>2, <1>3, CountPayloadWrite DEF EncodeBin

LEMMA ArrayCall ==
    ASSUME NEW nr \in 1 .. ElmMax
    PROVE  Call(ArrayBegin(nr), 1, nr) /\ Bytes(ArrayBegin(nr)) = HeadSize(nr)
<1>1. /\ nr \in Nat /\ ElmMax \in Nat /\ FixNrMax \in Nat /\ Nr16Max \in Nat /\ FixNrMax <= Nr16Max
  BY LimitsAssumption, ThresholdsAssumption
<1>2. CASE nr <= FixNrMax
  <2>1. /\ "fixarr" \in Kind \ {"str", "bin", "arr", "map"} /\ InLimits("fixarr", nr)
        /\ Pay("fixarr", nr) = 0 /\ Kids("fixarr", nr) = nr
    BY DEF Kind, InLimits, Pay, Kids
  <2> QED
    BY <1>1, <1>2, <2>1, TagWrite DEF ArrayBegin, HeadSize
<1>3. CASE nr > FixNrMax
  <2>1. InLimits("arr", nr) /\ Kids("arr", nr) = nr
    BY DEF Kind, InLimits, Kids
  <2>2. NrWidth(nr) \in Nat /\ HeadSize(nr) = 1 + NrWidth(nr)
    BY <1>1, <1>3 DEF NrWidth, HeadSize
  <2>3. ArrayBegin(nr) = << TagOf("arr", 0), CountOf(nr, NrWidth(nr)) >>
    BY <1>1, <1>3 DEF ArrayBegin
  <2> QED
    BY <1>1, <2>1, <2>2, <2>3, CountWrite
<1> QED
  BY <1>1, <1>2, <1>3

LEMMA MapCall ==
    ASSUME NEW nr \in 1 .. FldMax
    PROVE  Call(MapBegin(nr), 1, 2 * nr) /\ Bytes(MapBegin(nr)) = HeadSize(nr)
<1>1. /\ nr \in Nat /\ FldMax \in Nat /\ FixNrMax \in Nat /\ Nr16Max \in Nat /\ FixNrMax <= Nr16Max
  BY LimitsAssumption, ThresholdsAssumption
<1>2. CASE nr <= FixNrMax
  <2>1. /\ "fixmap" \in Kind \ {"str", "bin", "arr", "map"} /\ InLimits("fixmap", nr)
        /\ Pay("fixmap", nr) = 0 /\ Kids("fixmap", nr) = 2 * nr
    BY DEF Kind, InLimits, Pay, Kids
  <2> QED
    BY <1>1, <1>2, <2>1, TagWrite DEF MapBegin, HeadSize
<1>3. CASE nr > FixNrMax
  <2>1. InLimits("map", nr) /\ Kids("map", nr) = 2 * nr
    BY DEF Kind, InLimits, Kids
  <2>2. NrWidth(nr) \in Nat /\ HeadSize(nr) = 1 + NrWidth(nr)
    BY <1>1, <1>3 DEF NrWidth, HeadSize
  <2>3. MapBegin(nr) = << TagOf("map", 0), CountOf(nr, NrWidth(nr)) >>
    BY <1>1, <1>3 DEF MapBegin
  <2> QED
    BY <1>1, <2>1, <2>2, <2>3, CountWrite
<1> QED
  BY <1>1, <1>2, <1>3
-----------------------------------------------------------------------------
(* The items owed. *)

Frames == Seq(Frame)

\* What one collection owes, and what they all owe: Owed is Dues(frames).
Weight(f) == f.due * (IF f.kind = "map" THEN 2 ELSE 1)

Dues(fs) ==
    LET Upto[i \in 0 .. Len(fs)] == IF i = 0 THEN 0 ELSE Upto[i - 1] + Weight(fs[i])
    IN  Upto[Len(fs)]

LEMMA OwedIsDues == Owed = Dues(frames)
BY DEF Owed, Dues, Weight

LEMMA FrameFacts ==
    ASSUME NEW c \in Frames
    PROVE  Len(c) \in Nat /\ \A i \in 1 .. Len(c) : c[i] \in Frame
BY DEF Frames

LEMMA WeightFacts ==
    ASSUME NEW f \in Frame
    PROVE  /\ Weight(f) = IF f.kind = "map" THEN 2 * f.due ELSE f.due
           /\ Weight(f) \in Nat
<1>1. f.due \in Nat
  BY DEF Frame
<1>2. Weight(f) = IF f.kind = "map" THEN f.due * 2 ELSE f.due * 1
  BY DEF Weight
<1> QED
  BY <1>1, <1>2

LEMMA DuesEquation ==
    ASSUME NEW c \in Frames
    PROVE  \E g : /\ \A i \in 0 .. Len(c) : g[i] = IF i = 0 THEN 0 ELSE g[i - 1] + Weight(c[i])
                  /\ Dues(c) = g[Len(c)]
<1> DEFINE Solves(g, n) == g = [i \in 0 .. n |-> IF i = 0 THEN 0 ELSE g[i - 1] + Weight(c[i])]
           S == { n \in Nat : \E g : Solves(g, n) }
<1>1. 0 \in S
  <2>1. Solves([i \in 0 .. 0 |-> 0], 0)
    OBVIOUS
  <2> QED
    BY <2>1
<1>2. ASSUME NEW n \in S PROVE n + 1 \in S
  <2>1. PICK g : Solves(g, n)
    BY <1>2
  <2> DEFINE h == [i \in 0 .. n + 1 |-> IF i = n + 1 THEN g[n] + Weight(c[n + 1]) ELSE g[i]]
  <2>2. \A i \in 0 .. n : g[i] = IF i = 0 THEN 0 ELSE g[i - 1] + Weight(c[i])
    BY <2>1
  <2>3. ASSUME NEW i \in 0 .. n + 1 PROVE h[i] = IF i = 0 THEN 0 ELSE h[i - 1] + Weight(c[i])
    <3>1. CASE i = n + 1
      <4>1. i # 0 /\ i - 1 = n /\ n \in 0 .. n + 1 /\ n # n + 1
        BY <1>2, <3>1
      <4>2. h[i] = g[n] + Weight(c[n + 1]) /\ h[n] = g[n]
        BY <3>1, <4>1
      <4> HIDE DEF h
      <4> QED
        BY <3>1, <4>1, <4>2, Zenon
    <3>2. CASE i \in 0 .. n
      BY <1>2, <2>2, <3>2
    <3> QED
      BY <1>2, <3>1, <3>2
  <2>4. Solves(h, n + 1)
    BY <2>3
  <2> HIDE DEF h, Solves
  <2> QED
    BY <1>2, <2>4
<1>3. S = Nat
  <2> HIDE DEF Solves
  <2> QED
    BY <1>1, <1>2, Induction
<1> HIDE DEF Solves
<1>4. PICK g : Solves(g, Len(c))
  BY <1>3, FrameFacts
<1>5. Solves(CHOOSE h : Solves(h, Len(c)), Len(c))
  BY <1>4, Zenon
<1>6. Dues(c) = (CHOOSE h : Solves(h, Len(c)))[Len(c)]
  BY DEF Dues, Solves
<1> QED
  BY <1>5, <1>6 DEF Solves

LEMMA DuesStep ==
    ASSUME NEW c \in Frames, NEW d \in Frames, Len(d) = Len(c) + 1, \A i \in 1 .. Len(c) : d[i] = c[i]
    PROVE  Dues(d) = Dues(c) + Weight(d[Len(d)])
<1>1. PICK g : /\ \A i \in 0 .. Len(c) : g[i] = IF i = 0 THEN 0 ELSE g[i - 1] + Weight(c[i])
              /\ Dues(c) = g[Len(c)]
  BY DuesEquation
<1>2. PICK h : /\ \A i \in 0 .. Len(d) : h[i] = IF i = 0 THEN 0 ELSE h[i - 1] + Weight(d[i])
              /\ Dues(d) = h[Len(d)]
  BY DuesEquation
<1>3. Len(c) \in Nat
  BY FrameFacts
<1> DEFINE S == { i \in Nat : i <= Len(c) => g[i] = h[i] }
<1>4. 0 \in S
  BY <1>1, <1>2, <1>3
<1>5. ASSUME NEW n \in S PROVE n + 1 \in S
  <2> SUFFICES ASSUME n + 1 <= Len(c) PROVE g[n + 1] = h[n + 1]
    BY <1>5
  <2>1. n + 1 <= Len(c)
    OBVIOUS
  <2> QED
    <3>1. g[n] = h[n] /\ d[n + 1] = c[n + 1]
      BY <1>3, <1>5, <2>1
    <3>2. g[n + 1] = g[n] + Weight(c[n + 1]) /\ h[n + 1] = h[n] + Weight(d[n + 1])
      <4>1. n + 1 \in 0 .. Len(c) /\ n + 1 \in 0 .. Len(d) /\ n + 1 # 0 /\ (n + 1) - 1 = n
        BY <1>3, <1>5, <2>1
      <4>2. g[n + 1] = g[(n + 1) - 1] + Weight(c[n + 1])
        BY <1>1, <4>1
      <4>3. h[n + 1] = h[(n + 1) - 1] + Weight(d[n + 1])
        BY <1>2, <4>1
      <4> QED
        BY ONLY <4>1, <4>2, <4>3, Zenon
    <3> QED
      BY ONLY <3>1, <3>2, Zenon
<1>6. S = Nat
  BY <1>4, <1>5, Induction
<1>7. g[Len(c)] = h[Len(c)]
  BY <1>3, <1>6
<1>8. h[Len(d)] = h[Len(c)] + Weight(d[Len(d)])
  <2>1. Len(d) \in 0 .. Len(d) /\ Len(d) # 0 /\ Len(d) - 1 = Len(c)
    BY <1>3
  <2>2. h[Len(d)] = h[Len(d) - 1] + Weight(d[Len(d)])
    BY <1>2, <2>1
  <2> QED
    BY ONLY <2>1, <2>2, Zenon
<1> QED
  BY ONLY <1>1, <1>2, <1>7, <1>8, Zenon
LEMMA FrameFront ==
    ASSUME NEW c \in Frames, NEW n \in Nat, Len(c) = n + 1
    PROVE  /\ SubSeq(c, 1, n) \in Frames /\ Len(SubSeq(c, 1, n)) = n
           /\ \A i \in 1 .. n : SubSeq(c, 1, n)[i] = c[i]
           /\ Dues(c) = Dues(SubSeq(c, 1, n)) + Weight(c[n + 1])
<1> DEFINE f == SubSeq(c, 1, n)
<1>1. n \in 0 .. Len(c)
  OBVIOUS
<1>2. f \in Frames /\ Len(f) = n /\ \A i \in 1 .. n : f[i] = c[i]
  BY <1>1, Prefix DEF Frames
<1> HIDE DEF f
<1>3. Len(c) = Len(f) + 1 /\ \A i \in 1 .. Len(f) : c[i] = f[i]
  BY <1>2
<1>4. Dues(c) = Dues(f) + Weight(c[Len(c)])
  BY <1>2, <1>3, DuesStep
<1> QED
  BY <1>2, <1>4 DEF f

LEMMA DuesTyped ==
    ASSUME NEW c \in Frames
    PROVE  Dues(c) \in Nat
<1> DEFINE S == { n \in Nat : \A d \in Frames : Len(d) = n => Dues(d) \in Nat }
<1>1. 0 \in S
  <2> SUFFICES ASSUME NEW d \in Frames, Len(d) = 0 PROVE Dues(d) \in Nat
    OBVIOUS
  <2>1. 0 \in 0 .. Len(d)
    OBVIOUS
  <2>2. Dues(d) = 0
    BY <2>1, DuesEquation
  <2> QED
    BY <2>2
<1>2. ASSUME NEW n \in S PROVE n + 1 \in S
  <2>1. SUFFICES ASSUME NEW d \in Frames, Len(d) = n + 1 PROVE Dues(d) \in Nat
    BY <1>2
  <2> DEFINE f == SubSeq(d, 1, n)
  <2>2. n \in Nat /\ n + 1 \in 1 .. Len(d)
    BY <1>2, <2>1
  <2>3. f \in Frames /\ Len(f) = n /\ Dues(d) = Dues(f) + Weight(d[n + 1])
    BY <2>1, <2>2, FrameFront
  <2> HIDE DEF f
  <2>4. Weight(d[n + 1]) \in Nat
    BY <2>1, <2>2, FrameFacts, WeightFacts
  <2>5. Dues(f) \in Nat
    BY <1>2, <2>3
  <2> QED
    BY <2>3, <2>4, <2>5
<1>3. S = Nat
  BY <1>1, <1>2, Induction
<1> QED
  BY <1>3, FrameFacts

\* One element or field of the innermost collection was encoded.
Unpaid(f) == IF f.kind = "map" THEN 2 ELSE 1
OneLess(fs) == [fs EXCEPT ![Len(fs)].due = @ - 1]

LEMMA DuesPaid ==
    ASSUME NEW fs \in Frames, Len(fs) > 0, fs[Len(fs)].due > 0, NEW gs, gs = OneLess(fs)
    PROVE  /\ gs \in Frames /\ Len(gs) = Len(fs)
           /\ \A i \in 1 .. Len(fs) : /\ gs[i].kind = fs[i].kind /\ gs[i].nr = fs[i].nr
                                      /\ gs[i].start = fs[i].start /\ gs[i].data = fs[i].data
           /\ Dues(gs) = Dues(fs) - Unpaid(fs[Len(fs)])
           /\ Dues(fs) >= Unpaid(fs[Len(fs)])
<1> DEFINE n == Len(fs)
<1>1. n \in Nat /\ n \in 1 .. Len(fs) /\ n - 1 \in Nat /\ Len(fs) = (n - 1) + 1 /\ (n - 1) + 1 = n
  BY FrameFacts
<1>2. fs[n] \in Frame /\ fs[n].due \in Nat /\ fs[n].due > 0
  BY <1>1, FrameFacts DEF Frame
<1>3. gs \in Frames /\ Len(gs) = n
  <2>1. [fs[n] EXCEPT !.due = @ - 1] \in Frame
    BY <1>2 DEF Frame
  <2> QED
    BY <1>1, <2>1 DEF Frames, OneLess
<1>4. \A i \in 1 .. n : i # n => gs[i] = fs[i]
  BY <1>1 DEF Frames, OneLess
<1>5. gs[n] = [fs[n] EXCEPT !.due = @ - 1]
  BY <1>1 DEF Frames, OneLess
<1>6. /\ gs[n].due = fs[n].due - 1 /\ gs[n].kind = fs[n].kind /\ gs[n].nr = fs[n].nr
      /\ gs[n].start = fs[n].start /\ gs[n].data = fs[n].data
  BY <1>2, <1>5 DEF Frame
<1>7. \A i \in 1 .. n : /\ gs[i].kind = fs[i].kind /\ gs[i].nr = fs[i].nr
                        /\ gs[i].start = fs[i].start /\ gs[i].data = fs[i].data
  BY <1>4, <1>6
<1> DEFINE f == SubSeq(fs, 1, n - 1)
<1>8. /\ f \in Frames /\ Len(f) = n - 1 /\ \A i \in 1 .. n - 1 : f[i] = fs[i]
      /\ Dues(fs) = Dues(f) + Weight(fs[n])
  <2>1. Dues(fs) = Dues(f) + Weight(fs[(n - 1) + 1])
    BY <1>1, FrameFront
  <2> QED
    BY <1>1, <2>1, FrameFront
<1> HIDE DEF f
<1>9. Dues(gs) = Dues(f) + Weight(gs[n])
  <2>1. Len(gs) = Len(f) + 1 /\ \A i \in 1 .. Len(f) : gs[i] = f[i]
    <3>1. n \in Nat /\ Len(gs) = n /\ Len(f) = n - 1
      BY ONLY <1>1, <1>3, <1>8
    <3>2. ASSUME NEW i \in 1 .. n - 1 PROVE gs[i] = f[i]
      <4>1. i \in 1 .. n /\ i # n
        BY ONLY i \in 1 .. n - 1, <3>1
      <4> QED
        BY ONLY i \in 1 .. n - 1, <4>1, <1>4, <1>8
    <3> QED
      BY <3>1, <3>2
  <2> QED
    BY <1>3, <1>8, <2>1, DuesStep
<1>10. Weight(fs[n]) \in Nat /\ Weight(gs[n]) = Weight(fs[n]) - Unpaid(fs[n])
       /\ Weight(fs[n]) >= Unpaid(fs[n])
  <2>1. gs[n] \in Frame
    BY <1>1, <1>3, FrameFacts
  <2> DEFINE a == fs[n]
             b == gs[n]
  <2>2. /\ Weight(a) = (IF a.kind = "map" THEN 2 * a.due ELSE a.due)
        /\ Weight(b) = (IF b.kind = "map" THEN 2 * b.due ELSE b.due)
        /\ b.kind = a.kind /\ b.due = a.due - 1 /\ a.due \in Nat /\ a.due > 0
        /\ Unpaid(a) = (IF a.kind = "map" THEN 2 ELSE 1)
    BY <1>2, <1>6, <2>1, WeightFacts DEF Unpaid
  <2> HIDE DEF a, b
  <2>3. CASE a.kind = "map"
    <3>1. Weight(a) = 2 * a.due /\ Weight(b) = 2 * b.due /\ Unpaid(a) = 2
      BY ONLY <2>2, <2>3
    <3> QED
      BY <2>2, <3>1 DEF a, b
  <2>4. CASE a.kind # "map"
    <3>1. Weight(a) = a.due /\ Weight(b) = b.due /\ Unpaid(a) = 1
      BY ONLY <2>2, <2>4
    <3> QED
      BY <2>2, <3>1 DEF a, b
  <2> QED
    BY <2>3, <2>4
<1>11. Dues(f) \in Nat
  BY <1>8, DuesTyped
<1>12. Unpaid(fs[n]) \in Nat
  BY DEF Unpaid
<1>13. Dues(gs) = Dues(fs) - Unpaid(fs[n]) /\ Dues(fs) >= Unpaid(fs[n])
  <2> DEFINE x == Weight(fs[n])
             y == Weight(gs[n])
             z == Unpaid(fs[n])
  <2>1. /\ Dues(f) \in Nat /\ x \in Nat /\ z \in Nat /\ y = x - z /\ x >= z
        /\ Dues(fs) = Dues(f) + x /\ Dues(gs) = Dues(f) + y
    BY <1>8, <1>9, <1>10, <1>11, <1>12
  <2> HIDE DEF x, y, z
  <2>2. Dues(gs) = Dues(fs) - z /\ Dues(fs) >= z
    BY ONLY <2>1
  <2> QED
    BY <2>2 DEF z
<1> QED
  BY <1>3, <1>7, <1>13

\* A collection was begun.
LEMMA DuesBegun ==
    ASSUME NEW fs \in Frames, NEW f \in Frame
    PROVE  /\ Append(fs, f) \in Frames /\ Len(Append(fs, f)) = Len(fs) + 1
           /\ \A i \in 1 .. Len(fs) : Append(fs, f)[i] = fs[i]
           /\ Append(fs, f)[Len(fs) + 1] = f
           /\ Dues(Append(fs, f)) = Dues(fs) + Weight(f)
<1> DEFINE gs == Append(fs, f)
<1>1. /\ gs \in Frames /\ Len(gs) = Len(fs) + 1
      /\ \A i \in 1 .. Len(fs) : gs[i] = fs[i]
      /\ gs[Len(fs) + 1] = f
  BY AppendProperties DEF Frames
<1> HIDE DEF gs
<1>2. Dues(gs) = Dues(fs) + Weight(gs[Len(gs)])
  BY <1>1, DuesStep
<1> QED
  BY <1>1, <1>2 DEF gs

\* The messages that a decoder takes for an item of which k items are still to come.
Pending(b, k) ==
    /\ b \in Stream /\ k \in Nat
    /\ \A w \in Stream : Has(w, 0, b) => SkipItems(w, 0, 1) = SkipItems(w, Len(b), k)

LEMMA PendingStep ==
    ASSUME NEW b, NEW k, Pending(b, k), NEW c, NEW need, NEW kids, Call(c, need, kids), k >= need
    PROVE  Pending(b \o Units(c), k - need + kids)
<1>1. b \in Stream /\ k \in Nat /\ c \in Chunks /\ need \in Nat /\ kids \in Nat
  BY DEF Pending, Call
<1> DEFINE u == Units(c)
<1>2. u \in Stream
  BY <1>1, ChunksTyped
<1>3. b \o u \in Stream
  BY <1>1, <1>2, ConcatProperties DEF Stream
<1>4. ASSUME NEW w \in Stream, NEW q \in 0 .. Len(w), Has(w, q, u)
      PROVE  SkipItems(w, q, k) = SkipItems(w, q + Len(u), k - need + kids)
  BY <1>1, <1>4 DEF Call
<1> HIDE DEF u
<1>5. ASSUME NEW w \in Stream, Has(w, 0, b \o u)
      PROVE  SkipItems(w, 0, 1) = SkipItems(w, Len(b \o u), k - need + kids)
  <2>1. 0 \in 0 .. Len(w)
    BY StreamPositions
  <2>2. /\ Has(w, 0, b) /\ 0 + Len(b) \in 0 .. Len(w) /\ Has(w, 0 + Len(b), u)
        /\ Len(b \o u) = Len(b) + Len(u) /\ Len(b) \in Nat /\ Len(u) \in Nat
    BY <1>1, <1>2, <1>5, <2>1, HasConcat
  <2>3. SkipItems(w, 0, 1) = SkipItems(w, Len(b), k)
    BY <2>2 DEF Pending
  <2>4. 0 + Len(b) = Len(b)
    BY <2>2
  <2>5. SkipItems(w, Len(b), k) = SkipItems(w, Len(b) + Len(u), k - need + kids)
    BY <1>4, <2>2, <2>4
  <2> QED
    BY <2>2, <2>3, <2>5
<1>6. k - need + kids \in Nat
  BY <1>1
<1> QED
  BY <1>3, <1>5, <1>6 DEF Pending, u

LEMMA PendingCut ==
    ASSUME NEW b, NEW k, Pending(b, k), NEW c, NEW need, NEW kids, Call(c, need, kids), k >= need,
           NEW p \in Chunks, Cut(p, c)
    PROVE  /\ b \o Units(p) \in Stream
           /\ SkipItems(b \o Units(p), 0, 1).ret = "ENODATA"
<1>1. b \in Stream /\ k \in Nat /\ c \in Chunks /\ need \in Nat /\ kids \in Nat
  BY DEF Pending, Call
<1> DEFINE u == Units(p)
           w == b \o u
<1>2. u \in Stream
  BY ChunksTyped
<1>3. /\ w \in Stream /\ Len(w) = Len(b) + Len(u)
      /\ \A i \in 1 .. Len(b) : w[i] = b[i]
      /\ \A i \in 1 .. Len(u) : w[Len(b) + i] = u[i]
  BY <1>1, <1>2, ConcatFacts DEF Stream
<1>4. ASSUME NEW x \in Stream, NEW q \in 0 .. Len(x), Has(x, q, u), Len(x) = q + Len(u)
      PROVE  SkipItems(x, q, k).ret = "ENODATA"
  BY <1>1, <1>4 DEF Call
<1> HIDE DEF u, w
<1>5. Len(b) \in Nat /\ Len(u) \in Nat
  BY <1>1, <1>2, StreamPositions
<1>6. Has(w, 0, b) /\ Has(w, Len(b), u) /\ Len(b) \in 0 .. Len(w)
  BY <1>3, <1>5 DEF Has
<1>7. SkipItems(w, 0, 1) = SkipItems(w, Len(b), k)
  BY <1>3, <1>6 DEF Pending
<1>8. SkipItems(w, Len(b), k).ret = "ENODATA"
  BY <1>3, <1>4, <1>6
<1> QED
  BY <1>3, <1>7, <1>8 DEF w, u
-----------------------------------------------------------------------------
(* The inductive invariant. *)

\* The frames of a message: below them all the message itself, each collection after
\* its own tag and count, and none past the last byte.
Framing(fs, bytes) ==
    /\ fs \in Frames /\ Len(fs) \in 1 .. MaxDepth + 1
    /\ fs[1].kind = "message"
    /\ \A i \in 1 .. Len(fs) :
          /\ fs[i].data <= bytes
          /\ fs[i].kind # "message" => fs[i].data = fs[i].start + HeadSize(fs[i].nr)

Framed == Framing(frames, used)

\* A decoder of what was written waits for the items owed, or for those that the write
\* refused would have brought.
Balance ==
    /\ ret = "OK" => Pending(buf, Dues(frames))
    /\ ret = "EMSGSIZE" => SkipItems(buf, 0, 1).ret = "ENODATA"

\* The last call took what was announced.
Announced ==
    IF ret = "OK" THEN used - quote.from \in quote.min .. quote.max
    ELSE quote.from + quote.max > capa

Inv == TypeOK /\ Framed /\ Balance /\ Announced

LEMMA BufIsStream ==
    ASSUME NEW b
    PROVE  b \in Seq([kind : Kind, n : Nat]) <=> b \in Stream
BY DEF Stream, Symbol

LEMMA InvHolds ==
    ASSUME Inv
    PROVE  /\ capa \in Capacity /\ capa \in Nat /\ used \in Nat /\ used <= capa
           /\ buf \in Stream /\ ret \in {"OK", "EMSGSIZE"} /\ quote \in Quote
           /\ frames \in Frames /\ Len(frames) \in Nat /\ Len(frames) > 0
           /\ Len(frames) <= MaxDepth + 1 /\ Top \in Frame /\ MaxDepth \in Nat
<1>1. TypeOK /\ Framed
  BY DEF Inv
<1>2. /\ capa \in Capacity /\ capa \in Nat /\ used \in Nat /\ used <= capa
      /\ ret \in {"OK", "EMSGSIZE"} /\ quote \in Quote /\ MaxDepth \in Nat
  BY <1>1, ThresholdsAssumption DEF TypeOK
<1>3. buf \in Stream
  BY <1>1, BufIsStream DEF TypeOK
<1>4. frames \in Frames /\ Len(frames) \in 1 .. MaxDepth + 1
  BY <1>1 DEF Framed, Framing
<1>5. Len(frames) \in Nat /\ Len(frames) > 0 /\ Len(frames) <= MaxDepth + 1
  BY <1>2, <1>4, FrameFacts
<1>6. Top \in Frame
  BY <1>4, <1>5, FrameFacts DEF Top
<1> QED
  BY <1>2, <1>3, <1>4, <1>5, <1>6

\* The write that is refused: those before it fitted.
LEMMA RefusedFacts ==
    ASSUME Inv, NEW c \in Chunks, ~Fits(c)
    PROVE  /\ SubSeq(c, 1, Refused(c) - 1) \in Chunks
           /\ Cut(SubSeq(c, 1, Refused(c) - 1), c)
           /\ Fits(SubSeq(c, 1, Refused(c) - 1))
<1> DEFINE Front(n) == SubSeq(c, 1, n)
           T == { n \in Nat : n \in 1 .. Len(c) /\ ~Fits(Front(n)) }
<1>1. Len(c) \in Nat
  BY ChunkFacts
<1>2. ASSUME NEW n \in 0 .. Len(c)
      PROVE  Front(n) \in Chunks /\ Len(Front(n)) = n /\ \A i \in 1 .. n : Front(n)[i] = c[i]
  BY ChunkPrefix
<1>3. Fits(Front(0))
  <2>1. Front(0) \in Chunks /\ Len(Front(0)) = 0
    BY <1>1, <1>2
  <2>2. Bytes(Front(0)) = 0
    BY <2>1, NoChunk
  <2> QED
    BY <2>2, InvHolds DEF Fits
<1>4. Front(Len(c)) = c
  <2>1. Len(c) \in 0 .. Len(c)
    BY <1>1
  <2> DEFINE h == Front(Len(c))
  <2>2. h \in Chunks /\ Len(h) = Len(c) /\ \A i \in 1 .. Len(c) : h[i] = c[i]
    BY <1>2, <2>1
  <2> HIDE DEF h
  <2>3. h = c
    BY <2>2, SeqEqual DEF Chunks
  <2> QED
    BY <2>3 DEF h
<1> HIDE DEF Front
<1>5. Len(c) \in T
  <2>1. Len(c) # 0
    BY <1>3, <1>4
  <2> QED
    BY <1>1, <1>4, <2>1
<1>6. PICK n \in T : \A m \in T : n <= m
  <2>1. T \in SUBSET Nat /\ T # {}
    BY <1>5
  <2> HIDE DEF T
  <2> QED
    BY <2>1, Least
<1>7. n \in DOMAIN c /\ ~Fits(Front(n)) /\ Fits(Front(n - 1))
  <2>1. n - 1 \notin T /\ n \in 1 .. Len(c)
    BY <1>6
  <2>2. Fits(Front(n - 1))
    <3>1. CASE n = 1
      BY <1>3, <3>1
    <3>2. CASE n # 1
      BY <1>1, <2>1, <3>2
    <3> QED
      BY <3>1, <3>2
  <2> QED
    BY <1>6, <2>1, <2>2 DEF Chunks
<1>8. LET r == Refused(c) IN r \in DOMAIN c /\ ~Fits(Front(r)) /\ Fits(Front(r - 1))
  BY <1>7 DEF Refused, Front
<1>9. Refused(c) \in 1 .. Len(c)
  BY <1>8 DEF Chunks
<1> DEFINE r == Refused(c)
<1>10. r \in 1 .. Len(c) /\ Fits(Front(r - 1))
  BY <1>8, <1>9
<1> HIDE DEF r
<1>11. r - 1 \in 0 .. Len(c) /\ r - 1 < Len(c)
  BY <1>1, <1>10
<1>12. Front(r - 1) \in Chunks /\ Cut(Front(r - 1), c)
  <2> DEFINE h == Front(r - 1)
  <2>1. h \in Chunks /\ Len(h) = r - 1 /\ \A i \in 1 .. r - 1 : h[i] = c[i]
    BY <1>2, <1>11
  <2> HIDE DEF h
  <2> QED
    BY <1>11, <2>1 DEF Cut, h
<1> QED
  BY <1>10, <1>12 DEF Front, r

\* Whatever the writes of a call, and wherever the first one refused is.
LEMMA WriteKeeps ==
    ASSUME Inv, NEW c, NEW need, NEW kids, Call(c, need, kids), need <= Dues(frames),
           NEW lo \in Nat, NEW hi \in Nat, Bytes(c) \in lo .. hi,
           NEW rest, Framing(rest, used + Bytes(c)), Dues(rest) = Dues(frames) - need + kids,
           Write(c, lo, hi, rest)
    PROVE  Inv'
<1>1. c \in Chunks /\ need \in Nat /\ Bytes(c) \in Nat /\ Units(c) \in Stream
  BY ChunksTyped DEF Call
<1>2. /\ ret = "OK" /\ capa' = capa
      /\ quote' = [from |-> used, min |-> lo, max |-> hi]
  BY DEF Write
<1>3. /\ capa \in Capacity /\ capa \in Nat /\ used \in Nat /\ used <= capa
      /\ buf \in Stream /\ frames \in Frames /\ Len(frames) <= MaxDepth + 1
  BY InvHolds
<1>4. quote' \in Quote /\ quote'.from = used /\ quote'.min = lo /\ quote'.max = hi
  BY <1>2, <1>3 DEF Quote
<1>5. Pending(buf, Dues(frames))
  BY <1>2 DEF Inv, Balance
<1>6. CASE /\ Fits(c)
           /\ used' = used + Bytes(c)
           /\ buf' = buf \o Units(c)
           /\ frames' = rest
           /\ ret' = ret
  <2>1. used' \in 0 .. capa'
    BY <1>1, <1>2, <1>3, <1>6 DEF Fits
  <2>2. Framed'
    <3>1. Framing(frames', used')
      BY <1>6
    <3> QED
      BY <3>1 DEF Framed, Framing
  <2>3. Pending(buf', Dues(frames'))
    <3>1. Pending(buf \o Units(c), Dues(frames) - need + kids)
      <4>1. Dues(frames) >= need
        BY <1>1, <1>3, DuesTyped
      <4> QED
        BY <1>5, <4>1, PendingStep
    <3> QED
      BY <1>6, <3>1
  <2>4. TypeOK'
    <3>1. buf' \in Stream
      BY <2>3 DEF Pending
    <3>2. buf' \in Seq([kind : Kind, n : Nat])
      BY <3>1 DEF Stream, Symbol
    <3>3. frames' \in Frames /\ Len(frames') \in 1 .. MaxDepth + 1
      BY <2>2 DEF Framed, Framing
    <3> QED
      BY <1>2, <1>3, <1>4, <1>6, <2>1, <3>2, <3>3 DEF TypeOK, Frames
  <2>5. Balance'
    <3>1. ret' = "OK"
      BY <1>2, <1>6
    <3> QED
      BY <2>3, <3>1 DEF Balance
  <2>6. Announced'
    <3>1. used' - quote'.from \in quote'.min .. quote'.max
      BY <1>1, <1>3, <1>4, <1>6
    <3> QED
      BY <1>2, <1>6, <3>1 DEF Announced
  <2> QED
    BY <2>2, <2>4, <2>5, <2>6 DEF Inv
<1>7. CASE /\ ~Fits(c)
           /\ LET done == SubSeq(c, 1, Refused(c) - 1) IN
                /\ used' = used + Bytes(done)
                /\ buf' = buf \o Units(done)
           /\ ret' = "EMSGSIZE"
           /\ frames' = frames
  <2> DEFINE done == SubSeq(c, 1, Refused(c) - 1)
  <2>1. done \in Chunks /\ Cut(done, c) /\ Fits(done)
    BY <1>1, <1>7, RefusedFacts
  <2>2. used' = used + Bytes(done) /\ buf' = buf \o Units(done)
    BY <1>7
  <2> HIDE DEF done
  <2>3. Bytes(done) \in Nat
    BY <2>1, ChunksTyped
  <2>4. used' \in 0 .. capa' /\ used' >= used /\ used' \in Nat
    BY <1>2, <1>3, <2>1, <2>2, <2>3 DEF Fits
  <2>5. buf' \in Stream /\ SkipItems(buf', 0, 1).ret = "ENODATA"
    <3>1. Dues(frames) >= need
      BY <1>1, <1>3, DuesTyped
    <3> QED
      BY <1>5, <2>1, <2>2, <3>1, PendingCut
  <2>6. Framed'
    <3>1. Framing(frames, used)
      BY DEF Inv, Framed
    <3>2. \A i \in 1 .. Len(frames) : frames[i].data \in Nat
      BY <1>3, FrameFacts DEF Frame
    <3>3. \A i \in 1 .. Len(frames) : frames[i].data <= used'
      BY <1>3, <2>4, <3>1, <3>2 DEF Framing
    <3>4. Framing(frames, used')
      BY <3>1, <3>3 DEF Framing
    <3> QED
      BY <1>7, <3>4 DEF Framed, Framing
  <2>7. TypeOK'
    <3>1. buf' \in Seq([kind : Kind, n : Nat])
      BY <2>5 DEF Stream, Symbol
    <3>2. frames' \in Frames /\ Len(frames') \in 1 .. MaxDepth + 1
      BY <2>6 DEF Framed, Framing
    <3> QED
      BY <1>2, <1>3, <1>4, <1>7, <2>4, <3>1, <3>2 DEF TypeOK, Frames
  <2>8. Balance'
    BY <1>7, <2>5 DEF Balance
  <2>9. Announced'
    <3>1. used + Bytes(c) > capa
      BY <1>1, <1>3, <1>7 DEF Fits
    <3>2. quote'.from + quote'.max > capa'
      BY <1>1, <1>2, <1>3, <1>4, <3>1
    <3> QED
      BY <1>7, <3>2 DEF Announced
  <2> QED
    BY <2>6, <2>7, <2>8, <2>9 DEF Inv
<1> QED
  BY <1>6, <1>7 DEF Write
\* What the application has encoded once one more call is done
LEMMA PaidFacts ==
    ASSUME Inv, Top.due > 0, NEW bytes \in Nat
    PROVE  /\ Paid \in Frames /\ Len(Paid) = Len(frames)
           /\ Framing(Paid, used + bytes)
           /\ Unpaid(Top) <= Dues(frames) /\ Dues(Paid) = Dues(frames) - Unpaid(Top)
<1>1. /\ frames \in Frames /\ Len(frames) \in Nat /\ Len(frames) > 0 /\ used \in Nat
  BY InvHolds
<1>2. frames[Len(frames)].due > 0
  BY DEF Top
<1> DEFINE gs == Paid
<1>3. gs = OneLess(frames)
  BY DEF Paid, OneLess
<1> HIDE DEF gs
<1>4. /\ gs \in Frames /\ Len(gs) = Len(frames)
      /\ \A i \in 1 .. Len(frames) :
            /\ gs[i].kind = frames[i].kind /\ gs[i].nr = frames[i].nr
            /\ gs[i].start = frames[i].start /\ gs[i].data = frames[i].data
      /\ Dues(gs) = Dues(frames) - Unpaid(frames[Len(frames)])
      /\ Dues(frames) >= Unpaid(frames[Len(frames)])
  BY ONLY <1>1, <1>2, <1>3, DuesPaid
<1>5. Framing(frames, used)
  BY DEF Inv, Framed
<1>6. \A i \in 1 .. Len(frames) : frames[i].data \in Nat
  BY <1>1, FrameFacts DEF Frame
<1>7. \A i \in 1 .. Len(frames) : frames[i].data <= used + bytes
  BY <1>1, <1>5, <1>6 DEF Framing
<1>8. 1 \in 1 .. Len(frames)
  BY <1>1
<1>9. Framing(gs, used + bytes)
  BY <1>4, <1>5, <1>7, <1>8 DEF Framing
<1>10. Unpaid(Top) \in Nat /\ Dues(frames) \in Nat /\ Top = frames[Len(frames)]
  BY <1>1, DuesTyped DEF Unpaid, Top
<1> QED
  BY <1>4, <1>9, <1>10 DEF gs

\* ... and the collection that it began.
LEMMA BeganFacts ==
    ASSUME Inv, Top.due > 0, Len(frames) <= MaxDepth, NEW kind \in {"array", "map"}, NEW nr \in Nat,
           NEW before \in Nat, NEW begin, Bytes(begin) = HeadSize(nr),
           NEW fs, fs = Began(kind, nr, before, begin), NEW bytes, bytes = before + Bytes(begin)
    PROVE  /\ Framing(fs, used + bytes)
           /\ Dues(fs) = Dues(frames) - Unpaid(Top) + (IF kind = "map" THEN 2 * nr ELSE nr)
<1> DEFINE f == [kind |-> kind, nr |-> nr, due |-> nr, start |-> used + before,
                 data |-> used + before + Bytes(begin)]
           gs == Paid
<1>1. /\ used \in Nat /\ HeadSize(nr) \in Nat /\ bytes \in Nat
      /\ Len(frames) \in Nat /\ Len(frames) > 0 /\ MaxDepth \in Nat
  BY InvHolds DEF HeadSize
<1>2. /\ f \in Frame /\ f.kind = kind /\ f.nr = nr /\ f.due = nr
      /\ f.start = used + before /\ f.data = used + before + HeadSize(nr)
  BY <1>1 DEF Frame
<1>3. fs = Append(gs, f)
  BY DEF Began
<1>4. /\ gs \in Frames /\ Len(gs) = Len(frames) /\ Framing(gs, used + bytes)
      /\ Dues(gs) = Dues(frames) - Unpaid(Top)
  BY <1>1, PaidFacts
<1> HIDE DEF f, gs
<1>5. /\ fs \in Frames /\ Len(fs) = Len(gs) + 1
      /\ \A i \in 1 .. Len(gs) : fs[i] = gs[i]
      /\ fs[Len(gs) + 1] = f
      /\ Dues(fs) = Dues(gs) + Weight(f)
  BY <1>2, <1>3, <1>4, DuesBegun
<1>6. Weight(f) = IF kind = "map" THEN 2 * nr ELSE nr
  BY <1>2, WeightFacts
<1>7. /\ f.data <= used + bytes /\ f.kind # "message" /\ f.data = f.start + HeadSize(f.nr)
  BY <1>1, <1>2
<1>8. Framing(fs, used + bytes)
  <2>1. ASSUME NEW i \in 1 .. Len(fs)
        PROVE  /\ fs[i].data <= used + bytes
               /\ fs[i].kind # "message" => fs[i].data = fs[i].start + HeadSize(fs[i].nr)
    <3>1. CASE i \in 1 .. Len(gs)
      BY <1>4, <1>5, <3>1 DEF Framing
    <3>2. CASE i = Len(gs) + 1
      BY <1>5, <1>7, <3>2
    <3> QED
      BY <1>1, <1>4, <1>5, <3>1, <3>2
  <2>2. fs[1].kind = "message" /\ Len(fs) \in 1 .. MaxDepth + 1
    <3>1. 1 \in 1 .. Len(gs)
      BY <1>1, <1>4
    <3> QED
      BY <1>1, <1>4, <1>5, <3>1 DEF Framing
  <2> QED
    BY <1>5, <2>1, <2>2 DEF Framing
<1> QED
  BY <1>4, <1>5, <1>6, <1>8

\* An element, or the message itself
LEMMA ItemKeeps ==
    ASSUME Inv, NEW c, Call(c, 1, 0), NEW lo \in Nat, NEW hi \in Nat, Bytes(c) \in lo .. hi,
           Item(c, lo, hi)
    PROVE  Inv'
<1>1. Write(c, lo, hi, Paid) /\ Top.due > 0 /\ Top.kind # "map" /\ Bytes(c) \in Nat
  BY DEF Item, Write, InItems
<1>2. PICK rest : rest = Paid
  OBVIOUS
<1>3. /\ Framing(rest, used + Bytes(c))
      /\ 1 <= Dues(frames) /\ Dues(rest) = Dues(frames) - 1
  BY <1>1, <1>2, PaidFacts DEF Unpaid
<1>4. Dues(rest) = Dues(frames) - 1 + 0
  BY <1>3, InvHolds, DuesTyped
<1> QED
  BY <1>1, <1>2, <1>3, <1>4, WriteKeeps

\* The most there can be
LEMMA Widest ==
    ASSUME NEW W \in SUBSET (0 .. 8), W # {}
    PROVE  LET m == CHOOSE w \in W : \A v \in W : v <= w
           IN  m \in W /\ \A v \in W : v <= m
<1> DEFINE T == { n \in 0 .. 8 : 8 - n \in W }
<1>1. T \in SUBSET Nat /\ T # {}
  <2>1. PICK w \in W : TRUE
    OBVIOUS
  <2>2. 8 - w \in 0 .. 8 /\ 8 - (8 - w) = w
    BY <2>1
  <2>3. 8 - w \in T
    BY <2>1, <2>2
  <2>4. T \in SUBSET Nat
    OBVIOUS
  <2> HIDE DEF T
  <2> QED
    BY <2>3, <2>4
<1>2. PICK n \in T : \A m \in T : n <= m
  <2> HIDE DEF T
  <2> QED
    BY <1>1, Least
<1>3. 8 - n \in W /\ \A v \in W : v <= 8 - n
  <2> SUFFICES ASSUME NEW v \in W PROVE v <= 8 - n
    BY <1>2
  <2>1. 8 - v \in T /\ v \in 0 .. 8 /\ n \in 0 .. 8
    BY <1>2
  <2>2. n <= 8 - v
    BY <1>2, <2>1
  <2> QED
    BY <2>1, <2>2
<1> QED
  BY <1>3

LEMMA FieldIdSizes ==
    /\ FieldIdMin \in Nat /\ FieldIdMax \in Nat
    /\ \A w \in IdWidth : ScalarSize(w) \in FieldIdMin .. FieldIdMax
<1>1. IdWidth \in SUBSET (0 .. 8) /\ IdWidth # {}
  BY ThresholdsAssumption
<1>2. PICK m : m = CHOOSE w \in IdWidth : \A v \in IdWidth : v <= w
  OBVIOUS
<1>3. m \in IdWidth /\ \A v \in IdWidth : v <= m
  BY <1>1, <1>2, Widest
<1>4. FieldIdMin = 1 /\ FieldIdMax = 1 + m
  BY <1>2 DEF FieldIdMin, FieldIdMax, ScalarSize
<1> QED
  BY <1>1, <1>3, <1>4 DEF ScalarSize

LEMMA IntSizes ==
    /\ IntMin \in Nat /\ IntMax \in Nat
    /\ \A w \in IntWidth : ScalarSize(w) \in IntMin .. IntMax
<1>1. IntWidth \in SUBSET (0 .. 8) /\ IntWidth # {}
  BY ThresholdsAssumption
<1>2. PICK m : m = CHOOSE w \in IntWidth : \A v \in IntWidth : v <= w
  OBVIOUS
<1>3. m \in IntWidth /\ \A v \in IntWidth : v <= m
  BY <1>1, <1>2, Widest
<1>4. IntMin = 1 /\ IntMax = 1 + m
  BY <1>2 DEF IntMin, IntMax, ScalarSize
<1> QED
  BY <1>1, <1>3, <1>4 DEF ScalarSize

\* The identifier of a field, and a value or the beginning of a collection
LEMMA FieldFacts ==
    ASSUME NEW id \in IdWidth, NEW v, NEW kids, Call(v, 1, kids), NEW lo \in Nat, NEW hi \in Nat,
           Bytes(v) \in lo .. hi
    PROVE  /\ Call(Field(id, v), 2, kids)
           /\ Bytes(Field(id, v)) = Bytes(FieldId(id)) + Bytes(v)
           /\ Bytes(Field(id, v)) \in FieldIdMin + lo .. FieldIdMax + hi
           /\ FieldIdMin + lo \in Nat /\ FieldIdMax + hi \in Nat
           /\ Bytes(FieldId(id)) \in Nat
<1> DEFINE c == FieldId(id)
<1>1. id \in Nat
  BY ThresholdsAssumption
<1>2. Call(c, 1, 0) /\ Bytes(c) = ScalarSize(id)
  BY <1>1, ScalarCall DEF FieldId
<1>3. /\ FieldIdMin \in Nat /\ FieldIdMax \in Nat
      /\ ScalarSize(id) \in FieldIdMin .. FieldIdMax
  BY FieldIdSizes
<1>4. Field(id, v) = c \o v
  BY DEF Field
<1> HIDE DEF c
<1>5. Call(Field(id, v), 2, kids)
  BY <1>2, <1>4, FieldCall
<1>6. Bytes(Field(id, v)) = Bytes(c) + Bytes(v)
  <2>1. c \in Chunks /\ v \in Chunks
    BY <1>2 DEF Call
  <2> QED
    BY <1>4, <2>1, ChunksConcat
<1>7. Bytes(c) \in Nat
  BY <1>2, <1>3
<1> QED
  BY <1>2, <1>3, <1>5, <1>6, <1>7 DEF c

LEMMA FieldKeeps ==
    ASSUME Inv, NEW v, Call(v, 1, 0), NEW lo \in Nat, NEW hi \in Nat, Bytes(v) \in lo .. hi,
           MapField(v, lo, hi)
    PROVE  Inv'
<1>1. PICK id \in IdWidth : Write(Field(id, v), FieldIdMin + lo, FieldIdMax + hi, Paid)
  BY DEF MapField
<1>2. PICK c : c = Field(id, v)
  OBVIOUS
<1>3. Top.due > 0 /\ Top.kind = "map"
  BY <1>1 DEF MapField, InMap, Write
<1>4. /\ Call(c, 2, 0) /\ Bytes(c) \in FieldIdMin + lo .. FieldIdMax + hi
      /\ FieldIdMin + lo \in Nat /\ FieldIdMax + hi \in Nat /\ Bytes(c) \in Nat
  BY <1>2, FieldFacts
<1>5. PICK rest : rest = Paid
  OBVIOUS
<1>6. /\ Framing(rest, used + Bytes(c))
      /\ 2 <= Dues(frames) /\ Dues(rest) = Dues(frames) - 2
  BY <1>3, <1>4, <1>5, PaidFacts DEF Unpaid
<1>7. Dues(rest) = Dues(frames) - 2 + 0
  BY <1>6, InvHolds, DuesTyped
<1>8. PICK x, y : x = FieldIdMin + lo /\ y = FieldIdMax + hi
  OBVIOUS
<1>9. Write(c, x, y, rest) /\ x \in Nat /\ y \in Nat /\ Bytes(c) \in x .. y
  BY <1>1, <1>2, <1>4, <1>5, <1>8
<1> QED
  BY <1>4, <1>6, <1>7, <1>9, WriteKeeps

LEMMA NestedItemKeeps ==
    ASSUME Inv, NEW kind \in {"array", "map"}, NEW nr \in Nat, NEW begin,
           Call(begin, 1, IF kind = "map" THEN 2 * nr ELSE nr), Bytes(begin) = HeadSize(nr),
           NestedItem(kind, begin, nr)
    PROVE  Inv'
<1> DEFINE kids == IF kind = "map" THEN 2 * nr ELSE nr
<1>1. PICK rest : rest = Began(kind, nr, 0, begin)
  OBVIOUS
<1>2. /\ Write(begin, HeadSize(nr), HeadSize(nr), rest) /\ Top.due > 0 /\ Top.kind # "map"
      /\ Len(frames) <= MaxDepth
  BY <1>1 DEF NestedItem, Write, InItems
<1>3. HeadSize(nr) \in Nat /\ Bytes(begin) \in HeadSize(nr) .. HeadSize(nr)
  BY DEF HeadSize
<1>4. Unpaid(Top) = 1 /\ 1 <= Dues(frames) /\ Dues(frames) \in Nat
  <2>1. Unpaid(Top) = 1
    BY <1>2 DEF Unpaid
  <2> QED
    BY <1>2, <2>1, InvHolds, DuesTyped, PaidFacts
<1>5. Bytes(begin) = 0 + Bytes(begin)
  BY <1>3
<1>6. Framing(rest, used + Bytes(begin)) /\ Dues(rest) = Dues(frames) - 1 + kids
  BY <1>1, <1>2, <1>4, <1>5, BeganFacts
<1>7. Call(begin, 1, kids)
  OBVIOUS
<1> HIDE DEF kids
<1>8. PICK size : size = HeadSize(nr)
  OBVIOUS
<1> QED
  BY <1>2, <1>3, <1>4, <1>6, <1>7, <1>8, WriteKeeps

LEMMA NestedFieldKeeps ==
    ASSUME Inv, NEW kind \in {"array", "map"}, NEW nr \in Nat, NEW begin,
           Call(begin, 1, IF kind = "map" THEN 2 * nr ELSE nr), Bytes(begin) = HeadSize(nr),
           NestedField(kind, begin, nr)
    PROVE  Inv'
<1> DEFINE kids == IF kind = "map" THEN 2 * nr ELSE nr
<1>1. PICK id \in IdWidth :
         Write(Field(id, begin), FieldIdMin + HeadSize(nr), FieldIdMax + HeadSize(nr),
               Began(kind, nr, Bytes(FieldId(id)), begin))
  BY DEF NestedField
<1>2. PICK rest : rest = Began(kind, nr, Bytes(FieldId(id)), begin)
  OBVIOUS
<1>3. PICK c : c = Field(id, begin)
  OBVIOUS
<1>4. Top.due > 0 /\ Top.kind = "map" /\ Len(frames) <= MaxDepth
  BY <1>1 DEF NestedField, Write, InMap
<1>5. HeadSize(nr) \in Nat /\ Bytes(begin) \in HeadSize(nr) .. HeadSize(nr)
  BY DEF HeadSize
<1>6. Call(begin, 1, kids)
  OBVIOUS
<1> HIDE DEF kids
<1>7. PICK size : size = HeadSize(nr)
  OBVIOUS
<1>8. /\ Call(c, 2, kids) /\ Bytes(c) = Bytes(FieldId(id)) + Bytes(begin)
      /\ Bytes(c) \in FieldIdMin + size .. FieldIdMax + size
      /\ FieldIdMin + size \in Nat /\ FieldIdMax + size \in Nat /\ Bytes(FieldId(id)) \in Nat
  BY <1>3, <1>5, <1>6, <1>7, FieldFacts
<1>9. Unpaid(Top) = 2 /\ 2 <= Dues(frames)
  <2>1. Unpaid(Top) = 2
    BY <1>4 DEF Unpaid
  <2> QED
    BY <1>4, <2>1, PaidFacts
<1>10. Framing(rest, used + Bytes(c)) /\ Dues(rest) = Dues(frames) - 2 + kids
  BY <1>2, <1>4, <1>8, <1>9, BeganFacts DEF kids
<1>11. PICK x, y : x = FieldIdMin + size /\ y = FieldIdMax + size
  OBVIOUS
<1>12. Write(c, x, y, rest) /\ x \in Nat /\ y \in Nat /\ Bytes(c) \in x .. y
  BY <1>1, <1>2, <1>3, <1>7, <1>8, <1>11
<1> QED
  BY <1>8, <1>9, <1>10, <1>12, WriteKeeps
\* An array or a map is ended: it owes nothing.
LEMMA EndKeeps ==
    ASSUME Inv, EndEncode
    PROVE  Inv'
<1>1. /\ capa \in Capacity /\ capa \in Nat /\ used \in Nat /\ used <= capa
      /\ buf \in Stream /\ frames \in Frames /\ Len(frames) \in Nat /\ Len(frames) > 0
      /\ Len(frames) <= MaxDepth + 1 /\ Top \in Frame /\ MaxDepth \in Nat
  BY InvHolds
<1>2. /\ Top.due = 0 /\ Top.kind # "message" /\ ret = "OK" /\ ret' = "OK"
      /\ capa' = capa /\ used' = used /\ buf' = buf
      /\ frames' = SubSeq(frames, 1, Len(frames) - 1)
  BY DEF EndEncode
<1>3. Framing(frames, used)
  BY DEF Inv, Framed
<1>4. Len(frames) >= 2
  BY <1>1, <1>2, <1>3 DEF Framing, Top
<1> DEFINE n == Len(frames) - 1
<1>5. n \in Nat /\ n >= 1 /\ Len(frames) = n + 1 /\ frames[n + 1] = Top
  BY <1>1, <1>4 DEF Top
<1>6. /\ frames' \in Frames /\ Len(frames') = n
      /\ \A i \in 1 .. n : frames'[i] = frames[i]
      /\ Dues(frames) = Dues(frames') + Weight(Top)
  <2>1. PICK fs : fs = SubSeq(frames, 1, n)
    OBVIOUS
  <2>2. /\ fs \in Frames /\ Len(fs) = n /\ \A i \in 1 .. n : fs[i] = frames[i]
        /\ Dues(frames) = Dues(fs) + Weight(frames[n + 1])
    BY <1>1, <1>5, <2>1, FrameFront
  <2> QED
    BY <1>2, <1>5, <2>1, <2>2
<1> HIDE DEF n
<1>7. Dues(frames') = Dues(frames)
  <2>1. Weight(Top) = 0
    BY <1>1, <1>2, WeightFacts
  <2>2. Dues(frames') \in Nat
    BY <1>6, DuesTyped
  <2> QED
    BY <1>6, <2>1, <2>2
<1>8. Framed'
  <2>1. Len(frames') \in 1 .. MaxDepth + 1
    BY <1>1, <1>5, <1>6
  <2>2. \A i \in 1 .. n : i \in 1 .. Len(frames)
    BY <1>5
  <2>3. 1 \in 1 .. n
    BY <1>5
  <2>4. Framing(frames', used')
    BY <1>2, <1>3, <1>6, <2>1, <2>2, <2>3 DEF Framing
  <2> QED
    BY <2>4 DEF Framed, Framing
<1>9. /\ Top.data \in Nat /\ Top.data <= used /\ Top.start \in Nat /\ Top.nr \in Nat
      /\ Top.data = Top.start + HeadSize(Top.nr) /\ Top.kind \in {"message", "array", "map"}
  <2>1. Len(frames) \in 1 .. Len(frames)
    BY <1>1
  <2> QED
    BY <1>1, <1>2, <1>3, <2>1 DEF Framing, Top, Frame
<1>10. PICK size : size = used - Top.start
  OBVIOUS
<1>11. /\ size \in Nat
       /\ MapSize(Top.nr, used - Top.data) = size /\ ArraySize(Top.nr, used - Top.data) = size
  <2>1. FixNrMax \in Nat /\ Nr16Max \in Nat /\ FixNrMax <= Nr16Max
    BY LimitsAssumption, ThresholdsAssumption
  <2>2. HeadSize(Top.nr) \in Nat
    BY DEF HeadSize
  <2>3. size = used - Top.data + HeadSize(Top.nr)
    BY <1>1, <1>9, <1>10, <2>2
  <2>4. size \in Nat
    BY <1>1, <1>9, <2>2, <2>3
  <2>5. HeadSize(Top.nr) = IF Top.nr <= FixNrMax THEN 1 ELSE IF Top.nr <= Nr16Max THEN 3 ELSE 5
    BY <1>9, <2>1 DEF HeadSize
  <2> QED
    BY <2>3, <2>4, <2>5 DEF MapSize, ArraySize
<1>12. quote' = [from |-> Top.start, min |-> size, max |-> size]
  BY <1>11 DEF EndEncode
<1>13. quote' \in Quote /\ quote'.from = Top.start /\ quote'.min = size /\ quote'.max = size
  BY <1>9, <1>11, <1>12 DEF Quote
<1>14. TypeOK'
  <2>1. buf' \in Seq([kind : Kind, n : Nat])
    BY <1>1, <1>2 DEF Stream, Symbol
  <2>2. frames' \in Frames /\ Len(frames') \in 1 .. MaxDepth + 1
    BY <1>8 DEF Framed, Framing
  <2> QED
    BY <1>1, <1>2, <1>13, <2>1, <2>2 DEF TypeOK, Frames
<1>15. Balance'
  <2>1. Pending(buf, Dues(frames))
    BY <1>2 DEF Inv, Balance
  <2>2. Pending(buf', Dues(frames'))
    BY <1>2, <1>7, <2>1
  <2> QED
    BY <1>2, <2>2 DEF Balance
<1>16. Announced'
  <2>1. used' - quote'.from \in quote'.min .. quote'.max
    BY <1>2, <1>10, <1>11, <1>13
  <2> QED
    BY <1>2, <2>1 DEF Announced
<1> QED
  BY <1>8, <1>14, <1>15, <1>16 DEF Inv

\* A message that is still to be encoded
LEMMA MessageFacts ==
    /\ Message \in Frames /\ Len(Message) \in 1 .. MaxDepth + 1
    /\ Framing(Message, 0) /\ Pending(<< >>, Dues(Message))
<1> DEFINE f == [kind |-> "message", nr |-> 1, due |-> 1, start |-> 0, data |-> 0]
           z == << >>
<1>1. f \in Frame /\ f.kind = "message" /\ f.due = 1 /\ f.data = 0
  BY DEF Frame
<1>2. Message = <<f>>
  BY DEF Message
<1> HIDE DEF f
<1>3. /\ Message \in Frames /\ Len(Message) = 1 /\ Message[1] = f
  BY <1>1, <1>2 DEF Frames
<1>4. z \in Frames /\ Len(z) = 0 /\ \A i \in 1 .. Len(z) : Message[i] = z[i]
  BY DEF Frames
<1>5. Dues(z) = 0
  <2>1. 0 \in 0 .. Len(z)
    BY <1>4
  <2> QED
    BY <1>4, <2>1, DuesEquation
<1> HIDE DEF z
<1>6. Dues(Message) = Dues(z) + Weight(Message[Len(Message)])
  <2>1. Len(Message) = Len(z) + 1
    BY <1>3, <1>4
  <2> QED
    BY <1>3, <1>4, <2>1, DuesStep
<1>7. Dues(Message) = 1
  BY <1>1, <1>3, <1>5, <1>6, WeightFacts
<1>8. Len(Message) \in 1 .. MaxDepth + 1
  BY <1>3, ThresholdsAssumption
<1>9. Framing(Message, 0)
  BY <1>1, <1>3, <1>8 DEF Framing
<1>10. Pending(<< >>, 1)
  BY NoUnit DEF Pending
<1> QED
  BY <1>3, <1>7, <1>8, <1>9, <1>10

LEMMA InitInv ==
    ASSUME Init
    PROVE  Inv
<1>1. /\ capa \in Capacity /\ used = 0 /\ buf = << >> /\ ret = "OK" /\ frames = Message
      /\ quote = [from |-> 0, min |-> 0, max |-> 0]
  BY DEF Init
<1>2. capa \in Nat
  BY <1>1, ThresholdsAssumption
<1>3. quote \in Quote /\ quote.from = 0 /\ quote.min = 0 /\ quote.max = 0
  BY <1>1 DEF Quote
<1>4. Framed /\ Balance
  BY <1>1, MessageFacts DEF Framed, Balance
<1>5. Announced
  BY <1>1, <1>3 DEF Announced
<1>6. TypeOK
  <2>1. buf \in Seq([kind : Kind, n : Nat])
    BY <1>1
  <2> QED
    BY <1>1, <1>2, <1>3, <2>1, MessageFacts DEF TypeOK, Frames
<1> QED
  BY <1>4, <1>5, <1>6 DEF Inv

LEMMA RestartKeeps ==
    ASSUME Restart
    PROVE  Inv'
<1>1. /\ capa' \in Capacity /\ used' = 0 /\ buf' = << >> /\ ret' = "OK" /\ frames' = Message
      /\ quote' = [from |-> 0, min |-> 0, max |-> 0]
  BY DEF Restart
<1>2. capa' \in Nat
  BY <1>1, ThresholdsAssumption
<1>3. quote' \in Quote /\ quote'.from = 0 /\ quote'.min = 0 /\ quote'.max = 0
  BY <1>1 DEF Quote
<1>4. Framed' /\ Balance'
  <2>1. Framing(frames', used') /\ Pending(buf', Dues(frames'))
    BY <1>1, MessageFacts
  <2> QED
    BY <1>1, <2>1 DEF Framed, Framing, Balance
<1>5. Announced'
  BY <1>1, <1>3 DEF Announced
<1>6. TypeOK'
  <2>1. buf' \in Seq([kind : Kind, n : Nat])
    BY <1>1
  <2> QED
    BY <1>1, <1>2, <1>3, <2>1, MessageFacts DEF TypeOK, Frames
<1> QED
  BY <1>4, <1>5, <1>6 DEF Inv

\* Two functions compute the same size.
LEMMA StrSizes ==
    ASSUME NEW len \in 1 .. StrMax
    PROVE  StrSize(len) = StrConstSize(len) /\ StrSize(len) \in Nat
<1>1. /\ len \in Nat /\ len >= 1 /\ len <= StrMax /\ StrMax \in Nat
      /\ FixStrMax \in Nat /\ Str8Max \in Nat /\ Str16Max \in Nat
      /\ FixStrMax <= Str8Max /\ Str8Max <= Str16Max
  BY LimitsAssumption, ThresholdsAssumption
<1>2. CASE len <= FixStrMax
  BY <1>1, <1>2 DEF StrSize, StrConstSize
<1>3. CASE len > FixStrMax /\ len <= Str8Max
  BY <1>1, <1>3 DEF StrSize, StrConstSize
<1>4. CASE len > Str8Max /\ len <= Str16Max
  BY <1>1, <1>4 DEF StrSize, StrConstSize
<1>5. CASE len > Str16Max
  BY <1>1, <1>5 DEF StrSize, StrConstSize
<1> QED
  BY <1>1, <1>2, <1>3, <1>4, <1>5

LEMMA BinSizes ==
    ASSUME NEW size \in 1 .. BinMax
    PROVE  BinSize(size) = BinConstSize(size) /\ BinSize(size) \in Nat
<1>1. /\ size \in Nat /\ size >= 1 /\ size <= BinMax /\ BinMax \in Nat
      /\ Bin8Max \in Nat /\ Bin16Max \in Nat /\ Bin8Max <= Bin16Max
  BY LimitsAssumption, ThresholdsAssumption
<1>2. CASE size <= Bin8Max
  BY <1>1, <1>2 DEF BinSize, BinConstSize
<1>3. CASE size > Bin8Max /\ size <= Bin16Max
  BY <1>1, <1>3 DEF BinSize, BinConstSize
<1>4. CASE size > Bin16Max
  BY <1>1, <1>4 DEF BinSize, BinConstSize
<1> QED
  BY <1>1, <1>2, <1>3, <1>4
\* One step per call of the application.
LEMMA ItemStep ==
    ASSUME Inv, NextItem
    PROVE  Inv'
<1>1. /\ 0 \in Nat /\ FloatWidth \in Nat /\ DoubleWidth \in Nat /\ IntWidth \subseteq Nat
      /\ LvMax <= StrMax /\ LvMax \in Nat /\ StrMax \in Nat
  BY LimitsAssumption, ThresholdsAssumption
<1>2. ASSUME NEW width \in Nat, Item(Scalar(width), ScalarSize(width), ScalarSize(width))
      PROVE  Inv'
  <2>1. ScalarSize(width) \in Nat
    BY DEF ScalarSize
  <2>2. PICK c, size : c = Scalar(width) /\ size = ScalarSize(width)
    OBVIOUS
  <2> QED
    BY <1>2, <2>1, <2>2, ScalarCall, ItemKeeps
<1>3. ASSUME NEW len \in 1 .. StrMax, Item(EncodeStrFix(len), StrSize(len), StrConstSize(len))
      PROVE  Inv'
  <2>1. PICK c, size : c = EncodeStrFix(len) /\ size = StrSize(len)
    OBVIOUS
  <2>2. Call(c, 1, 0) /\ Bytes(c) = size /\ size \in Nat /\ Item(c, size, size)
    BY <1>3, <2>1, StrCall, StrSizes
  <2> QED
    BY <2>2, ItemKeeps
<1>4. CASE EncodeBoolOrNil
  BY <1>1, <1>2, <1>4 DEF EncodeBoolOrNil
<1>5. CASE EncodeInt
  <2>1. PICK width \in IntWidth : Item(Scalar(width), IntMin, IntMax)
    BY <1>5 DEF EncodeInt
  <2>2. PICK c, lo, hi : c = Scalar(width) /\ lo = IntMin /\ hi = IntMax
    OBVIOUS
  <2>3. Call(c, 1, 0) /\ Bytes(c) \in lo .. hi /\ lo \in Nat /\ hi \in Nat /\ Item(c, lo, hi)
    BY <1>1, <2>1, <2>2, ScalarCall, IntSizes
  <2> QED
    BY <2>3, ItemKeeps
<1>6. CASE EncodeFloat
  BY <1>1, <1>2, <1>6 DEF EncodeFloat
<1>7. CASE EncodeDouble
  BY <1>1, <1>2, <1>7 DEF EncodeDouble
<1>8. CASE EncodeStrItem
  BY <1>3, <1>8 DEF EncodeStrItem, EncodeStr
<1>9. CASE EncodeLvstrItem
  <2>1. PICK len \in 1 .. LvMax : Item(EncodeLvstr(len), LvstrSize(len), LvstrConstSize(len))
    BY <1>9 DEF EncodeLvstrItem
  <2>2. len \in 1 .. StrMax
    BY <1>1, <2>1
  <2> QED
    BY <1>3, <2>1, <2>2 DEF EncodeLvstr, LvstrSize, LvstrConstSize
<1>10. CASE EncodeBinItem
  <2>1. PICK n \in 1 .. BinMax : Item(EncodeBin(n), BinSize(n), BinConstSize(n))
    BY <1>10 DEF EncodeBinItem
  <2>2. PICK c, size : c = EncodeBin(n) /\ size = BinSize(n)
    OBVIOUS
  <2>3. Call(c, 1, 0) /\ Bytes(c) = size /\ size \in Nat /\ Item(c, size, size)
    BY <2>1, <2>2, BinCall, BinSizes
  <2> QED
    BY <2>3, ItemKeeps
<1>11. CASE ArrayBeginEncode
  <2>1. PICK nr \in 1 .. ElmMax : NestedItem("array", ArrayBegin(nr), nr)
    BY <1>11 DEF ArrayBeginEncode
  <2>2. PICK c : c = ArrayBegin(nr)
    OBVIOUS
  <2>3. Call(c, 1, nr) /\ Bytes(c) = HeadSize(nr) /\ NestedItem("array", c, nr) /\ nr \in Nat
    BY <2>1, <2>2, ArrayCall
  <2> QED
    BY <2>3, NestedItemKeeps
<1>12. CASE MapBeginEncode
  <2>1. PICK nr \in 1 .. FldMax : NestedItem("map", MapBegin(nr), nr)
    BY <1>12 DEF MapBeginEncode
  <2>2. PICK c : c = MapBegin(nr)
    OBVIOUS
  <2>3. Call(c, 1, 2 * nr) /\ Bytes(c) = HeadSize(nr) /\ NestedItem("map", c, nr) /\ nr \in Nat
    BY <2>1, <2>2, MapCall
  <2> QED
    BY <2>3, NestedItemKeeps
<1> QED
  BY <1>4, <1>5, <1>6, <1>7, <1>8, <1>9, <1>10, <1>11, <1>12 DEF NextItem

LEMMA FieldStep ==
    ASSUME Inv, NextField
    PROVE  Inv'
<1>1. /\ 0 \in Nat /\ FloatWidth \in Nat /\ DoubleWidth \in Nat /\ IntWidth \subseteq Nat
      /\ LvMax <= StrMax /\ LvMax \in Nat /\ StrMax \in Nat
  BY LimitsAssumption, ThresholdsAssumption
<1>2. ASSUME NEW width \in Nat, MapField(Scalar(width), ScalarSize(width), ScalarSize(width))
      PROVE  Inv'
  <2>1. ScalarSize(width) \in Nat
    BY DEF ScalarSize
  <2>2. PICK c, size : c = Scalar(width) /\ size = ScalarSize(width)
    OBVIOUS
  <2> QED
    BY <1>2, <2>1, <2>2, ScalarCall, FieldKeeps
<1>3. ASSUME NEW len \in 1 .. StrMax, MapField(EncodeStrFix(len), StrSize(len), StrConstSize(len))
      PROVE  Inv'
  <2>1. PICK c, size : c = EncodeStrFix(len) /\ size = StrSize(len)
    OBVIOUS
  <2>2. Call(c, 1, 0) /\ Bytes(c) = size /\ size \in Nat /\ MapField(c, size, size)
    BY <1>3, <2>1, StrCall, StrSizes
  <2> QED
    BY <2>2, FieldKeeps
<1>4. CASE MapEncodeBool
  BY <1>1, <1>2, <1>4 DEF MapEncodeBool
<1>5. CASE MapEncodeInt
  <2>1. PICK width \in IntWidth : MapField(Scalar(width), IntMin, IntMax)
    BY <1>5 DEF MapEncodeInt
  <2>2. PICK c, lo, hi : c = Scalar(width) /\ lo = IntMin /\ hi = IntMax
    OBVIOUS
  <2>3. Call(c, 1, 0) /\ Bytes(c) \in lo .. hi /\ lo \in Nat /\ hi \in Nat /\ MapField(c, lo, hi)
    BY <1>1, <2>1, <2>2, ScalarCall, IntSizes
  <2> QED
    BY <2>3, FieldKeeps
<1>6. CASE MapEncodeFloat
  BY <1>1, <1>2, <1>6 DEF MapEncodeFloat
<1>7. CASE MapEncodeDouble
  BY <1>1, <1>2, <1>7 DEF MapEncodeDouble
<1>8. CASE MapEncodeStr
  BY <1>3, <1>8 DEF MapEncodeStr, EncodeStr
<1>9. CASE MapEncodeStrFix
  BY <1>3, <1>9 DEF MapEncodeStrFix
<1>10. CASE MapEncodeLvstr
  <2>1. PICK len \in 1 .. LvMax : MapField(EncodeLvstr(len), LvstrSize(len), LvstrConstSize(len))
    BY <1>10 DEF MapEncodeLvstr
  <2>2. len \in 1 .. StrMax
    BY <1>1, <2>1
  <2> QED
    BY <1>3, <2>1, <2>2 DEF EncodeLvstr, LvstrSize, LvstrConstSize
<1>11. CASE MapEncodeBin
  <2>1. PICK n \in 1 .. BinMax : MapField(EncodeBin(n), BinSize(n), BinConstSize(n))
    BY <1>11 DEF MapEncodeBin
  <2>2. PICK c, size : c = EncodeBin(n) /\ size = BinSize(n)
    OBVIOUS
  <2>3. Call(c, 1, 0) /\ Bytes(c) = size /\ size \in Nat /\ MapField(c, size, size)
    BY <2>1, <2>2, BinCall, BinSizes
  <2> QED
    BY <2>3, FieldKeeps
<1>12. CASE MapEncodeNil
  BY <1>1, <1>2, <1>12 DEF MapEncodeNil
<1>13. CASE MapBeginEncodeNestMap
  <2>1. PICK nr \in 1 .. FldMax : NestedField("map", MapBegin(nr), nr)
    BY <1>13 DEF MapBeginEncodeNestMap
  <2>2. PICK c : c = MapBegin(nr)
    OBVIOUS
  <2>3. Call(c, 1, 2 * nr) /\ Bytes(c) = HeadSize(nr) /\ NestedField("map", c, nr) /\ nr \in Nat
    BY <2>1, <2>2, MapCall
  <2> QED
    BY <2>3, NestedFieldKeeps
<1>14. CASE MapBeginEncodeNestArray
  <2>1. PICK nr \in 1 .. ElmMax : NestedField("array", ArrayBegin(nr), nr)
    BY <1>14 DEF MapBeginEncodeNestArray
  <2>2. PICK c : c = ArrayBegin(nr)
    OBVIOUS
  <2>3. Call(c, 1, nr) /\ Bytes(c) = HeadSize(nr) /\ NestedField("array", c, nr) /\ nr \in Nat
    BY <2>1, <2>2, ArrayCall
  <2> QED
    BY <2>3, NestedFieldKeeps
<1> QED
  BY <1>4, <1>5, <1>6, <1>7, <1>8, <1>9, <1>10, <1>11, <1>12, <1>13, <1>14 DEF NextField

LEMMA StutterKeeps ==
    ASSUME Inv, UNCHANGED vars
    PROVE  Inv'
<1>1. /\ capa' = capa /\ used' = used /\ buf' = buf /\ ret' = ret /\ frames' = frames
      /\ quote' = quote
  BY DEF vars
<1>2. TypeOK' /\ Framed' /\ Balance' /\ Announced'
  BY <1>1 DEF Inv, TypeOK, Framed, Framing, Balance, Announced
<1> QED
  BY <1>2 DEF Inv

\* The invariant above, that the theorems below rest on
LEMMA EncoderInvariant == Spec => []Inv
<1>1. Init => Inv
  BY InitInv
<1>2. Inv /\ [Next]_vars => Inv'
  BY ItemStep, FieldStep, EndKeeps, RestartKeeps, StutterKeeps DEF Next
<1> QED
  BY <1>1, <1>2, PTL DEF Spec

\* Every variable has its type, and the encoder never passes the end of its buffer
\* (buffer.c:26-47).
THEOREM TypeCorrect == Spec => []TypeOK
<1>1. Inv => TypeOK
  BY DEF Inv
<1> QED
  BY <1>1, EncoderInvariant, PTL

-----------------------------------------------------------------------------
(* What the invariant says of the decoders of the message. *)

LEMMA SkipAtoms ==
    ASSUME NEW w \in Stream, NEW n \in Nat, NEW q \in 0 .. Len(w), q + n <= Len(w),
           \A i \in 1 .. n : w[q + i].kind = "atom"
    PROVE  SkipItems(w, q, n) = [head |-> q + n, ret |-> "OK"]
<1> DEFINE Atoms(m, p) == p + m <= Len(w) /\ \A i \in 1 .. m : w[p + i].kind = "atom"
           S == { m \in Nat : \A p \in 0 .. Len(w) :
                     Atoms(m, p) => SkipItems(w, p, m) = [head |-> p + m, ret |-> "OK"] }
<1>0. Len(w) \in Nat
  BY StreamPositions
<1>1. 0 \in S
  <2>1. \A p \in 0 .. Len(w) : p + 0 = p
    BY <1>0
  <2> QED
    BY <2>1, SkipNone
<1>2. ASSUME NEW m \in S PROVE m + 1 \in S
  <2>0. m \in Nat /\ m + 1 \in Nat
    BY <1>2
  <2>1. ASSUME NEW p \in 0 .. Len(w), Atoms(m + 1, p)
        PROVE  SkipItems(w, p, m + 1) = [head |-> p + (m + 1), ret |-> "OK"]
    <3>1. p + (m + 1) <= Len(w) /\ \A i \in 1 .. m + 1 : w[p + i].kind = "atom"
      BY <2>1
    <3>2. p + 1 <= Len(w) /\ w[p + 1].kind = "atom"
      BY <1>0, <2>0, <3>1
    <3>3. Readable(w, p) /\ NextTag(w, p) = p + 1 /\ Children(w, p) = 0
      <4>1. HeaderSize(w, p) = 1
        BY <3>2 DEF HeaderSize, Counted
      <4>2. Supported(w, p) /\ PayloadSize(w, p) = 0 /\ Children(w, p) = 0
        BY <3>2 DEF Supported, PayloadSize, Children
      <4> QED
        BY <1>0, <3>2, <4>1, <4>2 DEF Readable, NextTag
    <3>4. SkipItems(w, p, m + 1) = SkipItems(w, p + 1, m)
      <4>1. m + 1 \in Nat \ {0} /\ (m + 1) - 1 + 0 = m
        BY <2>0
      <4>2. SkipItems(w, p, m + 1) = SkipItems(w, NextTag(w, p), (m + 1) - 1 + Children(w, p))
        BY <3>3, <4>1, SkipInto
      <4> QED
        BY <3>3, <4>1, <4>2
    <3>5. p + 1 \in 0 .. Len(w) /\ (p + 1) + m <= Len(w)
      BY <1>0, <2>0, <3>1, <3>2
    <3>6. ASSUME NEW i \in 1 .. m PROVE w[(p + 1) + i].kind = "atom"
      <4>1. i + 1 \in 1 .. m + 1 /\ (p + 1) + i = p + (i + 1)
        BY <2>0
      <4>2. w[p + (i + 1)].kind = "atom"
        BY <3>1, <4>1
      <4> QED
        BY ONLY <4>1, <4>2, Zenon
    <3>7. Atoms(m, p + 1)
      BY <3>5, <3>6
    <3>8. SkipItems(w, p + 1, m) = [head |-> (p + 1) + m, ret |-> "OK"]
      <4> HIDE DEF Atoms
      <4> QED
        BY <1>2, <3>5, <3>7
    <3>9. (p + 1) + m = p + (m + 1)
      BY <2>0
    <3> QED
      BY <3>4, <3>8, <3>9
  <2> HIDE DEF Atoms
  <2> QED
    BY <2>0, <2>1
<1>3. S = Nat
  <2> HIDE DEF Atoms
  <2> QED
    BY <1>1, <1>2, Induction
<1>4. Atoms(n, q)
  OBVIOUS
<1> HIDE DEF Atoms
<1> QED
  BY <1>3, <1>4

\* As long as no call failed, what was written reads back as one message, of which a
\* decoder misses exactly the items that the application has still to encode.
THEOREM MessageReadsBack == Spec => []ReadsBack
<1>1. Inv => ReadsBack
  <2> SUFFICES ASSUME Inv, ret = "OK"
               PROVE  LET missing == [i \in 1 .. Owed |-> [kind |-> "atom", n |-> 0]] IN
                      /\ SkipItems(buf \o missing, 0, 1) = [head |-> Len(buf) + Owed, ret |-> "OK"]
                      /\ \/ Owed = 0 \/ SkipItems(buf, 0, 1).ret = "ENODATA"
    BY DEF ReadsBack
  <2>1. Pending(buf, Owed) /\ Owed \in Nat /\ buf \in Stream /\ Len(buf) \in Nat
    <3>1. Pending(buf, Dues(frames))
      BY DEF Inv, Balance
    <3> QED
      BY <3>1, OwedIsDues, StreamPositions DEF Pending
  <2>2. PICK k : k = Owed
    OBVIOUS
  <2> DEFINE missing == [i \in 1 .. k |-> [kind |-> "atom", n |-> 0]]
             w == buf \o missing
  <2>3. missing \in Stream /\ Len(missing) = k /\ \A i \in 1 .. k : missing[i].kind = "atom"
    <3>1. missing \in [1 .. k -> Symbol] /\ \A i \in 1 .. k : missing[i].kind = "atom"
      BY DEF Symbol, Kind
    <3> HIDE DEF missing
    <3> QED
      BY <2>1, <2>2, <3>1 DEF Stream
  <2> HIDE DEF missing
  <2>4. /\ w \in Stream /\ Len(w) = Len(buf) + k
        /\ \A i \in 1 .. Len(buf) : w[i] = buf[i]
        /\ \A i \in 1 .. k : w[Len(buf) + i] = missing[i]
    BY <2>1, <2>3, ConcatFacts DEF Stream
  <2> HIDE DEF w
  <2>5. SkipItems(w, 0, 1) = SkipItems(w, Len(buf), k)
    <3>1. Has(w, 0, buf)
      BY <2>1, <2>2, <2>4 DEF Has
    <3> QED
      BY <2>1, <2>2, <2>4, <3>1 DEF Pending
  <2>6. SkipItems(w, Len(buf), k) = [head |-> Len(buf) + k, ret |-> "OK"]
    <3>1. Len(buf) \in 0 .. Len(w) /\ Len(buf) + k <= Len(w) /\ k \in Nat
      BY <2>1, <2>2, <2>4
    <3>2. \A i \in 1 .. k : w[Len(buf) + i].kind = "atom"
      BY <2>3, <2>4
    <3> QED
      BY <2>4, <3>1, <3>2, SkipAtoms
  <2>7. k = 0 \/ SkipItems(buf, 0, 1).ret = "ENODATA"
    <3> SUFFICES ASSUME k # 0 PROVE SkipItems(buf, 0, 1).ret = "ENODATA"
      OBVIOUS
    <3>1. Has(buf, 0, buf)
      BY <2>1 DEF Has
    <3>2. SkipItems(buf, 0, 1) = SkipItems(buf, Len(buf), k)
      BY <2>1, <2>2, <3>1 DEF Pending
    <3>3. SkipItems(buf, Len(buf), k) = [head |-> Len(buf), ret |-> "ENODATA"]
      BY <2>1, <2>2, SkipStops
    <3> QED
      BY <3>2, <3>3
  <2> QED
    BY <2>2, <2>5, <2>6, <2>7 DEF w, missing
<1> QED
  BY <1>1, EncoderInvariant, PTL

\* A message cut short by a full buffer, wherever the refused write was, is never taken
\* for a whole one.
THEOREM CutNoticed == Spec => []CutIsNoticed
<1>1. Inv => CutIsNoticed
  BY DEF Inv, Balance, CutIsNoticed
<1> QED
  BY <1>1, EncoderInvariant, PTL

\* The sizes that the functions and macros announce are those that the calls take, and
\* a call is refused only when less than that was left.
THEOREM SizesTold == Spec => []SizesAnnounced
<1>1. Inv => SizesAnnounced
  <2>1. /\ \A len \in 1 .. StrMax : StrSize(len) = StrConstSize(len)
        /\ \A size \in 1 .. BinMax : BinSize(size) = BinConstSize(size)
    BY StrSizes, BinSizes
  <2> QED
    BY <2>1 DEF Inv, Announced, SizesAnnounced
<1> QED
  BY <1>1, EncoderInvariant, PTL
=============================================================================
