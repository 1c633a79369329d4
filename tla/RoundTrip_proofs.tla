--------------------------- MODULE RoundTrip_proofs ---------------------------
(***************************************************************************)
(* What is written is what is read: theorems about Scalar, the codecs of   *)
(* single numbers, and about MapSample, the messages that an application   *)
(* makes of them.                                                          *)
(*                                                                         *)
(* Those about Scalar hold for every number of values of a byte, every     *)
(* four increasing sizes of integers, and every stream to decode.  Their   *)
(* proof goes up from the division: what a power of Base is, what the      *)
(* bytes of an integer are and how they make it again, what each tag       *)
(* announces, what stands at a position of a stream, what each of the      *)
(* functions of a level does of it, and at last the calls one after the    *)
(* other, which the invariant ScalarInv is about.                          *)
(*                                                                         *)
(* Those about MapSample hold for any files that others wrote, of any      *)
(* length.  The first part is about the unpacking process and assumes      *)
(* nothing of the file: what a sample is filled with, and what becomes of  *)
(* the memory of its string.  The second part is about both processes: the *)
(* file is the beginning of what was packed, and is unpacked as it was.    *)
(***************************************************************************)
EXTENDS Scalar, MapSample, FiniteSetTheorems, SequenceTheorems, WellFoundedInduction, TLAPS

-----------------------------------------------------------------------------
(* Induction, over sets of numbers. *)

NatLess == { pair \in Nat \X Nat : pair[1] < pair[2] }

LEMMA NatLessWellFounded == IsWellFoundedOn(NatLess, Nat)
BY NatLessThanWellFounded DEF OpToRel, NatLess

\* A set that holds 0 and the successor of each of its members is Nat.
LEMMA NatSet ==
    ASSUME NEW S \in SUBSET Nat, 0 \in S, \A n \in S : n + 1 \in S
    PROVE  S = Nat
<1> SUFFICES ASSUME Nat \ S # {} PROVE FALSE
  OBVIOUS
<1>1. PICK x \in Nat \ S : \A y \in Nat \ S : <<y, x>> \notin NatLess
  BY NatLessWellFounded, WFMin, Zenon
<1>2. x - 1 \in Nat
  OBVIOUS
<1>3. <<x - 1, x>> \in NatLess
  BY <1>2 DEF NatLess
<1>4. x - 1 \in S
  BY <1>1, <1>2, <1>3
<1> QED
  BY <1>2, <1>4

\* What holds of 0, and of each number up to limit after one that it holds of,
\* holds up to limit.
LEMMA UpTo ==
    ASSUME NEW limit \in Nat, NEW S, 0 \in S,
           \A n \in 0 .. limit - 1 : n \in S => n + 1 \in S
    PROVE  \A n \in 0 .. limit : n \in S
<1> DEFINE T == { n \in Nat : n <= limit => n \in S }
<1>1. 0 \in T
  OBVIOUS
<1>2. \A n \in T : n + 1 \in T
  OBVIOUS
<1>3. T = Nat
  <2> HIDE DEF T
  <2> QED
    BY <1>1, <1>2, NatSet DEF T
<1> QED
  BY <1>3

-----------------------------------------------------------------------------
(* Division *)

LEMMA Divides ==
    ASSUME NEW a \in Int, NEW b \in Nat \ {0}
    PROVE  /\ a \div b \in Int /\ a % b \in 0 .. b - 1
           /\ a = (b * (a \div b)) + (a % b)
OBVIOUS

LEMMA DividesOnce ==
    ASSUME NEW b \in Nat \ {0}, NEW q \in Int, NEW r \in 0 .. b - 1
    PROVE  ((b * q) + r) \div b = q /\ ((b * q) + r) % b = r
<1> DEFINE a == (b * q) + r
<1>1. a \in Int
  OBVIOUS
<1>2. /\ a \div b \in Int /\ a % b \in 0 .. b - 1
      /\ a = (b * (a \div b)) + (a % b)
  BY <1>1, Divides
<1>3. a \div b = q
  <2>1. ASSUME NEW x \in Int, NEW y \in Int, x < y, NEW u \in 0 .. b - 1, NEW v \in 0 .. b - 1
        PROVE  (b * x) + u # (b * y) + v
    <3>1. b * (x + 1) <= b * y
      BY <2>1
    <3>2. b * (x + 1) = (b * x) + b
      OBVIOUS
    <3> QED
      BY <3>1, <3>2
  <2> DEFINE c == a \div b
             d == a % b
  <2>2. c \in Int /\ d \in 0 .. b - 1 /\ (b * q) + r = (b * c) + d
    BY <1>2
  <2> HIDE DEF a, c, d
  <2>3. c < q \/ c = q \/ q < c
    BY <2>2
  <2>4. c = q
    BY <2>1, <2>2, <2>3
  <2> QED
    BY <2>4 DEF c
<1> QED
  BY <1>2, <1>3

LEMMA DividesAs ==
    ASSUME NEW n, NEW b \in Nat \ {0}, NEW q \in Int, NEW r \in 0 .. b - 1, (b * q) + r = n
    PROVE  n \div b = q /\ n % b = r
BY DividesOnce

LEMMA RestOf ==
    ASSUME NEW b \in Nat \ {0}, NEW r \in 0 .. b - 1
    PROVE  r % b = r /\ (b + r) % b = r /\ (r - b) % b = r
<1>1. ASSUME NEW q \in {-1, 0, 1}
      PROVE  ((b * q) + r) % b = r
  BY DividesOnce
<1>2. (b * 0) + r = r /\ (b * 1) + r = b + r /\ (b * (-1)) + r = r - b
  OBVIOUS
<1>3. ((b * 0) + r) % b = r /\ ((b * 1) + r) % b = r /\ ((b * (-1)) + r) % b = r
  BY <1>1, Zenon
<1> QED
  BY <1>2, <1>3, Zenon

LEMMA DividesTwice ==
    ASSUME NEW n \in Int, NEW a \in Nat \ {0}, NEW b \in Nat \ {0}
    PROVE  (n \div a) \div b = n \div (a * b)
<1> DEFINE q == n \div a
           r == n % a
           q2 == q \div b
           r2 == q % b
<1>1. q \in Int /\ r \in 0 .. a - 1 /\ n = (a * q) + r
  BY Divides
<1>2. q2 \in Int /\ r2 \in 0 .. b - 1 /\ q = (b * q2) + r2
  BY <1>1, Divides
<1> HIDE DEF q, r, q2, r2
<1>3. a * q = (a * (b * q2)) + (a * r2)
  BY <1>1, <1>2
<1>4. a * (b * q2) = (a * b) * q2
  BY <1>2
<1>5. a * r2 \in Int /\ 0 <= a * r2 /\ (a * r2) + a <= a * b
  <2>1. a * (r2 + 1) <= a * b
    BY <1>2
  <2> QED
    BY <2>1, <1>2
<1>6. a * b \in Nat \ {0} /\ (a * r2) + r \in 0 .. (a * b) - 1
  BY <1>1, <1>5
<1>7. n = ((a * b) * q2) + ((a * r2) + r)
  BY <1>1, <1>2, <1>3, <1>4, <1>5
<1>8. n \div (a * b) = q2
  BY <1>2, <1>6, <1>7, DividesOnce
<1> QED
  BY <1>8 DEF q2, q

-----------------------------------------------------------------------------
(* The powers of Base *)

LEMMA Constants ==
    /\ Base \in Nat /\ Base >= 40 /\ \E k \in Nat : Base = 8 * k /\ k >= 5
    /\ \A l \in 1 .. 4 : Width[l] \in Nat \ {0} /\ Width[l] <= Width[4]
    /\ Width[1] = 1 /\ Width[1] < Width[2] /\ Width[2] < Width[3] /\ Width[3] < Width[4]
    /\ FirstTag \in Nat
<1>1. Base = 8 * (Base \div 8) /\ Base \div 8 \in Int
  BY BaseAssumption
<1>2. Base \div 2 = 4 * (Base \div 8)
  BY <1>1, BaseAssumption
<1>3. Base \div 2 + 6 <= Base - Base \div 8 - 8
  BY BaseAssumption, <1>1, <1>2
<1>4. Base \div 8 >= 5
  BY <1>1, <1>2, <1>3
<1>5. Width[1] < Width[2] /\ Width[2] < Width[3] /\ Width[3] < Width[4]
  BY WidthAssumption
<1>6. \E k \in Nat : Base = 8 * k /\ k >= 5
  <2>1. Base \div 8 \in Nat
    BY <1>1, <1>4
  <2> DEFINE k == Base \div 8
  <2>2. k \in Nat /\ Base = 8 * k /\ k >= 5
    BY <1>1, <1>4, <2>1
  <2> QED
    BY <2>2
<1>7. \A l \in 1 .. 4 : Width[l] \in Nat \ {0}
  BY WidthAssumption
<1>8. \A l \in 1 .. 4 : Width[l] <= Width[4]
  BY <1>5, <1>7
<1>9. FirstTag \in Nat /\ Base >= 40 /\ Base \in Nat
  BY <1>1, <1>2, <1>4, BaseAssumption
<1> QED
  BY <1>5, <1>6, <1>7, <1>8, <1>9, WidthAssumption

LEMMA PowerEquation ==
    \A k \in 0 .. Width[4] : Power[k] = IF k = 0 THEN 1 ELSE Base * Power[k - 1]
<1> DEFINE Solves(g, n) == g = [k \in 0 .. n |-> IF k = 0 THEN 1 ELSE Base * g[k - 1]]
           S == { n \in Nat : \E g : Solves(g, n) }
<1>1. 0 \in S
  <2>1. Solves([k \in 0 .. 0 |-> 1], 0)
    OBVIOUS
  <2> QED
    BY <2>1
<1>2. ASSUME NEW n \in S PROVE n + 1 \in S
  <2>1. PICK g : Solves(g, n)
    BY <1>2
  <2> DEFINE h == [k \in 0 .. n + 1 |-> IF k = n + 1 THEN Base * g[n] ELSE g[k]]
  <2>2. \A k \in 0 .. n : g[k] = IF k = 0 THEN 1 ELSE Base * g[k - 1]
    BY <2>1
  <2>3. ASSUME NEW k \in 0 .. n + 1 PROVE h[k] = IF k = 0 THEN 1 ELSE Base * h[k - 1]
    <3>1. CASE k = n + 1
      <4>1. k # 0 /\ k - 1 = n /\ n \in 0 .. n + 1 /\ n # n + 1
        BY <1>2, <3>1
      <4>2. h[k] = Base * g[n] /\ h[n] = g[n]
        BY <3>1, <4>1
      <4> HIDE DEF h
      <4> QED
        BY <3>1, <4>1, <4>2, Zenon
    <3>2. CASE k \in 0 .. n
      <4>1. h[k] = g[k] /\ (k # 0 => h[k - 1] = g[k - 1])
        BY <1>2, <3>2
      <4> HIDE DEF h
      <4> QED
        BY <2>2, <3>2, <4>1
    <3> QED
      BY <1>2, <3>1, <3>2
  <2>4. Solves(h, n + 1)
    BY <2>3
  <2> HIDE DEF h, Solves
  <2> QED
    BY <1>2, <2>4
<1>3. S = Nat
  <2> HIDE DEF Solves
  <2> QED
    BY <1>1, <1>2, NatSet
<1> HIDE DEF Solves
<1>4. PICK g : Solves(g, Width[4])
  BY <1>3, Constants
<1>5. Solves(CHOOSE h : Solves(h, Width[4]), Width[4])
  BY <1>4, Zenon
<1>6. Power = (CHOOSE h : Solves(h, Width[4]))
  BY DEF Power, Solves
<1> QED
  BY <1>5, <1>6 DEF Solves

LEMMA PowerNat ==
    /\ \A k \in 0 .. Width[4] : Power[k] \in Nat \ {0}
    /\ Power[0] = 1
    /\ \A k \in 0 .. Width[4] - 1 : Power[k + 1] = Base * Power[k]
<1> DEFINE S == { k \in 0 .. Width[4] : Power[k] \in Nat \ {0} }
<1>1. Power[0] = 1 /\ \A k \in 0 .. Width[4] - 1 : Power[k + 1] = Base * Power[k]
  BY PowerEquation, Constants
<1>2. 0 \in S
  BY <1>1, Constants
<1>3. ASSUME NEW k \in 0 .. Width[4] - 1, k \in S PROVE k + 1 \in S
  <2>1. Power[k + 1] = Base * Power[k]
    BY <1>1
  <2>2. Base * Power[k] \in Nat \ {0}
    BY <1>3, Constants
  <2> QED
    BY <2>1, <2>2, Constants
<1>4. \A k \in 0 .. Width[4] : k \in S
  <2> HIDE DEF S
  <2> QED
    BY <1>2, <1>3, UpTo, Constants
<1> QED
  BY <1>1, <1>4

\* Base ^ (a + b) = Base ^ a * Base ^ b
LEMMA PowerSum ==
    ASSUME NEW a \in Nat, NEW b \in Nat, a + b <= Width[4]
    PROVE  Power[a + b] = Power[a] * Power[b]
<1> DEFINE S == { k \in 0 .. b : Power[a + k] = Power[a] * Power[k] }
<1>1. 0 \in S
  BY PowerNat, Constants
<1>2. ASSUME NEW k \in 0 .. b - 1, k \in S PROVE k + 1 \in S
  <2>1. /\ Power[(a + k) + 1] = Base * Power[a + k] /\ Power[k + 1] = Base * Power[k]
        /\ Power[a] \in Nat /\ Power[k] \in Nat
    BY PowerNat, Constants
  <2>2. Base * (Power[a] * Power[k]) = Power[a] * (Base * Power[k])
    BY <2>1, Constants
  <2>3. a + (k + 1) = (a + k) + 1
    OBVIOUS
  <2> QED
    BY <1>2, <2>1, <2>2, <2>3
<1>3. \A k \in 0 .. b : k \in S
  <2> HIDE DEF S
  <2> QED
    BY <1>1, <1>2, UpTo
<1> QED
  BY <1>3

LEMMA PowerGrows ==
    ASSUME NEW a \in 0 .. Width[4], NEW b \in 0 .. Width[4], a < b
    PROVE  Base * Power[a] <= Power[b]
<1>1. Power[(a + 1) + (b - a - 1)] = Power[a + 1] * Power[b - a - 1]
  BY PowerSum, Constants
<1>2. Power[a + 1] = Base * Power[a] /\ Power[b - a - 1] \in Nat \ {0} /\ Power[a] \in Nat
  BY PowerNat, Constants
<1>3. Base * Power[a] \in Nat
  BY <1>2, Constants
<1>4. \A x \in Nat, y \in Nat \ {0} : x <= x * y
  OBVIOUS
<1>5. (a + 1) + (b - a - 1) = b
  BY Constants
<1>6. Power[b] = (Base * Power[a]) * Power[b - a - 1]
  BY <1>1, <1>2, <1>5
<1> QED
  BY <1>2, <1>3, <1>4, <1>6

LEMMA PowerHalf ==
    ASSUME NEW w \in 1 .. Width[4]
    PROVE  /\ Power[w] \div 2 \in Nat \ {0} /\ Power[w] = 2 * (Power[w] \div 2)
           /\ Power[w] \div 2 = (Base \div 2) * Power[w - 1]
           /\ Base \div 2 \in Nat /\ Base = 2 * (Base \div 2)
<1>1. PICK k \in Nat : Base = 8 * k /\ k >= 5
  BY Constants
<1>2. Base \div 2 = 4 * k /\ Base = 2 * (Base \div 2)
  BY <1>1
<1>3. w - 1 \in 0 .. Width[4] - 1 /\ w \in 0 .. Width[4] /\ (w - 1) + 1 = w
  BY Constants
<1>4. Power[w] = Base * Power[w - 1] /\ Power[w - 1] \in Nat \ {0} /\ Power[w] \in Nat \ {0}
  BY <1>3, PowerNat, Constants
<1> DEFINE h == (Base \div 2) * Power[w - 1]
<1>5. h \in Nat /\ Power[w] = 2 * h
  BY <1>1, <1>2, <1>4
<1> HIDE DEF h
<1>6. Power[w] \div 2 = h /\ h # 0
  BY <1>4, <1>5
<1> QED
  BY <1>1, <1>2, <1>5, <1>6 DEF h

-----------------------------------------------------------------------------
(* The bytes of an integer *)

LEMMA UnsignedEquation ==
    ASSUME NEW s \in Seq(Byte)
    PROVE  \E g : /\ g[0] = 0 /\ \A i \in 1 .. Len(s) : g[i] = Base * g[i - 1] + s[i]
                  /\ Unsigned(s) = g[Len(s)]
<1> DEFINE Solves(g, n) == g = [i \in 0 .. n |-> IF i = 0 THEN 0 ELSE Base * g[i - 1] + s[i]]
           S == { n \in Nat : \E g : Solves(g, n) }
<1>1. 0 \in S
  <2>1. Solves([i \in 0 .. 0 |-> 0], 0)
    OBVIOUS
  <2> QED
    BY <2>1
<1>2. ASSUME NEW n \in S PROVE n + 1 \in S
  <2>1. PICK g : Solves(g, n)
    BY <1>2
  <2> DEFINE h == [i \in 0 .. n + 1 |-> IF i = n + 1 THEN Base * g[n] + s[n + 1] ELSE g[i]]
  <2>2. \A i \in 0 .. n : g[i] = IF i = 0 THEN 0 ELSE Base * g[i - 1] + s[i]
    BY <2>1
  <2>3. ASSUME NEW i \in 0 .. n + 1 PROVE h[i] = IF i = 0 THEN 0 ELSE Base * h[i - 1] + s[i]
    <3>1. CASE i = n + 1
      <4>1. i # 0 /\ i - 1 = n /\ n \in 0 .. n + 1 /\ n # n + 1
        BY <1>2, <3>1
      <4>2. h[i] = Base * g[n] + s[n + 1] /\ h[n] = g[n]
        BY <3>1, <4>1
      <4> HIDE DEF h
      <4> QED
        BY <3>1, <4>1, <4>2, Zenon
    <3>2. CASE i \in 0 .. n
      <4>1. h[i] = g[i] /\ (i # 0 => h[i - 1] = g[i - 1])
        BY <1>2, <3>2
      <4> HIDE DEF h
      <4> QED
        BY <2>2, <3>2, <4>1
    <3> QED
      BY <1>2, <3>1, <3>2
  <2>4. Solves(h, n + 1)
    BY <2>3
  <2> HIDE DEF h, Solves
  <2> QED
    BY <1>2, <2>4
<1>3. S = Nat
  <2> HIDE DEF Solves
  <2> QED
    BY <1>1, <1>2, NatSet
<1> HIDE DEF Solves
<1>0. Len(s) \in Nat
  OBVIOUS
<1>4. PICK g : Solves(g, Len(s))
  BY <1>0, <1>3
<1>5. Solves(CHOOSE h : Solves(h, Len(s)), Len(s))
  BY <1>4, Zenon
<1>6. Unsigned(s) = (CHOOSE h : Solves(h, Len(s)))[Len(s)]
  BY DEF Unsigned, Solves
<1> DEFINE h == CHOOSE h : Solves(h, Len(s))
<1>7. h = [i \in 0 .. Len(s) |-> IF i = 0 THEN 0 ELSE Base * h[i - 1] + s[i]]
  BY <1>5 DEF Solves
<1>8. Unsigned(s) = h[Len(s)]
  BY <1>6
<1> HIDE DEF h
<1>9. \A i \in 0 .. Len(s) : h[i] = IF i = 0 THEN 0 ELSE Base * h[i - 1] + s[i]
  BY <1>7
<1>10. h[0] = 0 /\ \A i \in 1 .. Len(s) : h[i] = Base * h[i - 1] + s[i]
  BY <1>0, <1>9
<1> QED
  BY <1>8, <1>10

LEMMA UnsignedRange ==
    ASSUME NEW s \in Seq(Byte), Len(s) <= Width[4]
    PROVE  Unsigned(s) \in 0 .. Power[Len(s)] - 1
<1>1. PICK g : /\ g[0] = 0 /\ \A i \in 1 .. Len(s) : g[i] = Base * g[i - 1] + s[i]
               /\ Unsigned(s) = g[Len(s)]
  BY UnsignedEquation
<1> DEFINE S == { i \in 0 .. Len(s) : g[i] \in 0 .. Power[i] - 1 }
<1>0. Len(s) \in 0 .. Width[4] /\ \A i \in 1 .. Len(s) : s[i] \in Byte
  BY Constants
<1>2. 0 \in S
  BY <1>0, <1>1, PowerNat
<1>3. ASSUME NEW i \in 0 .. Len(s) - 1, i \in S PROVE i + 1 \in S
  <2>1. g[i] \in 0 .. Power[i] - 1
    BY <1>3
  <2>2. g[i + 1] = Base * g[i] + s[i + 1]
    BY <1>1
  <2>3. s[i + 1] \in 0 .. Base - 1
    BY <1>0 DEF Byte
  <2>4. Power[i] \in Nat /\ Power[i + 1] = Base * Power[i]
    BY <1>0, PowerNat, Constants
  <2>5. /\ Base * g[i] \in Nat /\ Base * Power[i] \in Nat
        /\ (Base * g[i]) + Base <= Base * Power[i]
    <3>1. ASSUME NEW x \in Nat, NEW y \in Nat, x + 1 <= y, NEW b \in Nat
          PROVE  b * x \in Nat /\ b * y \in Nat /\ (b * x) + b <= b * y
      <4>1. b * (x + 1) <= b * y
        BY <3>1
      <4> QED
        BY <4>1
    <3>2. g[i] \in Nat /\ g[i] + 1 <= Power[i]
      BY <2>1, <2>4
    <3>3. PICK x, y : x = g[i] /\ y = Power[i]
      OBVIOUS
    <3>4. x \in Nat /\ y \in Nat /\ x + 1 <= y /\ Base \in Nat
      BY <2>4, <3>2, <3>3, Constants
    <3>5. Base * x \in Nat /\ Base * y \in Nat /\ (Base * x) + Base <= Base * y
      BY <3>1, <3>4
    <3> QED
      BY <3>3, <3>5, Zenon
  <2>6. g[i + 1] \in 0 .. Power[i + 1] - 1
    <3>1. PICK x, y, d : x = Base * g[i] /\ y = Base * Power[i] /\ d = s[i + 1]
      OBVIOUS
    <3>2. g[i + 1] = x + d /\ Power[i + 1] = y
      BY <2>2, <2>3, <2>4, <3>1
    <3>3. x \in Nat /\ y \in Nat /\ x + Base <= y /\ d \in 0 .. Base - 1
      BY <2>2, <2>3, <2>4, <2>5, <3>1
    <3>4. x + d \in 0 .. y - 1
      BY <3>3, Constants
    <3> QED
      BY <3>2, <3>4
  <2> QED
    BY <1>0, <2>6
<1>4. \A i \in 0 .. Len(s) : i \in S
  <2> HIDE DEF S
  <2>1. Len(s) \in Nat
    OBVIOUS
  <2> QED
    BY <1>2, <1>3, <2>1, UpTo
<1> QED
  BY <1>0, <1>1, <1>4

\* The rest by a * b, from the rest by b and then by a
LEMMA RestTwice ==
    ASSUME NEW n \in Int, NEW a \in Nat \ {0}, NEW b \in Nat \ {0}
    PROVE  n % (b * a) = (b * ((n \div b) % a)) + (n % b)
<1> DEFINE q == n \div b
           r == n % b
           q2 == q \div a
           r2 == q % a
<1>1. q \in Int /\ r \in 0 .. b - 1 /\ n = (b * q) + r
  BY Divides
<1>2. q2 \in Int /\ r2 \in 0 .. a - 1 /\ q = (a * q2) + r2
  BY <1>1, Divides
<1> HIDE DEF q, r, q2, r2
<1>3. b * q = (b * (a * q2)) + (b * r2)
  BY <1>1, <1>2
<1>4. b * (a * q2) = (b * a) * q2
  BY <1>2
<1>5. b * r2 \in Int /\ 0 <= b * r2 /\ (b * r2) + b <= b * a
  <2>1. b * (r2 + 1) <= b * a
    BY <1>2
  <2> QED
    BY <2>1, <1>2
<1>6. b * a \in Nat \ {0} /\ (b * r2) + r \in 0 .. (b * a) - 1
  BY <1>1, <1>5
<1>7. n = ((b * a) * q2) + ((b * r2) + r)
  BY <1>1, <1>2, <1>3, <1>4, <1>5
<1>8. n % (b * a) = (b * r2) + r
  BY <1>2, <1>6, <1>7, DividesOnce
<1> QED
  BY <1>8 DEF r2, r, q

LEMMA BytesTyped ==
    ASSUME NEW n \in Int, NEW w \in 1 .. Width[4]
    PROVE  Bytes(n, w) \in Seq(Byte) /\ Len(Bytes(n, w)) = w
<1>1. ASSUME NEW i \in 1 .. w PROVE (n \div Power[w - i]) % Base \in Byte
  <2>1. Power[w - i] \in Nat \ {0}
    BY PowerNat, Constants
  <2>2. n \div Power[w - i] \in Int
    BY <2>1, Divides
  <2> DEFINE q == n \div Power[w - i]
  <2>4. q \in Int /\ Base \in Nat \ {0}
    BY <2>2, Constants
  <2> HIDE DEF q
  <2>3. q % Base \in 0 .. Base - 1
    BY <2>4, Divides
  <2> QED
    BY <2>3 DEF Byte, q
<1>2. Bytes(n, w) \in [1 .. w -> Byte]
  BY <1>1 DEF Bytes
<1> QED
  BY <1>2, Constants

\* The bytes that htobe16() .. htobe64() make of an integer are read back, by be16toh() ..
\* be64toh(), as the integer modulo the number of values of their width.
THEOREM UnsignedBytes ==
    ASSUME NEW n \in Int, NEW w \in 1 .. Width[4]
    PROVE  Unsigned(Bytes(n, w)) = n % Power[w]
<1> DEFINE s == Bytes(n, w)
<1>1. s \in Seq(Byte) /\ Len(s) = w /\ \A i \in 1 .. w : s[i] = (n \div Power[w - i]) % Base
  BY BytesTyped DEF Bytes
<1> HIDE DEF s
<1>2. PICK g : /\ g[0] = 0 /\ \A i \in 1 .. w : g[i] = Base * g[i - 1] + s[i]
               /\ Unsigned(s) = g[w]
  BY <1>1, UnsignedEquation
<1> DEFINE S == { i \in 0 .. w : g[i] = (n \div Power[w - i]) % Power[i] }
<1>3. 0 \in S
  <2>0. w \in 0 .. Width[4] /\ w - 0 = w
    BY Constants
  <2>1. n \div Power[w - 0] \in Int
    <3>1. Power[w] \in Nat \ {0}
      BY <2>0, PowerNat
    <3> QED
      BY <2>0, <3>1, Divides
  <2>2. (n \div Power[w - 0]) % 1 = 0
    BY <2>1, Divides
  <2> QED
    BY <1>2, <2>2, PowerNat, Constants
<1>4. ASSUME NEW i \in 0 .. w - 1, i \in S PROVE i + 1 \in S
  <2> DEFINE N == n \div Power[w - (i + 1)]
  <2>1. /\ Power[w - (i + 1)] \in Nat \ {0} /\ Power[i] \in Nat \ {0}
        /\ Power[i + 1] = Base * Power[i]
        /\ Power[w - i] = Power[w - (i + 1)] * Base
    <3>1. w - (i + 1) \in 0 .. Width[4] - 1 /\ (w - (i + 1)) + 1 = w - i /\ i \in 0 .. Width[4] - 1
      BY Constants
    <3>2. Power[(w - (i + 1)) + 1] = Base * Power[w - (i + 1)]
          /\ Power[w - (i + 1)] \in Nat \ {0}
      BY <3>1, PowerNat, Constants
    <3> QED
      BY <3>1, <3>2, PowerNat, Constants
  <2>2. N \in Int
    BY <2>1, Divides
  <2>3. N \div Base = n \div Power[w - i]
    <3> DEFINE a == Power[w - (i + 1)]
    <3>1. a \in Nat \ {0} /\ Power[w - i] = a * Base /\ Base \in Nat \ {0}
      BY <2>1, Constants
    <3> HIDE DEF a
    <3>2. (n \div a) \div Base = n \div (a * Base)
      BY <3>1, DividesTwice
    <3> QED
      BY <3>1, <3>2 DEF a
  <2>4. s[i + 1] = N % Base
    BY <1>1
  <2>5. g[i] = (n \div Power[w - i]) % Power[i] /\ g[i + 1] = Base * g[i] + s[i + 1]
    BY <1>2, <1>4
  <2>6. N % (Base * Power[i]) = (Base * ((N \div Base) % Power[i])) + (N % Base)
    <3>1. Base \in Nat \ {0}
      BY Constants
    <3> HIDE DEF N
    <3> QED
      BY <2>1, <2>2, <3>1, RestTwice
  <2>7. g[i + 1] = N % Power[i + 1]
    BY <2>1, <2>3, <2>4, <2>5, <2>6
  <2> QED
    BY <2>7, Constants
<1>5. \A i \in 0 .. w : i \in S
  <2> HIDE DEF S
  <2> QED
    BY <1>3, <1>4, UpTo
<1>6. g[w] = (n \div Power[w - w]) % Power[w]
  BY <1>5
<1>7. n \div Power[w - w] = n
  BY PowerNat
<1> QED
  BY <1>2, <1>6, <1>7 DEF s

-----------------------------------------------------------------------------
(* Types and tags *)

LEMMA TypeFacts ==
    /\ IntTypes = {"uint8", "uint16", "uint32", "uint64", "int8", "int16", "int32", "int64"}
    /\ SignedTypes = {"int8", "int16", "int32", "int64"}
    /\ Uint[1] = "uint8" /\ Uint[2] = "uint16" /\ Uint[3] = "uint32" /\ Uint[4] = "uint64"
    /\ Sint[1] = "int8" /\ Sint[2] = "int16" /\ Sint[3] = "int32" /\ Sint[4] = "int64"
<1>1. /\ Uint[1] = "uint8" /\ Uint[2] = "uint16" /\ Uint[3] = "uint32" /\ Uint[4] = "uint64"
      /\ Sint[1] = "int8" /\ Sint[2] = "int16" /\ Sint[3] = "int32" /\ Sint[4] = "int64"
  BY DEF Uint, Sint
<1>2. \A l : l \in 1 .. 4 <=> l = 1 \/ l = 2 \/ l = 3 \/ l = 4
  OBVIOUS
<1>3. SignedTypes = {"int8", "int16", "int32", "int64"}
  BY <1>1, <1>2 DEF SignedTypes
<1>4. { Uint[l] : l \in 1 .. 4 } = {"uint8", "uint16", "uint32", "uint64"}
  BY <1>1, <1>2
<1> QED
  BY <1>1, <1>3, <1>4 DEF IntTypes

LEMMA LevelFacts ==
    /\ \A l \in 1 .. 4 : Level[Uint[l]] = l /\ Level[Sint[l]] = l
    /\ Level["float"] = 3 /\ Level["double"] = 4
    /\ \A type \in Tagged : Level[type] \in 1 .. 4
    /\ \A type \in Tagged : Size[type] = Width[Level[type]]
<1>1. ASSUME NEW type \in IntTypes, NEW k \in 1 .. 4, type \in {Uint[k], Sint[k]}
      PROVE  Level[type] = k
  <2>1. \A l \in 1 .. 4 : type \in {Uint[l], Sint[l]} => l = k
    BY <1>1, TypeFacts
  <2>2. (CHOOSE l \in 1 .. 4 : type \in {Uint[l], Sint[l]}) = k
    BY <1>1, <2>1
  <2>3. type # "float" /\ type # "double" /\ type \in Tagged
    BY TypeFacts DEF Tagged
  <2> QED
    BY <2>2, <2>3 DEF Level
<1>2. \A l \in 1 .. 4 : Level[Uint[l]] = l /\ Level[Sint[l]] = l
  <2> TAKE l \in 1 .. 4
  <2>1. Uint[l] \in IntTypes /\ Sint[l] \in IntTypes
    BY DEF IntTypes, SignedTypes
  <2> QED
    BY <1>1, <2>1
<1>3. Level["float"] = 3 /\ Level["double"] = 4
  BY DEF Level, Tagged
<1>4. \A type \in Tagged : Level[type] \in 1 .. 4
  <2> TAKE type \in Tagged
  <2>1. CASE type \in IntTypes
    BY <1>2, <2>1, TypeFacts
  <2>2. CASE type \in {"float", "double"}
    BY <1>3, <2>2
  <2> QED
    BY <2>1, <2>2 DEF Tagged
<1> QED
  BY <1>2, <1>3, <1>4 DEF Size

LEMMA LevelOf ==
    /\ Level["uint8"] = 1 /\ Level["uint16"] = 2 /\ Level["uint32"] = 3 /\ Level["uint64"] = 4
    /\ Level["int8"] = 1 /\ Level["int16"] = 2 /\ Level["int32"] = 3 /\ Level["int64"] = 4
    /\ Level["float"] = 3 /\ Level["double"] = 4
BY LevelFacts, TypeFacts

LEMMA SizeFacts ==
    \A type \in Tagged : Size[type] \in 1 .. Width[4]
<1> TAKE type \in Tagged
<1>1. Level[type] \in 1 .. 4 /\ Size[type] = Width[Level[type]]
  BY LevelFacts
<1> QED
  BY <1>1, Constants

LEMMA TagOf ==
    /\ Tag["float"] = FirstTag - 2 /\ Tag["double"] = FirstTag - 1
    /\ Tag["uint8"] = FirstTag /\ Tag["uint16"] = FirstTag + 1
    /\ Tag["uint32"] = FirstTag + 2 /\ Tag["uint64"] = FirstTag + 3
    /\ Tag["int8"] = FirstTag + 4 /\ Tag["int16"] = FirstTag + 5
    /\ Tag["int32"] = FirstTag + 6 /\ Tag["int64"] = FirstTag + 7
<1>1. ASSUME NEW type \in Tagged, type \in {"float", "double"}
      PROVE  Tag[type] = FirstTag + (Level[type] - 5)
  <2>1. type \notin SignedTypes
    BY <1>1, TypeFacts
  <2> QED
    BY <1>1, <2>1 DEF Tag
<1>2. ASSUME NEW type \in Tagged, type \in SignedTypes
      PROVE  Tag[type] = FirstTag + (Level[type] + 3)
  <2>1. type \notin {"float", "double"}
    BY <1>2, TypeFacts
  <2> QED
    BY <1>2, <2>1 DEF Tag
<1>3. ASSUME NEW type \in Tagged, type \notin SignedTypes, type \notin {"float", "double"}
      PROVE  Tag[type] = FirstTag + (Level[type] - 1)
  BY <1>3 DEF Tag
<1>4. /\ Tag["float"] = FirstTag + (Level["float"] - 5)
      /\ Tag["double"] = FirstTag + (Level["double"] - 5)
  BY <1>1 DEF Tagged
<1>5. \A type \in {"uint8", "uint16", "uint32", "uint64"} : Tag[type] = FirstTag + (Level[type] - 1)
  <2> TAKE type \in {"uint8", "uint16", "uint32", "uint64"}
  <2>1. type \in Tagged /\ type \notin SignedTypes /\ type \notin {"float", "double"}
    BY TypeFacts DEF Tagged
  <2> QED
    BY <1>3, <2>1
<1>6. \A type \in {"int8", "int16", "int32", "int64"} : Tag[type] = FirstTag + (Level[type] + 3)
  <2> TAKE type \in {"int8", "int16", "int32", "int64"}
  <2>1. type \in Tagged /\ type \in SignedTypes
    BY TypeFacts DEF Tagged
  <2> QED
    BY <1>2, <2>1
<1> QED
  BY <1>4, <1>5, <1>6, LevelOf, Constants


\* The tags are bytes, all different, which do not hold an integer by themselves.
LEMMA TagBounds ==
    /\ \A type \in Tagged : Tag[type] \in FirstTag - 2 .. FirstTag + 7
    /\ \A t \in Tagged, u \in Tagged : Tag[t] = Tag[u] => t = u
    /\ FirstTag - 6 >= Base \div 2 /\ FirstTag + 7 < Base - Base \div 8
    /\ Base \div 8 \in Nat /\ Base \div 2 \in Nat
<1>1. Base = 8 * (Base \div 8) /\ Base \div 8 \in Nat /\ Base \div 2 = 4 * (Base \div 8)
  <2>1. PICK k \in Nat : Base = 8 * k
    BY Constants
  <2> QED
    BY <2>1
<1>2. FirstTag - 6 >= Base \div 2 /\ FirstTag + 7 < Base - Base \div 8 /\ Base \div 2 \in Nat
  BY <1>1, BaseAssumption
<1>3. FirstTag \in Nat
  BY Constants
<1>4. Tagged = {"uint8", "uint16", "uint32", "uint64", "int8", "int16", "int32", "int64",
                "float", "double"}
  BY TypeFacts DEF Tagged
<1>5. \A type \in Tagged : Tag[type] \in FirstTag - 2 .. FirstTag + 7
  BY <1>3, <1>4, TagOf
<1>6. \A t \in Tagged, u \in Tagged : Tag[t] = Tag[u] => t = u
  BY <1>3, <1>4, TagOf
<1> QED
  BY <1>1, <1>2, <1>5, <1>6

LEMMA TagFacts ==
    ASSUME NEW type \in Tagged
    PROVE  /\ Tag[type] \in Byte /\ ~Fixuint(Tag[type]) /\ ~Fixint(Tag[type])
           /\ HasPayload(Tag[type]) /\ TypeOfTag[Tag[type]] = type
           /\ Tag[type] \notin {NilTag, FalseTag, TrueTag}
<1>1. Tag[type] \in FirstTag - 2 .. FirstTag + 7
  BY TagBounds
<1>2. Tag[type] \in Byte /\ ~Fixuint(Tag[type]) /\ ~Fixint(Tag[type])
  BY <1>1, TagBounds, Constants DEF Byte, Fixuint, Fixint
<1>3. Tag[type] \notin {NilTag, FalseTag, TrueTag}
  BY <1>1, Constants DEF NilTag, FalseTag, TrueTag
<1>4. Tag[type] \in PayloadTags
  BY DEF PayloadTags
<1>5. (CHOOSE t \in Tagged : Tag[t] = Tag[type]) = type
  BY TagBounds
<1>6. TypeOfTag[Tag[type]] = type
  BY <1>4, <1>5 DEF TypeOfTag
<1> QED
  BY <1>2, <1>3, <1>4, <1>6 DEF HasPayload

\* A byte that has a payload is the tag of its type; the others have none.
LEMMA PayloadOf ==
    ASSUME NEW tag, HasPayload(tag)
    PROVE  TypeOfTag[tag] \in Tagged /\ Tag[TypeOfTag[tag]] = tag
<1>1. PICK type \in Tagged : Tag[type] = tag
  BY DEF HasPayload, PayloadTags
<1> QED
  BY <1>1, TagFacts

LEMMA AtomFacts ==
    /\ {NilTag, FalseTag, TrueTag} \subseteq Byte
    /\ \A tag \in {NilTag, FalseTag, TrueTag} : ~Fixuint(tag) /\ ~Fixint(tag) /\ ~HasPayload(tag)
    /\ \A tag \in Byte : Fixuint(tag) \/ Fixint(tag) => ~HasPayload(tag)
    /\ \A tag \in Byte : ~(Fixuint(tag) /\ Fixint(tag))
    /\ NilTag # FalseTag /\ NilTag # TrueTag /\ FalseTag # TrueTag
<1>1. ASSUME NEW tag, HasPayload(tag)
      PROVE  ~Fixuint(tag) /\ ~Fixint(tag) /\ tag \notin {NilTag, FalseTag, TrueTag}
  BY <1>1, PayloadOf, TagFacts
<1>2. /\ NilTag \in Byte /\ FalseTag \in Byte /\ TrueTag \in Byte
      /\ NilTag # FalseTag /\ NilTag # TrueTag /\ FalseTag # TrueTag
  BY TagBounds, Constants DEF NilTag, FalseTag, TrueTag, Byte
<1>3. \A tag \in {NilTag, FalseTag, TrueTag} : ~Fixuint(tag) /\ ~Fixint(tag)
  BY TagBounds, Constants DEF NilTag, FalseTag, TrueTag, Fixuint, Fixint
<1>4. \A tag \in Byte : ~(Fixuint(tag) /\ Fixint(tag))
  BY TagBounds, Constants DEF Fixuint, Fixint, Byte
<1> QED
  BY <1>1, <1>2, <1>3, <1>4

-----------------------------------------------------------------------------
(* The ranges of the types of integers *)

LEMMA RangeFacts ==
    ASSUME NEW l \in 1 .. 4
    PROVE  /\ Size[Uint[l]] = Width[l] /\ Size[Sint[l]] = Width[l]
           /\ RangeOf[Uint[l]] = 0 .. Power[Width[l]] - 1
           /\ RangeOf[Sint[l]] = -(Power[Width[l]] \div 2) .. Power[Width[l]] \div 2 - 1
           /\ Uint[l] \in IntTypes \ SignedTypes /\ Sint[l] \in SignedTypes
           /\ Uint[l] \in Tagged /\ Sint[l] \in Tagged /\ Sint[l] \in IntTypes
<1>1. Uint[l] \in IntTypes \ SignedTypes /\ Sint[l] \in SignedTypes /\ Sint[l] \in IntTypes
  BY TypeFacts
<1>2. Uint[l] \in Tagged /\ Sint[l] \in Tagged
  BY <1>1 DEF Tagged
<1>3. Size[Uint[l]] = Width[l] /\ Size[Sint[l]] = Width[l]
  BY <1>2, LevelFacts
<1>4. RangeOf[Uint[l]] = 0 .. Power[Width[l]] - 1
  BY <1>1, <1>3 DEF RangeOf
<1>5. RangeOf[Sint[l]] = -(Power[Width[l]] \div 2) .. Power[Width[l]] \div 2 - 1
  BY <1>1, <1>3 DEF RangeOf
<1> QED
  BY <1>1, <1>2, <1>3, <1>4, <1>5

\* A wider type holds the numbers of a narrower one of the same sign, and the signed
\* ones hold those of the unsigned ones that are narrower.
LEMMA RangesNest ==
    ASSUME NEW k \in 1 .. 4, NEW l \in 1 .. 4, k < l
    PROVE  /\ Width[k] < Width[l]
           /\ RangeOf[Uint[k]] \subseteq RangeOf[Uint[l]]
           /\ RangeOf[Sint[k]] \subseteq RangeOf[Sint[l]]
           /\ RangeOf[Uint[k]] \subseteq RangeOf[Sint[l]]
<1>1. /\ Width[k] < Width[l] /\ Width[k] \in 1 .. Width[4] /\ Width[l] \in 1 .. Width[4]
  <2>1. k \in {1, 2, 3, 4} /\ l \in {1, 2, 3, 4}
    OBVIOUS
  <2> QED
    BY <2>1, Constants
<1> DEFINE a == Power[Width[k]]
           b == Power[Width[l]]
<1>2. Base * a <= b
  <2>1. Width[k] \in 0 .. Width[4] /\ Width[l] \in 0 .. Width[4]
    BY <1>1
  <2> QED
    BY <1>1, <2>1, PowerGrows
<1>3. /\ a \div 2 \in Nat /\ a = 2 * (a \div 2) /\ b \div 2 \in Nat /\ b = 2 * (b \div 2)
      /\ Base \in Nat /\ Base >= 2
  BY <1>1, PowerHalf, Constants
<1>4. /\ RangeOf[Uint[k]] = 0 .. a - 1 /\ RangeOf[Uint[l]] = 0 .. b - 1
      /\ RangeOf[Sint[k]] = -(a \div 2) .. a \div 2 - 1
      /\ RangeOf[Sint[l]] = -(b \div 2) .. b \div 2 - 1
  BY RangeFacts
<1> HIDE DEF a, b
<1>5. 2 * a <= b
  <2>1. a \in Nat
    BY <1>3
  <2>2. 2 * a <= Base * a
    BY <1>3, <2>1
  <2> QED
    BY <1>2, <1>3, <2>1, <2>2
<1>6. a <= b \div 2 /\ a \div 2 <= b \div 2 /\ a <= b
  BY <1>3, <1>5
<1> QED
  BY <1>1, <1>3, <1>4, <1>6


-----------------------------------------------------------------------------
(* The numbers that bytes stand for *)

LEMMA SignedFacts ==
    ASSUME NEW w \in 1 .. Width[4], NEW n \in 0 .. Power[w] - 1
    PROVE  /\ Signed(n, w) \in -(Power[w] \div 2) .. Power[w] \div 2 - 1
           /\ Signed(n, w) >= 0 <=> n <= Power[w] \div 2 - 1
           /\ Signed(n, w) >= 0 => Signed(n, w) = n
<1> DEFINE h == Power[w] \div 2
<1>1. h \in Nat /\ Power[w] = 2 * h
  BY PowerHalf
<1>2. Signed(n, w) = IF n >= h THEN n - Power[w] ELSE n
  BY DEF Signed
<1> HIDE DEF h
<1> QED
  BY <1>1, <1>2 DEF h

\* Two's complement
LEMMA SignedWraps ==
    ASSUME NEW w \in 1 .. Width[4], NEW n \in -(Power[w] \div 2) .. Power[w] \div 2 - 1
    PROVE  Signed(n % Power[w], w) = n
<1> DEFINE h == Power[w] \div 2
           all == Power[w]
<1>1. h \in Nat /\ all = 2 * h /\ all \in Nat \ {0} /\ n \in -h .. h - 1
  <2>1. h \in Nat \ {0} /\ all = 2 * h
    BY PowerHalf
  <2> QED
    BY <2>1
<1>2. \A m : Signed(m, w) = IF m >= h THEN m - all ELSE m
  BY DEF Signed
<1>3. CASE n >= 0
  <2>1. n \in 0 .. all - 1
    BY <1>1, <1>3
  <2> HIDE DEF all, h
  <2>2. n % all = n
    BY <1>1, <2>1, RestOf
  <2> QED
    BY <1>1, <1>2, <2>2 DEF all
<1>4. CASE n < 0
  <2> DEFINE r == n + all
  <2>1. r \in 0 .. all - 1 /\ n = r - all
    BY <1>1, <1>4
  <2> HIDE DEF all, h, r
  <2>2. n % all = r
    BY <1>1, <2>1, RestOf
  <2> QED
    BY <1>1, <1>2, <1>4, <2>2 DEF all, r
<1> QED
  BY <1>1, <1>3, <1>4

LEMMA FinerFacts ==
    ASSUME NEW w \in 1 .. Width[4]
    PROVE  /\ Finer(w) \in Nat \ {0}
           /\ Power[Width[4]] \div 2 = Finer(w) * (Power[w] \div 2)
<1>0. Width[4] \in Nat \ {0} /\ Width[4] - w \in 0 .. Width[4] /\ (Width[4] - w) + w = Width[4]
  BY Constants
<1>1. Finer(w) \in Nat \ {0}
  BY <1>0, PowerNat DEF Finer
<1>2. Power[Width[4]] = Finer(w) * Power[w]
  BY <1>0, PowerSum DEF Finer
<1>3. /\ Power[w] = 2 * (Power[w] \div 2) /\ Power[w] \div 2 \in Nat
      /\ Power[Width[4]] = 2 * (Power[Width[4]] \div 2) /\ Power[Width[4]] \div 2 \in Nat
  BY <1>0, PowerHalf
<1> DEFINE f == Finer(w)
           h == Power[w] \div 2
           g == Power[Width[4]] \div 2
<1>4. f \in Nat /\ h \in Nat /\ g \in Nat /\ 2 * g = f * (2 * h)
  BY <1>1, <1>2, <1>3
<1>5. g = f * h
  <2> HIDE DEF f, g, h
  <2>1. f * (2 * h) = 2 * (f * h)
    BY <1>4
  <2> QED
    BY <1>4, <2>1
<1> QED
  BY <1>1, <1>5

LEMMA RealTyped ==
    ASSUME NEW s \in Seq(Byte), Len(s) \in 1 .. Width[4]
    PROVE  Magnitude(s) \in Nat /\ RealOf(s) \in Int
<1>1. Unsigned(s) \in Int /\ Power[Len(s)] \div 2 \in Nat \ {0} /\ Finer(Len(s)) \in Nat
  BY UnsignedRange, PowerHalf, FinerFacts
<1>2. Magnitude(s) \in Nat
  <2> DEFINE u == Unsigned(s)
             h == Power[Len(s)] \div 2
  <2>1. u \in Int /\ h \in Nat \ {0}
    BY <1>1
  <2>2. Magnitude(s) = u % h
    BY DEF Magnitude
  <2> HIDE DEF u, h
  <2>3. u % h \in 0 .. h - 1
    BY <2>1, Divides
  <2> QED
    BY <2>1, <2>2, <2>3
<1>3. Magnitude(s) * Finer(Len(s)) \in Nat
  BY <1>1, <1>2
<1> QED
  BY <1>2, <1>3 DEF RealOf

\* A real is what its bytes stand for, if it has no more precision than they have:
\* dpack_encode_float() and dpack_encode_double(), read back.
THEOREM RealRoundTrip ==
    ASSUME NEW w \in 1 .. Width[4], NEW x \in Int, x % Finer(w) = 0,
           -(Power[Width[4]] \div 2) < x, x < Power[Width[4]] \div 2
    PROVE  /\ RealBytes(x, w) \in Seq(Byte) /\ Len(RealBytes(x, w)) = w
           /\ RealOf(RealBytes(x, w)) = x
<1> DEFINE f == Finer(w)
           h == Power[w] \div 2
           abs == IF x < 0 THEN -x ELSE x
           m == abs \div f
           n == IF x < 0 THEN h + m ELSE m
           s == RealBytes(x, w)
<1>1. f \in Nat \ {0} /\ h \in Nat \ {0} /\ Power[w] = 2 * h /\ Power[Width[4]] \div 2 = f * h
  BY FinerFacts, PowerHalf
<1>2. abs \in Nat /\ abs < f * h
  BY <1>1
<1>3. abs = f * m /\ m \in Nat /\ m < h
  <2> DEFINE q == x \div f
  <2>1. x = f * q /\ q \in Int
    <3>1. f \in Nat \ {0} /\ x % f = 0
      BY <1>1
    <3> HIDE DEF f
    <3>2. x \div f \in Int /\ x = (f * (x \div f)) + (x % f)
      BY <3>1, Divides
    <3>3. f * (x \div f) \in Int
      BY <3>1, <3>2
    <3> QED
      BY <3>1, <3>2, <3>3
  <2> HIDE DEF f, h, q
  <2>2. PICK k \in Int : abs = f * k
    <3>1. -x = f * (-q) /\ -q \in Int
      BY <1>1, <2>1
    <3> QED
      BY <2>1, <3>1
  <2>3. (f * k) + 0 = f * k /\ 0 \in 0 .. f - 1 /\ f * k \in Int
    BY <1>1
  <2>4. m = k
    BY <1>1, <2>2, <2>3, DividesAs, Zenon DEF m
  <2>5. k >= 0
    <3> SUFFICES ASSUME k <= -1 PROVE FALSE
      OBVIOUS
    <3>1. f * k <= f * (-1)
      BY <1>1
    <3> QED
      BY <1>1, <1>2, <2>2, <3>1
  <2>6. k < h
    <3> SUFFICES ASSUME h <= k PROVE FALSE
      BY <1>1
    <3>1. f * h <= f * k
      BY <1>1
    <3>2. f * h \in Int
      BY <1>1
    <3> QED
      BY <1>2, <2>2, <2>3, <3>1, <3>2
  <2> QED
    BY <2>2, <2>4, <2>5, <2>6
<1>4. s = Bytes(n, w)
  BY DEF RealBytes
<1> HIDE DEF s, m, h, f
<1>5. n \in 0 .. Power[w] - 1 /\ n \in Int
  BY <1>1, <1>3
<1>6. s \in Seq(Byte) /\ Len(s) = w /\ Unsigned(s) = n
  <2>1. s \in Seq(Byte) /\ Len(s) = w /\ Unsigned(s) = n % Power[w]
    BY <1>4, <1>5, BytesTyped, UnsignedBytes
  <2>2. Power[w] \in Nat \ {0}
    BY <1>1
  <2> HIDE DEF n
  <2>3. n % Power[w] = n
    BY <1>5, <2>2, RestOf
  <2> QED
    BY <2>1, <2>3
<1>7. Magnitude(s) = m
  <2>1. Magnitude(s) = n % h
    BY <1>6 DEF Magnitude, h
  <2>2. m \in 0 .. h - 1
    BY <1>1, <1>3
  <2>3. m % h = m /\ (h + m) % h = m
    BY <1>1, <2>2, RestOf
  <2> QED
    BY <2>1, <2>3
<1>8. RealOf(s) = m * f * (IF n = m THEN 1 ELSE -1)
  BY <1>6, <1>7 DEF RealOf, f
<1>9. RealOf(s) = x
  <2>1. m * f = abs
    BY <1>1, <1>3
  <2>2. CASE x < 0
    <3>1. n # m
      BY <1>1, <1>3, <2>2
    <3> QED
      BY <1>8, <2>1, <2>2, <3>1
  <2>3. CASE x >= 0
    <3>1. n = m
      BY <2>3
    <3> QED
      BY <1>8, <2>1, <2>3, <3>1
  <2> QED
    BY <2>2, <2>3
<1> QED
  BY <1>6, <1>9 DEF s


-----------------------------------------------------------------------------
(* What stands at a position of the stream *)

\* What the payload of a type stands for, and what a byte does that has none
ValueOf(type, s) ==
    IF type \notin IntTypes THEN RealOf(s)
    ELSE IF type \in SignedTypes THEN Signed(Unsigned(s), Len(s)) ELSE Unsigned(s)
AtomOf(tag) ==
    IF Fixuint(tag) THEN tag ELSE IF Fixint(tag) THEN tag - Base
    ELSE IF tag = TrueTag THEN 1 ELSE 0

LEMMA HeldBytes ==
    ASSUME buf \in Seq(Byte), NEW p \in Nat, NEW w \in Nat, Holds(p, w)
    PROVE  /\ BytesAt(p, w) \in Seq(Byte) /\ Len(BytesAt(p, w)) = w
           /\ \A i \in 1 .. w : BytesAt(p, w)[i] = buf[p + i]
<1>1. Len(buf) \in Nat /\ p + w <= Len(buf) /\ \A i \in 1 .. Len(buf) : buf[i] \in Byte
  BY DEF Holds
<1>2. BytesAt(p, w) = [i \in 1 .. w |-> buf[p + i]]
  BY <1>1 DEF BytesAt
<1>3. \A i \in 1 .. w : buf[p + i] \in Byte
  BY <1>1
<1> QED
  BY <1>2, <1>3

\* The payload at p, if it is whole, is that of the type of its tag.
LEMMA PayloadStands ==
    ASSUME NEW p \in Nat, NEW type \in Tagged, HeadAt(p) = Tag[type]
    PROVE  /\ HasPayload(HeadAt(p)) /\ TypeOfTag[HeadAt(p)] = type
           /\ PayloadAt(p) = Size[type] /\ EndOf(p) = p + 1 + Size[type]
           /\ IsReal(p) <=> type \notin IntTypes
<1>1. HasPayload(HeadAt(p)) /\ TypeOfTag[HeadAt(p)] = type
  BY TagFacts
<1> QED
  BY <1>1 DEF PayloadAt, EndOf, IsReal

LEMMA PayloadDenotes ==
    ASSUME buf \in Seq(Byte), NEW p \in Nat, NEW type \in Tagged, HeadAt(p) = Tag[type],
           Whole(p)
    PROVE  /\ BytesAt(p + 1, Size[type]) \in Seq(Byte)
           /\ Len(BytesAt(p + 1, Size[type])) = Size[type]
           /\ Denoted(p) = ValueOf(type, BytesAt(p + 1, Size[type]))
<1>1. /\ PayloadAt(p) = Size[type] /\ (IsReal(p) <=> type \notin IntTypes)
      /\ HasPayload(HeadAt(p)) /\ TypeOfTag[HeadAt(p)] = type
  BY PayloadStands
<1>2. ~Fixuint(HeadAt(p)) /\ ~Fixint(HeadAt(p))
  BY TagFacts
<1>3. Size[type] \in Nat
  BY SizeFacts, Constants
<1>4. Holds(p + 1, Size[type])
  BY <1>1 DEF Whole, Holds
<1>5. /\ BytesAt(p + 1, Size[type]) \in Seq(Byte)
      /\ Len(BytesAt(p + 1, Size[type])) = Size[type]
  BY <1>3, <1>4, HeldBytes
<1>6. CASE type \in IntTypes
  <2>1. Denoted(p) = IF type \in SignedTypes
                     THEN Signed(ReadAt(p + 1, Size[type]), Size[type])
                     ELSE ReadAt(p + 1, Size[type])
    BY <1>1, <1>2, <1>6, Zenon DEF Denoted
  <2>2. ValueOf(type, BytesAt(p + 1, Size[type]))
          = IF type \in SignedTypes
            THEN Signed(ReadAt(p + 1, Size[type]), Size[type])
            ELSE ReadAt(p + 1, Size[type])
    BY <1>5, <1>6, Zenon DEF ValueOf, ReadAt
  <2> QED
    BY <1>5, <2>1, <2>2
<1>7. CASE type \notin IntTypes
  <2>1. Denoted(p) = RealOf(BytesAt(p + 1, Size[type]))
    BY <1>1, <1>2, <1>7, Zenon DEF Denoted
  <2>2. ValueOf(type, BytesAt(p + 1, Size[type])) = RealOf(BytesAt(p + 1, Size[type]))
    BY <1>7, Zenon DEF ValueOf
  <2> QED
    BY <1>5, <2>1, <2>2, Zenon
<1> QED
  BY <1>5, <1>6, <1>7

LEMMA AtomStands ==
    ASSUME NEW p \in Nat, HeadAt(p) \in Byte, ~HasPayload(HeadAt(p))
    PROVE  /\ PayloadAt(p) = 0 /\ EndOf(p) = p + 1 /\ ~IsReal(p)
           /\ Denoted(p) = AtomOf(HeadAt(p))
<1>1. PayloadAt(p) = 0 /\ EndOf(p) = p + 1 /\ ~IsReal(p)
  BY DEF PayloadAt, EndOf, IsReal
<1> QED
  BY <1>1 DEF Denoted, AtomOf

\* The integer under the tag of a type is one of the type.
LEMMA DenotedRange ==
    ASSUME buf \in Seq(Byte), NEW p \in Nat, NEW l \in 1 .. 4, Whole(p)
    PROVE  /\ HeadAt(p) = Tag[Uint[l]] =>
                 /\ Denoted(p) = ReadAt(p + 1, Width[l])
                 /\ Denoted(p) \in RangeOf[Uint[l]]
           /\ HeadAt(p) = Tag[Sint[l]] =>
                 /\ Denoted(p) = Signed(ReadAt(p + 1, Width[l]), Width[l])
                 /\ Denoted(p) \in RangeOf[Sint[l]]
                 /\ ReadAt(p + 1, Width[l]) \in RangeOf[Uint[l]]
<1>1. Width[l] \in 1 .. Width[4]
  BY Constants
<1>2. ASSUME NEW type \in {Uint[l], Sint[l]}, HeadAt(p) = Tag[type]
      PROVE  /\ type \in Tagged /\ Size[type] = Width[l]
             /\ Denoted(p) = ValueOf(type, BytesAt(p + 1, Width[l]))
             /\ Len(BytesAt(p + 1, Width[l])) = Width[l]
             /\ ReadAt(p + 1, Width[l]) \in 0 .. Power[Width[l]] - 1
  <2>1. type \in Tagged /\ Size[type] = Width[l]
    BY RangeFacts
  <2>2. /\ Denoted(p) = ValueOf(type, BytesAt(p + 1, Width[l]))
        /\ BytesAt(p + 1, Width[l]) \in Seq(Byte) /\ Len(BytesAt(p + 1, Width[l])) = Width[l]
    BY <1>2, <2>1, PayloadDenotes
  <2>3. Unsigned(BytesAt(p + 1, Width[l])) \in 0 .. Power[Width[l]] - 1
    BY <1>1, <2>2, UnsignedRange
  <2> QED
    BY <2>1, <2>2, <2>3 DEF ReadAt
<1>3. ASSUME HeadAt(p) = Tag[Uint[l]]
      PROVE  Denoted(p) = ReadAt(p + 1, Width[l]) /\ Denoted(p) \in RangeOf[Uint[l]]
  BY <1>2, <1>3, RangeFacts DEF ValueOf, ReadAt
<1>4. ASSUME HeadAt(p) = Tag[Sint[l]]
      PROVE  /\ Denoted(p) = Signed(ReadAt(p + 1, Width[l]), Width[l])
             /\ Denoted(p) \in RangeOf[Sint[l]]
             /\ ReadAt(p + 1, Width[l]) \in RangeOf[Uint[l]]
  <2>1. Denoted(p) = Signed(ReadAt(p + 1, Width[l]), Width[l])
    BY <1>2, <1>4, RangeFacts DEF ValueOf, ReadAt
  <2>2. ReadAt(p + 1, Width[l]) \in 0 .. Power[Width[l]] - 1
    BY <1>2, <1>4
  <2>3. PICK n : n = ReadAt(p + 1, Width[l])
    OBVIOUS
  <2>4. n \in RangeOf[Uint[l]]
    BY <1>1, <2>2, <2>3, RangeFacts
  <2>5. Signed(n, Width[l]) \in RangeOf[Sint[l]]
    BY <1>1, <2>2, <2>3, SignedFacts, RangeFacts
  <2> QED
    BY <2>1, <2>3, <2>4, <2>5
<1> QED
  BY <1>3, <1>4

LEMMA DenotedInt ==
    ASSUME buf \in Seq(Byte), NEW p \in Nat, Whole(p)
    PROVE  HeadAt(p) \in Byte /\ Denoted(p) \in Int
<1>1. HeadAt(p) \in Byte
  BY DEF HeadAt, Whole
<1>2. CASE ~HasPayload(HeadAt(p))
  BY <1>1, <1>2, AtomStands, Constants DEF AtomOf, Byte
<1>3. CASE HasPayload(HeadAt(p))
  <2>1. PICK type \in Tagged : HeadAt(p) = Tag[type]
    BY <1>3, PayloadOf
  <2>2. CASE type \notin IntTypes
    <3>1. Denoted(p) = RealOf(BytesAt(p + 1, Size[type]))
      BY <2>1, <2>2, PayloadDenotes DEF ValueOf
    <3>2. BytesAt(p + 1, Size[type]) \in Seq(Byte) /\ Len(BytesAt(p + 1, Size[type])) \in 1 .. Width[4]
      BY <2>1, PayloadDenotes, SizeFacts
    <3> QED
      BY <1>1, <3>1, <3>2, RealTyped
  <2>3. CASE type \in IntTypes
    <3>1. PICK l \in 1 .. 4 : type \in {Uint[l], Sint[l]}
      BY <2>3 DEF IntTypes, SignedTypes
    <3> QED
      <4>1. Denoted(p) \in RangeOf[Uint[l]] \/ Denoted(p) \in RangeOf[Sint[l]]
        BY <2>1, <3>1, DenotedRange
      <4>2. RangeOf[Uint[l]] \subseteq Int /\ RangeOf[Sint[l]] \subseteq Int
        <5>1. /\ RangeOf[Uint[l]] = 0 .. Power[Width[l]] - 1
              /\ RangeOf[Sint[l]] = -(Power[Width[l]] \div 2) .. Power[Width[l]] \div 2 - 1
          BY RangeFacts
        <5> QED
          BY <5>1
      <4> QED
        BY <1>1, <4>1, <4>2
  <2> QED
    BY <2>2, <2>3
<1> QED
  BY <1>1, <1>2, <1>3


-----------------------------------------------------------------------------
(* What is right for the decoding function of a type to do of what stands at a *)
(* position: where it ends, what it must decode, and what it may accept.       *)

RetCode == {"OK", "EMSGSIZE", "ENODATA", "ENOMSG", "EBADMSG", "ERANGE"}
Maybe == {Nothing} \cup { <<n>> : n \in Int }
At(q) == buf \in Seq(Byte) /\ disc \in BOOLEAN /\ q \in Nat /\ q < Len(buf)

\* An unsigned integer under a signed type fits the signed type of its width.
SignFits(type, q) ==
    type \in SignedTypes /\ HasPayload(HeadAt(q)) =>
        Denoted(q) \in RangeOf[Sint[Level[TypeOfTag[HeadAt(q)]]]]
\* All but the functions of the unsigned types under DPACK_INT8_TAG
Strict(type, q) == type \notin { Uint[l] : l \in 1 .. 4 } \/ HeadAt(q) # Tag["int8"]

Stored(type, q) == IF type = "nil" THEN Nothing ELSE <<Denoted(q)>>
Ends(o, q) ==
    /\ o \in [head : q .. Len(buf), ret : RetCode, val : Maybe]
    /\ disc /\ Whole(q) => o.head = EndOf(q)
Accepts(type, o, q) ==
    Whole(q) /\ Readable(type, q) /\ SignFits(type, q) =>
        o.head = EndOf(q) /\ o.ret = "OK" /\ o.val = Stored(type, q)
Sincere(type, o, q) ==
    o.ret = "OK" /\ Strict(type, q) =>
        /\ Whole(q) /\ Readable(type, q)
        /\ o.head = EndOf(q) /\ o.val = Stored(type, q)
Correct(type, o, q) == Ends(o, q) /\ Accepts(type, o, q) /\ Sincere(type, o, q)

LEMMA HeadFacts ==
    ASSUME NEW q, At(q)
    PROVE  /\ HeadAt(q) \in Byte /\ Len(buf) \in Nat /\ q + 1 \in Nat /\ PayloadAt(q) \in Nat
           /\ Whole(q) => EndOf(q) \in q + 1 .. Len(buf) /\ Holds(q + 1, PayloadAt(q))
           /\ Holds(q + 1, PayloadAt(q)) => Whole(q)
<1>1. HeadAt(q) \in Byte /\ Len(buf) \in Nat /\ q + 1 \in Nat
  BY DEF At, HeadAt
<1>2. PayloadAt(q) \in Nat
  <2>1. CASE HasPayload(HeadAt(q))
    BY <2>1, PayloadOf, SizeFacts, Constants DEF PayloadAt
  <2>2. CASE ~HasPayload(HeadAt(q))
    BY <2>2 DEF PayloadAt
  <2> QED
    BY <2>1, <2>2
<1> QED
  BY <1>1, <1>2 DEF At, Whole, EndOf, Holds

\* What a function does not know
LEMMA UnknownEnds ==
    ASSUME NEW q, At(q)
    PROVE  /\ Ends(UnknownTag(HeadAt(q), q + 1), q)
           /\ UnknownTag(HeadAt(q), q + 1).ret # "OK"
           /\ Ends([UnknownTag(HeadAt(q), q + 1) EXCEPT !.ret = "ENOMSG"], q)
<1> DEFINE d == Discarded(HeadAt(q), q + 1)
<1>1. (IF HasPayload(HeadAt(q)) THEN Size[TypeOfTag[HeadAt(q)]] ELSE 0) = PayloadAt(q)
  BY DEF PayloadAt
<1>2. d = IF ~disc \/ PayloadAt(q) = 0 THEN Outcome(q + 1, "OK", Nothing)
          ELSE IF Holds(q + 1, PayloadAt(q)) THEN Outcome(q + 1 + PayloadAt(q), "OK", Nothing)
          ELSE Outcome(q + 1, "ENODATA", Nothing)
  BY <1>1 DEF Discarded
<1>3. /\ d.head \in q .. Len(buf) /\ d.ret \in {"OK", "ENODATA"}
      /\ disc /\ Whole(q) => d.head = EndOf(q)
  BY <1>2, HeadFacts DEF Outcome, Holds, EndOf, At
<1> DEFINE o == UnknownTag(HeadAt(q), q + 1)
<1>4. o = [head |-> d.head, ret |-> IF d.ret = "OK" THEN "ENOMSG" ELSE d.ret, val |-> Nothing]
  BY DEF UnknownTag, Outcome
<1> HIDE DEF d
<1>5. o.ret # "OK" /\ o.ret \in RetCode /\ Nothing \in Maybe
  BY <1>3, <1>4 DEF RetCode, Maybe
<1>6. Ends(o, q)
  BY <1>3, <1>4, <1>5 DEF Ends
<1>7. [o EXCEPT !.ret = "ENOMSG"] = [head |-> d.head, ret |-> "ENOMSG", val |-> Nothing]
  BY <1>4
<1>8. Ends([o EXCEPT !.ret = "ENOMSG"], q)
  BY <1>3, <1>5, <1>7 DEF Ends, RetCode
<1> QED
  BY <1>5, <1>6, <1>8

\* A function that refuses what it cannot read is right.
LEMMA RefusesRight ==
    ASSUME NEW q, NEW type, NEW o, Ends(o, q), o.ret # "OK",
           ~(Whole(q) /\ Readable(type, q) /\ SignFits(type, q))
    PROVE  Correct(type, o, q)
BY DEF Correct, Accepts, Sincere

\* So is one that stores what stands there.
LEMMA StoresRight ==
    ASSUME NEW q, At(q), NEW type, Whole(q), Readable(type, q), type # "nil"
    PROVE  Correct(type, Outcome(EndOf(q), "OK", <<Denoted(q)>>), q)
<1> DEFINE o == Outcome(EndOf(q), "OK", <<Denoted(q)>>)
<1>1. o = [head |-> EndOf(q), ret |-> "OK", val |-> <<Denoted(q)>>]
  BY DEF Outcome
<1>2. EndOf(q) \in q .. Len(buf)
  BY HeadFacts DEF At
<1>3. <<Denoted(q)>> \in Maybe
  BY DenotedInt DEF Maybe, At
<1>4. Ends(o, q)
  BY <1>1, <1>2, <1>3 DEF Ends, RetCode
<1> QED
  BY <1>1, <1>4 DEF Correct, Accepts, Sincere, Stored

\* So is one that finds the end of data where the payload is not whole.
LEMMA StopsRight ==
    ASSUME NEW q, At(q), NEW type, ~Whole(q), NEW code \in {"ENODATA", "ENOMSG"}
    PROVE  Correct(type, Outcome(q + 1, code, Nothing), q)
<1> DEFINE o == Outcome(q + 1, code, Nothing)
<1>1. o = [head |-> q + 1, ret |-> code, val |-> Nothing]
  BY DEF Outcome
<1>2. q + 1 \in q .. Len(buf) /\ code \in RetCode /\ Nothing \in Maybe /\ code # "OK"
  BY HeadFacts DEF At, RetCode, Maybe
<1>3. Ends(o, q)
  BY <1>1, <1>2 DEF Ends
<1> QED
  BY <1>1, <1>2, <1>3, RefusesRight


-----------------------------------------------------------------------------
(* The decoding of integers *)

LEMMA ReadableInteger ==
    ASSUME NEW q, NEW type \in IntTypes
    PROVE  Readable(type, q) <=>
             /\ \/ Fixuint(HeadAt(q)) \/ Fixint(HeadAt(q))
                \/ HasPayload(HeadAt(q)) /\ ~IsReal(q)
             /\ PayloadAt(q) <= Size[type]
             /\ Denoted(q) \in RangeOf[type]
BY TypeFacts DEF Readable

\* The tag of the type
LEMMA OwnRight ==
    ASSUME NEW q, At(q), NEW type \in IntTypes, HeadAt(q) = Tag[type]
    PROVE  Correct(type, LoadOwn(type, q + 1), q)
<1>1. type \in Tagged /\ q \in Nat /\ buf \in Seq(Byte) /\ type # "nil"
  BY TypeFacts DEF Tagged, At
<1>2. /\ PayloadAt(q) = Size[type] /\ ~IsReal(q) /\ EndOf(q) = q + 1 + Size[type]
      /\ HasPayload(HeadAt(q)) /\ Size[type] \in Nat
  BY <1>1, PayloadStands, SizeFacts
<1>3. CASE ~Whole(q)
  <2>1. ~Holds(q + 1, Size[type])
    BY <1>2, <1>3, HeadFacts DEF Holds
  <2>2. LoadOwn(type, q + 1) = Outcome(q + 1, "ENODATA", Nothing)
    BY <2>1 DEF LoadOwn
  <2> QED
    BY <1>3, <2>2, StopsRight
<1>4. CASE Whole(q)
  <2>1. Holds(q + 1, Size[type])
    BY <1>2, <1>4, HeadFacts DEF Holds
  <2>2. PICK l \in 1 .. 4 : type \in {Uint[l], Sint[l]}
    BY DEF IntTypes, SignedTypes
  <2>3. /\ Denoted(q) = IF type \in SignedTypes
                        THEN Signed(ReadAt(q + 1, Size[type]), Size[type])
                        ELSE ReadAt(q + 1, Size[type])
        /\ Denoted(q) \in RangeOf[type]
    <3>1. CASE type = Uint[l]
      <4>1. /\ Denoted(q) = ReadAt(q + 1, Width[l]) /\ Denoted(q) \in RangeOf[Uint[l]]
            /\ Size[type] = Width[l] /\ type \notin SignedTypes
        BY <1>1, <1>4, <3>1, DenotedRange, RangeFacts
      <4> QED
        BY <3>1, <4>1
    <3>2. CASE type = Sint[l]
      <4>1. /\ Denoted(q) = Signed(ReadAt(q + 1, Width[l]), Width[l])
            /\ Denoted(q) \in RangeOf[Sint[l]]
            /\ Size[type] = Width[l] /\ type \in SignedTypes
        BY <1>1, <1>4, <3>2, DenotedRange, RangeFacts
      <4> QED
        BY <3>2, <4>1
    <3> QED
      BY <2>2, <3>1, <3>2
  <2>4. LoadOwn(type, q + 1) = Outcome(EndOf(q), "OK", <<Denoted(q)>>)
    BY <1>2, <2>1, <2>3 DEF LoadOwn
  <2>5. Readable(type, q)
    BY <1>2, <2>3, ReadableInteger
  <2> QED
    BY <1>1, <1>4, <2>4, <2>5, StoresRight
<1> QED
  BY <1>3, <1>4

\* The tag of the type of the other sign
LEMMA OtherRight ==
    ASSUME NEW q, At(q), NEW l \in 1 .. 4, NEW type,
           \/ type = Uint[l] /\ HeadAt(q) = Tag[Sint[l]]
           \/ type = Sint[l] /\ HeadAt(q) = Tag[Uint[l]]
    PROVE  Correct(type, LoadOther(type, q + 1), q)
<1> DEFINE w == Width[l]
           n == ReadAt(q + 1, w)
<1>1. q \in Nat /\ buf \in Seq(Byte) /\ w \in 1 .. Width[4] /\ w \in Nat
  BY Constants DEF At
<1>2. /\ type \in IntTypes /\ Size[type] = w /\ type # "nil"
      /\ PayloadAt(q) = w /\ ~IsReal(q) /\ EndOf(q) = q + 1 + w /\ HasPayload(HeadAt(q))
  <2>1. type \in IntTypes /\ Size[type] = w
    BY RangeFacts
  <2>2. PICK other \in {Uint[l], Sint[l]} : HeadAt(q) = Tag[other]
    OBVIOUS
  <2>3. other \in Tagged /\ other \in IntTypes /\ Size[other] = w
    BY RangeFacts
  <2> QED
    BY <1>1, <2>1, <2>2, <2>3, PayloadStands, TypeFacts
<1> HIDE DEF w
<1>3. CASE ~Whole(q)
  <2>1. ~Holds(q + 1, Size[type])
    BY <1>2, <1>3, HeadFacts DEF Holds
  <2>2. LoadOther(type, q + 1) = Outcome(q + 1, "ENODATA", Nothing)
    BY <2>1 DEF LoadOther
  <2> QED
    BY <1>3, <2>2, StopsRight
<1>4. CASE Whole(q)
  <2>1. Holds(q + 1, Size[type])
    BY <1>2, <1>4, HeadFacts DEF Holds
  <2>2. /\ n \in 0 .. Power[w] - 1
        /\ Denoted(q) \in {n, Signed(n, w)}
        /\ type = Uint[l] => Denoted(q) = Signed(n, w)
        /\ type = Sint[l] => Denoted(q) = n
    <3>1. CASE type = Uint[l] /\ HeadAt(q) = Tag[Sint[l]]
      <4>1. Denoted(q) = Signed(n, w) /\ n \in RangeOf[Uint[l]]
        BY <1>1, <1>4, <3>1, DenotedRange DEF w
      <4>2. type # Sint[l]
        BY <3>1, RangeFacts
      <4> QED
        BY <4>1, <4>2, RangeFacts DEF w
    <3>2. CASE type = Sint[l] /\ HeadAt(q) = Tag[Uint[l]]
      <4>1. Denoted(q) = n /\ n \in RangeOf[Uint[l]]
        BY <1>1, <1>4, <3>2, DenotedRange DEF w
      <4>2. type # Uint[l]
        BY <3>2, RangeFacts
      <4> QED
        BY <4>1, <4>2, RangeFacts DEF w
    <3> QED
      BY <3>1, <3>2
  <2> HIDE DEF n
  <2>3. /\ Signed(n, w) \in -(Power[w] \div 2) .. Power[w] \div 2 - 1
        /\ Signed(n, w) >= 0 <=> n <= Power[w] \div 2 - 1
        /\ Signed(n, w) >= 0 => Signed(n, w) = n
    BY <1>1, <2>2, SignedFacts
  <2>4. Denoted(q) \in RangeOf[type] <=> Signed(n, w) >= 0
    <3>1. /\ RangeOf[Uint[l]] = 0 .. Power[w] - 1
          /\ RangeOf[Sint[l]] = -(Power[w] \div 2) .. Power[w] \div 2 - 1
      BY RangeFacts DEF w
    <3>2. Power[w] = 2 * (Power[w] \div 2) /\ Power[w] \div 2 \in Nat \ {0}
      BY <1>1, PowerHalf
    <3>3. CASE type = Uint[l]
      BY <2>2, <2>3, <3>1, <3>2, <3>3
    <3>4. CASE type = Sint[l]
      BY <2>2, <2>3, <3>1, <3>2, <3>4
    <3> QED
      BY <3>3, <3>4
  <2>5. Readable(type, q) <=> Signed(n, w) >= 0
    BY <1>1, <1>2, <2>4, ReadableInteger
  <2>6. CASE Signed(n, w) >= 0
    <3>1. Denoted(q) = n
      BY <2>2, <2>3, <2>6
    <3>2. LoadOther(type, q + 1) = Outcome(EndOf(q), "OK", <<Denoted(q)>>)
      BY <1>2, <2>1, <2>6, <3>1 DEF LoadOther, n
    <3> QED
      BY <1>2, <1>4, <2>5, <2>6, <3>2, StoresRight
  <2>7. CASE ~(Signed(n, w) >= 0)
    <3> DEFINE o == LoadOther(type, q + 1)
    <3>1. o = [head |-> EndOf(q), ret |-> "ENOMSG", val |-> Nothing]
      BY <1>2, <2>1, <2>7 DEF LoadOther, n, Outcome
    <3>2. EndOf(q) \in q .. Len(buf) /\ Nothing \in Maybe
      BY <1>4, HeadFacts DEF At, Maybe
    <3> HIDE DEF o
    <3>3. Ends(o, q) /\ o.ret # "OK"
      BY <3>1, <3>2 DEF Ends, RetCode
    <3>4. Correct(type, o, q)
      BY <2>5, <2>7, <3>3, RefusesRight
    <3> QED
      BY <3>4 DEF o
  <2> QED
    BY <2>6, <2>7
<1> QED
  BY <1>3, <1>4


\* What is not the tag of an integer, nor one by itself, is not read as one.
LEMMA UnknownRight ==
    ASSUME NEW q, At(q), NEW type \in IntTypes, ~Readable(type, q)
    PROVE  /\ Correct(type, UnknownTag(HeadAt(q), q + 1), q)
           /\ Correct(type, [UnknownTag(HeadAt(q), q + 1) EXCEPT !.ret = "ENOMSG"], q)
<1> DEFINE o == UnknownTag(HeadAt(q), q + 1)
<1>1. Ends(o, q) /\ o.ret # "OK" /\ Ends([o EXCEPT !.ret = "ENOMSG"], q)
  BY UnknownEnds
<1>2. [o EXCEPT !.ret = "ENOMSG"].ret = "ENOMSG"
  BY <1>1 DEF Ends
<1> HIDE DEF o
<1>3. Correct(type, o, q)
  BY <1>1, RefusesRight
<1>4. Correct(type, [o EXCEPT !.ret = "ENOMSG"], q)
  BY <1>1, <1>2, RefusesRight
<1> QED
  BY <1>3, <1>4 DEF o

\* An integer that is a tag by itself
LEMMA FixReadable ==
    ASSUME NEW q, At(q), NEW l \in 1 .. 4, Fixuint(HeadAt(q)) \/ Fixint(HeadAt(q))
    PROVE  /\ EndOf(q) = q + 1 /\ Whole(q) /\ ~HasPayload(HeadAt(q))
           /\ Readable(Sint[l], q)
           /\ Fixuint(HeadAt(q)) => Denoted(q) = HeadAt(q) /\ Readable(Uint[l], q)
           /\ Fixint(HeadAt(q)) => Denoted(q) = HeadAt(q) - Base /\ ~Readable(Uint[l], q)
<1> DEFINE tag == HeadAt(q)
           h == Power[Width[l]] \div 2
<1>1. tag \in 0 .. Base - 1 /\ q \in Nat /\ tag \in Byte /\ q < Len(buf)
  BY HeadFacts DEF Byte, At
<1>2. Width[l] \in 1 .. Width[4] /\ Width[l] - 1 \in 0 .. Width[4]
  BY Constants
<1>3. /\ h \in Nat /\ Power[Width[l]] = 2 * h /\ Base \div 2 <= h
      /\ Base \div 2 \in Nat /\ Base = 2 * (Base \div 2)
  <2>1. h = (Base \div 2) * Power[Width[l] - 1] /\ Power[Width[l] - 1] \in Nat \ {0}
    BY <1>2, PowerHalf, PowerNat
  <2>2. h \in Nat /\ Power[Width[l]] = 2 * h /\ Base \div 2 \in Nat /\ Base = 2 * (Base \div 2)
    BY <1>2, PowerHalf
  <2>3. \A x \in Nat, y \in Nat \ {0} : x <= x * y
    OBVIOUS
  <2> QED
    BY <2>1, <2>2, <2>3
<1>4. RangeOf[Uint[l]] = 0 .. 2 * h - 1 /\ RangeOf[Sint[l]] = -h .. h - 1
  BY <1>3, RangeFacts
<1>5. /\ Uint[l] \in IntTypes /\ Sint[l] \in IntTypes
      /\ Size[Uint[l]] \in Nat /\ Size[Sint[l]] \in Nat
  BY RangeFacts, Constants
<1>6. /\ PayloadAt(q) = 0 /\ EndOf(q) = q + 1 /\ Whole(q) /\ ~HasPayload(tag)
      /\ Denoted(q) = AtomOf(tag)
  <2>1. ~HasPayload(tag)
    BY <1>1, AtomFacts
  <2>2. PayloadAt(q) = 0 /\ EndOf(q) = q + 1 /\ Denoted(q) = AtomOf(tag)
    BY <1>1, <2>1, AtomStands
  <2> QED
    BY <1>1, <2>1, <2>2, HeadFacts DEF Whole, Holds
<1>7. CASE Fixuint(tag)
  <2>1. Denoted(q) = tag /\ ~Fixint(tag)
    BY <1>1, <1>6, <1>7, AtomFacts DEF AtomOf
  <2>2. tag \in RangeOf[Uint[l]] /\ tag \in RangeOf[Sint[l]]
    BY <1>1, <1>3, <1>4, <1>7 DEF Fixuint
  <2> QED
    BY <1>5, <1>6, <1>7, <2>1, <2>2, ReadableInteger
<1>8. CASE Fixint(tag)
  <2>1. ~Fixuint(tag)
    BY <1>1, <1>8, AtomFacts
  <2>2. Denoted(q) = tag - Base
    BY <1>6, <1>8, <2>1 DEF AtomOf
  <2>3. tag - Base \notin RangeOf[Uint[l]]
    BY <1>1, <1>4, Constants
  <2>4. tag - Base \in RangeOf[Sint[l]]
    <3>1. tag >= Base - Base \div 8 /\ Base \div 8 \in Nat /\ Base \div 8 <= Base \div 2
      <4>1. PICK k \in Nat : Base = 8 * k
        BY Constants
      <4> QED
        BY <1>8, <4>1 DEF Fixint
    <3> QED
      BY <1>1, <1>3, <1>4, <3>1
  <2> QED
    BY <1>5, <1>6, <1>8, <2>1, <2>2, <2>3, <2>4, ReadableInteger
<1> QED
  BY <1>7, <1>8

LEMMA FixRight ==
    ASSUME NEW q, At(q), NEW l \in 1 .. 4
    PROVE  /\ Fixuint(HeadAt(q)) =>
                 /\ Correct(Uint[l], Outcome(q + 1, "OK", <<HeadAt(q)>>), q)
                 /\ Correct(Sint[l], Outcome(q + 1, "OK", <<HeadAt(q)>>), q)
           /\ Fixint(HeadAt(q)) =>
                 /\ Correct(Uint[l], Outcome(q + 1, "ENOMSG", Nothing), q)
                 /\ Correct(Sint[l], Outcome(q + 1, "OK", <<HeadAt(q) - Base>>), q)
<1>1. Uint[l] # "nil" /\ Sint[l] # "nil"
  BY RangeFacts, TypeFacts
<1>2. ASSUME Fixuint(HeadAt(q))
      PROVE  /\ Correct(Uint[l], Outcome(q + 1, "OK", <<HeadAt(q)>>), q)
             /\ Correct(Sint[l], Outcome(q + 1, "OK", <<HeadAt(q)>>), q)
  <2>1. /\ EndOf(q) = q + 1 /\ Whole(q) /\ Denoted(q) = HeadAt(q)
        /\ Readable(Uint[l], q) /\ Readable(Sint[l], q)
    BY <1>2, FixReadable
  <2> QED
    BY <1>1, <2>1, StoresRight
<1>3. ASSUME Fixint(HeadAt(q))
      PROVE  /\ Correct(Uint[l], Outcome(q + 1, "ENOMSG", Nothing), q)
             /\ Correct(Sint[l], Outcome(q + 1, "OK", <<HeadAt(q) - Base>>), q)
  <2>1. /\ EndOf(q) = q + 1 /\ Whole(q) /\ Denoted(q) = HeadAt(q) - Base
        /\ ~Readable(Uint[l], q) /\ Readable(Sint[l], q)
    BY <1>3, FixReadable
  <2>2. Correct(Sint[l], Outcome(q + 1, "OK", <<HeadAt(q) - Base>>), q)
    BY <1>1, <2>1, StoresRight
  <2> DEFINE o == Outcome(q + 1, "ENOMSG", Nothing)
  <2>3. o = [head |-> q + 1, ret |-> "ENOMSG", val |-> Nothing]
    BY DEF Outcome
  <2>4. Ends(o, q) /\ o.ret # "OK"
    BY <2>1, <2>3, HeadFacts DEF Ends, RetCode, Maybe, At
  <2> HIDE DEF o
  <2>5. Correct(Uint[l], o, q)
    BY <2>1, <2>4, RefusesRight
  <2> QED
    BY <2>2, <2>5 DEF o
<1> QED
  BY <1>2, <1>3

\* A function passes the tags that are not of its level on to that of the level below.
LEMMA LevelRight ==
    ASSUME NEW q, At(q), NEW k \in 1 .. 3, NEW l \in 1 .. 4, l = k + 1, NEW o,
           HeadAt(q) # Tag[Uint[l]], HeadAt(q) # Tag[Sint[l]]
    PROVE  /\ Correct(Uint[k], o, q) => Correct(Uint[l], o, q)
           /\ Correct(Sint[k], o, q) => Correct(Sint[l], o, q)
<1> DEFINE tag == HeadAt(q)
<1>1. /\ q \in Nat /\ buf \in Seq(Byte) /\ tag \in Byte /\ PayloadAt(q) \in Nat
      /\ k \in 1 .. 4 /\ k < l
  BY HeadFacts DEF At
<1>2. /\ Uint[k] \in IntTypes \ SignedTypes /\ Sint[k] \in IntTypes /\ Sint[k] \in SignedTypes
      /\ Uint[l] \in IntTypes \ SignedTypes /\ Sint[l] \in IntTypes /\ Sint[l] \in SignedTypes
      /\ Size[Uint[k]] = Width[k] /\ Size[Sint[k]] = Width[k]
      /\ Size[Uint[l]] = Width[l] /\ Size[Sint[l]] = Width[l]
      /\ Width[k] \in Nat /\ Width[l] \in Nat
  BY <1>1, RangeFacts, Constants
<1>3. /\ Width[k] < Width[l]
      /\ RangeOf[Uint[k]] \subseteq RangeOf[Uint[l]]
      /\ RangeOf[Sint[k]] \subseteq RangeOf[Sint[l]]
  BY <1>1, RangesNest
<1>4. /\ Readable(Uint[k], q) => Readable(Uint[l], q)
      /\ Readable(Sint[k], q) => Readable(Sint[l], q)
  BY <1>1, <1>2, <1>3, ReadableInteger
\* The integers of the levels up to l have the tags of those up to k.
<1>5. ASSUME Whole(q), NEW type \in {Uint[l], Sint[l]}, Readable(type, q), HasPayload(tag)
      PROVE  \E i \in 1 .. k : /\ tag \in {Tag[Uint[i]], Tag[Sint[i]]}
                               /\ PayloadAt(q) = Width[i] /\ Width[i] <= Width[k]
                               /\ Level[TypeOfTag[tag]] = i
  <2>1. PayloadAt(q) <= Width[l] /\ ~IsReal(q)
    <3>1. ~Fixuint(tag) /\ ~Fixint(tag)
      BY <1>1, <1>5, AtomFacts
    <3> QED
      BY <1>2, <1>5, <3>1, ReadableInteger
  <2>2. TypeOfTag[tag] \in Tagged /\ Tag[TypeOfTag[tag]] = tag
    BY <1>5, PayloadOf
  <2>3. TypeOfTag[tag] \in IntTypes
    BY <1>5, <2>1 DEF IsReal
  <2>4. PICK i \in 1 .. 4 : TypeOfTag[tag] \in {Uint[i], Sint[i]}
    BY <2>3 DEF IntTypes, SignedTypes
  <2>5. PayloadAt(q) = Width[i] /\ Level[TypeOfTag[tag]] = i
    <3>1. Size[TypeOfTag[tag]] = Width[i]
      BY <2>4, RangeFacts
    <3> QED
      BY <1>5, <2>4, <3>1, LevelFacts DEF PayloadAt
  <2>6. i # l
    BY <2>2, <2>4
  <2>7. ~(l < i)
    <3> SUFFICES ASSUME l < i PROVE FALSE
      OBVIOUS
    <3>1. Width[l] < Width[i] /\ Width[i] \in Nat
      BY RangesNest, Constants
    <3> QED
      BY <1>2, <2>1, <2>5, <3>1
  <2>8. i \in 1 .. k
    BY <2>6, <2>7
  <2>9. Width[i] <= Width[k]
    <3>1. CASE i = k
      BY <1>2, <3>1
    <3>2. CASE i # k
      <4>1. Width[i] < Width[k]
        BY <1>1, <2>8, <3>2, RangesNest
      <4> QED
        BY <1>2, <4>1, Constants
    <3> QED
      BY <3>1, <3>2
  <2> QED
    BY <2>2, <2>4, <2>5, <2>8, <2>9
<1>6. ASSUME Whole(q), Readable(Uint[l], q)
      PROVE  Readable(Uint[k], q)
  <2>1. CASE HasPayload(tag)
    <3>1. PICK i \in 1 .. k : /\ tag \in {Tag[Uint[i]], Tag[Sint[i]]}
                              /\ PayloadAt(q) = Width[i] /\ Width[i] <= Width[k]
      BY <1>5, <1>6, <2>1
    <3>2. i \in 1 .. 4
      BY <1>1
    <3>3. Denoted(q) \in RangeOf[Uint[l]] /\ ~IsReal(q)
      <4>1. ~Fixuint(tag) /\ ~Fixint(tag)
        BY <1>1, <2>1, AtomFacts
      <4> QED
        BY <1>2, <1>6, <4>1, ReadableInteger
    <3>4. Denoted(q) \in RangeOf[Uint[i]]
      <4>1. CASE tag = Tag[Uint[i]]
        BY <1>1, <1>6, <3>2, <4>1, DenotedRange
      <4>2. CASE tag = Tag[Sint[i]]
        <5>1. Denoted(q) \in RangeOf[Sint[i]]
          BY <1>1, <1>6, <3>2, <4>2, DenotedRange
        <5>2. /\ RangeOf[Sint[i]] = -(Power[Width[i]] \div 2) .. Power[Width[i]] \div 2 - 1
              /\ RangeOf[Uint[i]] = 0 .. Power[Width[i]] - 1
              /\ RangeOf[Uint[l]] = 0 .. Power[Width[l]] - 1
          BY <3>2, RangeFacts
        <5>3. Power[Width[i]] = 2 * (Power[Width[i]] \div 2) /\ Power[Width[i]] \div 2 \in Nat
          BY <3>2, PowerHalf, Constants
        <5> QED
          BY <3>3, <5>1, <5>2, <5>3
      <4> QED
        BY <3>1, <4>1, <4>2
    <3>5. Denoted(q) \in RangeOf[Uint[k]]
      <4>1. CASE i = k
        BY <3>4, <4>1
      <4>2. CASE i # k
        <5>1. RangeOf[Uint[i]] \subseteq RangeOf[Uint[k]]
          BY <1>1, <3>2, <4>2, RangesNest
        <5> QED
          BY <3>4, <5>1
      <4> QED
        BY <4>1, <4>2
    <3> QED
      BY <1>2, <2>1, <3>1, <3>3, <3>5, ReadableInteger
  <2>2. CASE ~HasPayload(tag)
    <3>1. Fixuint(tag) \/ Fixint(tag)
      BY <1>2, <1>6, <2>2, ReadableInteger
    <3>2. Fixuint(tag)
      BY <1>6, <3>1, FixReadable
    <3> QED
      BY <1>1, <3>2, FixReadable
  <2> QED
    BY <2>1, <2>2
<1>7. ASSUME Whole(q), Readable(Sint[l], q), SignFits(Sint[l], q)
      PROVE  Readable(Sint[k], q)
  <2>1. CASE HasPayload(tag)
    <3>1. PICK i \in 1 .. k : /\ PayloadAt(q) = Width[i] /\ Width[i] <= Width[k]
                              /\ Level[TypeOfTag[tag]] = i
      BY <1>5, <1>7, <2>1
    <3>2. i \in 1 .. 4
      BY <1>1
    <3>3. ~IsReal(q)
      <4>1. ~Fixuint(tag) /\ ~Fixint(tag)
        BY <1>1, <2>1, AtomFacts
      <4> QED
        BY <1>2, <1>7, <4>1, ReadableInteger
    <3>4. Denoted(q) \in RangeOf[Sint[i]]
      BY <1>2, <1>7, <2>1, <3>1 DEF SignFits
    <3>5. Denoted(q) \in RangeOf[Sint[k]]
      <4>1. CASE i = k
        BY <3>4, <4>1
      <4>2. CASE i # k
        <5>1. RangeOf[Sint[i]] \subseteq RangeOf[Sint[k]]
          BY <1>1, <3>2, <4>2, RangesNest
        <5> QED
          BY <3>4, <5>1
      <4> QED
        BY <4>1, <4>2
    <3> QED
      BY <1>2, <2>1, <3>1, <3>3, <3>5, ReadableInteger
  <2>2. CASE ~HasPayload(tag)
    <3>1. Fixuint(tag) \/ Fixint(tag)
      BY <1>2, <1>7, <2>2, ReadableInteger
    <3> QED
      BY <1>1, <3>1, FixReadable
  <2> QED
    BY <2>1, <2>2
<1>8. ASSUME Correct(Uint[k], o, q) PROVE Correct(Uint[l], o, q)
  <2>1. /\ Uint[k] # "nil" /\ Uint[l] # "nil"
        /\ Uint[k] \notin SignedTypes /\ Uint[l] \notin SignedTypes
        /\ Strict(Uint[l], q) <=> Strict(Uint[k], q)
    BY <1>1, <1>2, TypeFacts DEF Strict
  <2>2. Accepts(Uint[l], o, q)
    BY <1>6, <1>8, <2>1 DEF Correct, Accepts, SignFits, Stored
  <2>3. Sincere(Uint[l], o, q)
    BY <1>4, <1>8, <2>1 DEF Correct, Sincere, Stored
  <2> QED
    BY <1>8, <2>2, <2>3 DEF Correct
<1>9. ASSUME Correct(Sint[k], o, q) PROVE Correct(Sint[l], o, q)
  <2>1. /\ Sint[k] # "nil" /\ Sint[l] # "nil"
        /\ Sint[k] \in SignedTypes /\ Sint[l] \in SignedTypes
        /\ Strict(Sint[l], q) /\ Strict(Sint[k], q)
    <3>1. \A i \in 1 .. 4 : Uint[i] \notin SignedTypes
      BY RangeFacts
    <3> QED
      BY <1>2, <3>1, TypeFacts DEF Strict
  <2>2. Accepts(Sint[l], o, q)
    BY <1>7, <1>9, <2>1 DEF Correct, Accepts, SignFits, Stored
  <2>3. Sincere(Sint[l], o, q)
    BY <1>4, <1>9, <2>1 DEF Correct, Sincere, Stored
  <2> QED
    BY <1>9, <2>2, <2>3 DEF Correct
<1> QED
  BY <1>8, <1>9


\* The functions of the first level
LEMMA FirstLevelUnknown ==
    ASSUME NEW q, At(q), ~Fixuint(HeadAt(q)), ~Fixint(HeadAt(q)),
           HeadAt(q) # Tag["uint8"], HeadAt(q) # Tag["int8"]
    PROVE  ~Readable("uint8", q) /\ ~Readable("int8", q)
<1> SUFFICES ASSUME NEW type \in {"uint8", "int8"}, Readable(type, q) PROVE FALSE
  OBVIOUS
<1>1. type \in IntTypes /\ Size[type] = 1
  BY RangeFacts, TypeFacts, Constants
<1>2. HasPayload(HeadAt(q)) /\ ~IsReal(q) /\ PayloadAt(q) <= 1
  BY <1>1, ReadableInteger
<1>3. TypeOfTag[HeadAt(q)] \in IntTypes /\ Tag[TypeOfTag[HeadAt(q)]] = HeadAt(q)
  BY <1>2, PayloadOf DEF IsReal
<1>4. PICK i \in 1 .. 4 : TypeOfTag[HeadAt(q)] \in {Uint[i], Sint[i]}
  BY <1>3 DEF IntTypes, SignedTypes
<1>5. PayloadAt(q) = Width[i]
  BY <1>2, <1>4, RangeFacts DEF PayloadAt
<1>6. i # 1
  BY <1>3, <1>4, TypeFacts
<1>7. 1 < Width[i] /\ Width[i] \in Nat
  BY <1>6, RangesNest, Constants
<1> QED
  BY <1>2, <1>5, <1>7

LEMMA LoadUint8Right ==
    ASSUME NEW q, At(q)
    PROVE  Correct("uint8", LoadUint8(HeadAt(q), q + 1), q)
<1> DEFINE tag == HeadAt(q)
           o == LoadUint8(tag, q + 1)
<1>1. /\ "uint8" \in IntTypes /\ "uint8" \notin SignedTypes /\ "uint8" = Uint[1]
      /\ "int8" = Sint[1] /\ "uint8" \in Tagged /\ "int8" \in Tagged /\ 1 \in 1 .. 4
      /\ Size["uint8"] = Width[1] /\ Size["int8"] = Width[1]
      /\ tag \in Byte /\ q \in Nat /\ buf \in Seq(Byte)
  BY TypeFacts, RangeFacts, HeadFacts DEF Tagged, At
<1>apart. /\ \A type \in {"uint8", "int8"} : tag = Tag[type] => ~Fixuint(tag) /\ ~Fixint(tag)
      /\ ~(Fixuint(tag) /\ Fixint(tag)) /\ Tag["uint8"] # Tag["int8"]
  BY <1>1, TagFacts, TagBounds, AtomFacts
<1>2. CASE Fixuint(tag)
  <2>1. o = Outcome(q + 1, "OK", <<tag>>)
    BY <1>2, <1>apart DEF LoadUint8
  <2> QED
    BY <1>1, <1>2, <2>1, FixRight
<1>3. CASE tag = Tag["uint8"]
  <2>1. ~Fixuint(tag)
    BY <1>1, <1>3, TagFacts
  <2>2. o = LoadOwn("uint8", q + 1)
    BY <1>3, <1>apart, <2>1 DEF LoadUint8
  <2> QED
    BY <1>1, <1>3, <2>2, OwnRight
<1>4. CASE tag = Tag["int8"]
  <2> DEFINE w == Width[1]
             n == ReadAt(q + 1, w)
  <2>1. ~Fixuint(tag)
    BY <1>1, <1>4, TagFacts
  <2>2. o = LoadOwn("uint8", q + 1)
    BY <1>4, <1>apart, <2>1 DEF LoadUint8
  <2>3. PayloadAt(q) = w /\ EndOf(q) = q + 1 + w
    BY <1>1, <1>4, PayloadStands
  <2>4. CASE ~Whole(q)
    <3>1. ~Holds(q + 1, Size["uint8"])
      BY <1>1, <2>3, <2>4, HeadFacts DEF Holds
    <3>2. o = Outcome(q + 1, "ENODATA", Nothing)
      BY <2>2, <3>1 DEF LoadOwn
    <3> QED
      BY <2>4, <3>2, StopsRight
  <2>5. CASE Whole(q)
    <3>1. Holds(q + 1, Size["uint8"])
      BY <1>1, <2>3, <2>5, HeadFacts DEF Holds
    <3>2. /\ n \in RangeOf[Uint[1]] /\ RangeOf[Uint[1]] = 0 .. Power[w] - 1
          /\ Denoted(q) = Signed(n, w)
      BY <1>1, <1>4, <2>5, DenotedRange, RangeFacts
    <3>3. o = [head |-> EndOf(q), ret |-> "OK", val |-> <<n>>]
      BY <1>1, <2>2, <2>3, <3>1 DEF LoadOwn, Outcome
    <3>4. EndOf(q) \in q .. Len(buf)
      BY <2>5, HeadFacts DEF At
    <3>5. Ends(o, q)
      BY <3>2, <3>3, <3>4 DEF Ends, RetCode, Maybe
    <3>6. Readable("uint8", q) => Denoted(q) = n
      <4> SUFFICES ASSUME Readable("uint8", q) PROVE Denoted(q) = n
        OBVIOUS
      <4>1. Denoted(q) \in 0 .. Power[w] - 1
        BY <1>1, <3>2, ReadableInteger
      <4>2. w \in 1 .. Width[4]
        BY Constants
      <4> HIDE DEF n, w
      <4> QED
        BY <3>2, <4>1, <4>2, SignedFacts
    <3>7. ~Strict("uint8", q)
      BY <1>1, <1>4 DEF Strict
    <3> QED
      BY <3>3, <3>5, <3>6, <3>7 DEF Correct, Accepts, Sincere, Stored
  <2> QED
    BY <2>4, <2>5
<1>5. CASE ~Fixuint(tag) /\ tag # Tag["uint8"] /\ tag # Tag["int8"] /\ Fixint(tag)
  <2>1. o = Outcome(q + 1, "ENOMSG", Nothing)
    BY <1>5 DEF LoadUint8
  <2> QED
    BY <1>1, <1>5, <2>1, FixRight
<1>6. CASE ~Fixuint(tag) /\ tag # Tag["uint8"] /\ tag # Tag["int8"] /\ ~Fixint(tag)
  <2>1. o = UnknownTag(tag, q + 1)
    BY <1>6 DEF LoadUint8
  <2> QED
    BY <1>1, <1>6, <2>1, FirstLevelUnknown, UnknownRight
<1> QED
  BY <1>2, <1>3, <1>4, <1>5, <1>6

LEMMA LoadInt8Right ==
    ASSUME NEW q, At(q)
    PROVE  Correct("int8", LoadInt8(HeadAt(q), q + 1), q)
<1> DEFINE tag == HeadAt(q)
           o == LoadInt8(tag, q + 1)
<1>1. /\ "int8" \in IntTypes /\ "uint8" = Uint[1] /\ "int8" = Sint[1] /\ 1 \in 1 .. 4
      /\ "uint8" \in Tagged /\ "int8" \in Tagged /\ tag \in Byte
  BY TypeFacts, HeadFacts DEF Tagged
<1>apart. /\ \A type \in {"uint8", "int8"} : tag = Tag[type] => ~Fixuint(tag) /\ ~Fixint(tag)
      /\ ~(Fixuint(tag) /\ Fixint(tag)) /\ Tag["uint8"] # Tag["int8"]
  BY <1>1, TagFacts, TagBounds, AtomFacts
<1>2. CASE Fixint(tag)
  <2>1. o = Outcome(q + 1, "OK", <<tag - Base>>)
    BY <1>2, <1>apart DEF LoadInt8
  <2> QED
    BY <1>1, <1>2, <2>1, FixRight
<1>3. CASE tag = Tag["int8"]
  <2>1. ~Fixint(tag)
    BY <1>1, <1>3, TagFacts
  <2>2. o = LoadOwn("int8", q + 1)
    BY <1>3, <1>apart, <2>1 DEF LoadInt8
  <2> QED
    BY <1>1, <1>3, <2>2, OwnRight
<1>4. CASE ~Fixint(tag) /\ tag # Tag["int8"] /\ Fixuint(tag)
  <2>1. o = Outcome(q + 1, "OK", <<tag>>)
    BY <1>4, <1>apart DEF LoadInt8
  <2> QED
    BY <1>1, <1>4, <2>1, FixRight
<1>5. CASE tag = Tag["uint8"]
  <2> DEFINE d == LoadOther("int8", q + 1)
  <2>1. ~Fixint(tag) /\ ~Fixuint(tag) /\ tag # Tag["int8"]
    BY <1>1, <1>5, TagFacts, TagBounds
  <2>2. o = IF d.ret = "OK" THEN d ELSE [d EXCEPT !.ret = "ENOMSG"]
    BY <1>5, <2>1 DEF LoadInt8
  <2>3. Correct("int8", d, q)
    BY <1>1, <1>5, OtherRight
  <2> HIDE DEF d
  <2>4. CASE d.ret = "OK"
    BY <2>2, <2>3, <2>4
  <2>5. CASE d.ret # "OK"
    <3>1. o = [d EXCEPT !.ret = "ENOMSG"]
      BY <2>2, <2>5
    <3>2. Ends(o, q) /\ o.ret # "OK"
      BY <2>3, <3>1 DEF Correct, Ends, RetCode
    <3>3. ~(Whole(q) /\ Readable("int8", q) /\ SignFits("int8", q))
      BY <2>3, <2>5 DEF Correct, Accepts
    <3> QED
      BY <3>2, <3>3, RefusesRight
  <2> QED
    BY <2>4, <2>5
<1>6. CASE ~Fixint(tag) /\ tag # Tag["int8"] /\ ~Fixuint(tag) /\ tag # Tag["uint8"]
  <2>1. o = [UnknownTag(tag, q + 1) EXCEPT !.ret = "ENOMSG"]
    BY <1>6 DEF LoadInt8
  <2> QED
    BY <1>1, <1>6, <2>1, FirstLevelUnknown, UnknownRight
<1> QED
  BY <1>2, <1>3, <1>4, <1>5, <1>6

\* Each level: its own tags, and those it passes on.
LEMMA LoadsRight ==
    ASSUME NEW q, At(q)
    PROVE  /\ Correct("uint16", LoadUint16(HeadAt(q), q + 1), q)
           /\ Correct("int16", LoadInt16(HeadAt(q), q + 1), q)
           /\ Correct("uint32", LoadUint32(HeadAt(q), q + 1), q)
           /\ Correct("int32", LoadInt32(HeadAt(q), q + 1), q)
           /\ Correct("uint64", LoadUint64(HeadAt(q), q + 1), q)
           /\ Correct("int64", LoadInt64(HeadAt(q), q + 1), q)
<1> DEFINE tag == HeadAt(q)
<1>1. ASSUME NEW k \in 1 .. 3, NEW l \in 1 .. 4, l = k + 1, NEW o, NEW below,
             o = (CASE tag = Tag[Uint[l]] -> LoadOwn(Uint[l], q + 1)
                    [] tag = Tag[Sint[l]] -> LoadOther(Uint[l], q + 1)
                    [] OTHER -> below),
             Correct(Uint[k], below, q)
      PROVE  Correct(Uint[l], o, q)
  <2>1. Uint[l] \in IntTypes /\ Tag[Uint[l]] # Tag[Sint[l]]
    BY RangeFacts, TagBounds
  <2>2. CASE tag = Tag[Uint[l]]
    <3>1. o = LoadOwn(Uint[l], q + 1)
      BY <1>1, <2>1, <2>2
    <3> QED
      BY <2>1, <2>2, <3>1, OwnRight
  <2>3. CASE tag = Tag[Sint[l]]
    <3>1. o = LoadOther(Uint[l], q + 1)
      BY <1>1, <2>1, <2>3
    <3> QED
      BY <2>3, <3>1, OtherRight
  <2>4. CASE tag # Tag[Uint[l]] /\ tag # Tag[Sint[l]]
    <3>1. o = below
      BY <1>1, <2>4
    <3> QED
      BY <1>1, <2>4, <3>1, LevelRight
  <2> QED
    BY <2>2, <2>3, <2>4
<1>2. ASSUME NEW k \in 1 .. 3, NEW l \in 1 .. 4, l = k + 1, NEW o, NEW below,
             o = (CASE tag = Tag[Sint[l]] -> LoadOwn(Sint[l], q + 1)
                    [] tag = Tag[Uint[l]] -> LoadOther(Sint[l], q + 1)
                    [] OTHER -> below),
             Correct(Sint[k], below, q)
      PROVE  Correct(Sint[l], o, q)
  <2>1. Sint[l] \in IntTypes /\ Tag[Uint[l]] # Tag[Sint[l]]
    BY RangeFacts, TagBounds
  <2>2. CASE tag = Tag[Sint[l]]
    <3>1. o = LoadOwn(Sint[l], q + 1)
      BY <1>2, <2>1, <2>2
    <3> QED
      BY <2>1, <2>2, <3>1, OwnRight
  <2>3. CASE tag = Tag[Uint[l]]
    <3>1. o = LoadOther(Sint[l], q + 1)
      BY <1>2, <2>1, <2>3
    <3> QED
      BY <2>3, <3>1, OtherRight
  <2>4. CASE tag # Tag[Uint[l]] /\ tag # Tag[Sint[l]]
    <3>1. o = below
      BY <1>2, <2>4
    <3> QED
      BY <1>2, <2>4, <3>1, LevelRight
  <2> QED
    BY <2>2, <2>3, <2>4
<1>3. Correct("uint16", LoadUint16(tag, q + 1), q)
  <2>1. Correct("uint8", LoadUint8(tag, q + 1), q)
    BY LoadUint8Right
  <2> QED
    BY <1>1, <2>1, TypeFacts DEF LoadUint16
<1>4. Correct("int16", LoadInt16(tag, q + 1), q)
  <2>1. Correct("int8", LoadInt8(tag, q + 1), q)
    BY LoadInt8Right
  <2> QED
    BY <1>2, <2>1, TypeFacts DEF LoadInt16
<1>5. Correct("uint32", LoadUint32(tag, q + 1), q)
  BY <1>1, <1>3, TypeFacts DEF LoadUint32
<1>6. Correct("int32", LoadInt32(tag, q + 1), q)
  BY <1>2, <1>4, TypeFacts DEF LoadInt32
<1>7. Correct("uint64", LoadUint64(tag, q + 1), q)
  BY <1>1, <1>5, TypeFacts DEF LoadUint64
<1>8. Correct("int64", LoadInt64(tag, q + 1), q)
  BY <1>2, <1>6, TypeFacts DEF LoadInt64
<1> QED
  BY <1>3, <1>4, <1>5, <1>6, <1>7, <1>8


-----------------------------------------------------------------------------
(* The decoding of reals, booleans and nil *)

LEMMA ReadableOther ==
    ASSUME NEW q
    PROVE  /\ Readable("float", q) <=> HeadAt(q) = Tag["float"] /\ IsNumber(q)
           /\ Readable("double", q) <=> IsReal(q) /\ IsNumber(q)
           /\ Readable("bool", q) <=> HeadAt(q) \in {FalseTag, TrueTag}
           /\ Readable("nil", q) <=> HeadAt(q) = NilTag
BY TypeFacts DEF Readable

LEMMA RealRight ==
    ASSUME NEW q, At(q), NEW type \in {"float", "double"}, HeadAt(q) = Tag[type],
           NEW as \in {type, "double"}
    PROVE  Correct(as, LoadReal(type, q + 1), q)
<1>1. type \in Tagged /\ type \notin IntTypes /\ q \in Nat /\ buf \in Seq(Byte) /\ as # "nil"
  BY TypeFacts DEF Tagged, At
<1>2. /\ PayloadAt(q) = Size[type] /\ IsReal(q) /\ EndOf(q) = q + 1 + Size[type]
      /\ Size[type] \in Nat
  BY <1>1, PayloadStands, SizeFacts
<1> DEFINE bytes == BytesAt(q + 1, Size[type])
           o == LoadReal(type, q + 1)
<1>3. IsNumber(q) <=> ~IsNan(bytes)
  BY <1>2 DEF IsNumber
<1>4. Readable(as, q) <=> ~IsNan(bytes)
  BY <1>2, <1>3, ReadableOther
<1>5. CASE ~Whole(q)
  <2>1. ~Holds(q + 1, Size[type])
    BY <1>2, <1>5, HeadFacts DEF Holds
  <2>2. o = Outcome(q + 1, "ENODATA", Nothing)
    BY <2>1 DEF LoadReal
  <2> QED
    BY <1>5, <2>2, StopsRight
<1>6. CASE Whole(q)
  <2>1. Holds(q + 1, Size[type])
    BY <1>2, <1>6, HeadFacts DEF Holds
  <2>2. Denoted(q) = RealOf(bytes)
    BY <1>1, <1>6, PayloadDenotes DEF ValueOf
  <2>3. CASE ~IsNan(bytes)
    <3>1. o = Outcome(EndOf(q), "OK", <<Denoted(q)>>)
      BY <1>2, <2>1, <2>2, <2>3 DEF LoadReal
    <3> QED
      BY <1>1, <1>4, <1>6, <2>3, <3>1, StoresRight
  <2>4. CASE IsNan(bytes)
    <3>1. o = [head |-> EndOf(q), ret |-> "EBADMSG", val |-> Nothing]
      BY <1>2, <2>1, <2>4 DEF LoadReal, Outcome
    <3>2. EndOf(q) \in q .. Len(buf) /\ Nothing \in Maybe
      BY <1>6, HeadFacts DEF At, Maybe
    <3> HIDE DEF o
    <3>3. Ends(o, q) /\ o.ret # "OK"
      BY <3>1, <3>2 DEF Ends, RetCode
    <3>4. Correct(as, o, q)
      BY <1>4, <2>4, <3>3, RefusesRight
    <3> QED
      BY <3>4 DEF o
  <2> QED
    BY <2>3, <2>4
<1> QED
  BY <1>5, <1>6

LEMMA UnknownOtherRight ==
    ASSUME NEW q, At(q), NEW type, ~Readable(type, q)
    PROVE  Correct(type, UnknownTag(HeadAt(q), q + 1), q)
BY UnknownEnds, RefusesRight

LEMMA LoadFloatRight ==
    ASSUME NEW q, At(q)
    PROVE  Correct("float", LoadFloat(HeadAt(q), q + 1), q)
<1>1. CASE HeadAt(q) = Tag["float"]
  <2>1. LoadFloat(HeadAt(q), q + 1) = LoadReal("float", q + 1)
    BY <1>1 DEF LoadFloat
  <2> QED
    BY <1>1, <2>1, RealRight
<1>2. CASE HeadAt(q) # Tag["float"]
  <2>1. LoadFloat(HeadAt(q), q + 1) = UnknownTag(HeadAt(q), q + 1)
    BY <1>2 DEF LoadFloat
  <2> QED
    BY <1>2, <2>1, UnknownOtherRight, ReadableOther
<1> QED
  BY <1>1, <1>2

LEMMA LoadDoubleRight ==
    ASSUME NEW q, At(q)
    PROVE  Correct("double", LoadDouble(HeadAt(q), q + 1), q)
<1>1. CASE HeadAt(q) = Tag["double"]
  <2>1. LoadDouble(HeadAt(q), q + 1) = LoadReal("double", q + 1)
    BY <1>1 DEF LoadDouble
  <2> QED
    BY <1>1, <2>1, RealRight
<1>2. CASE HeadAt(q) # Tag["double"] /\ HeadAt(q) = Tag["float"]
  <2>1. LoadDouble(HeadAt(q), q + 1) = LoadReal("float", q + 1)
    BY <1>2 DEF LoadDouble, LoadFloat
  <2> QED
    BY <1>2, <2>1, RealRight
<1>3. CASE HeadAt(q) # Tag["double"] /\ HeadAt(q) # Tag["float"]
  <2>1. LoadDouble(HeadAt(q), q + 1) = UnknownTag(HeadAt(q), q + 1)
    BY <1>3 DEF LoadDouble, LoadFloat
  <2>2. ~IsReal(q)
    <3> SUFFICES ASSUME IsReal(q) PROVE FALSE
      OBVIOUS
    <3>1. TypeOfTag[HeadAt(q)] \in {"float", "double"} /\ Tag[TypeOfTag[HeadAt(q)]] = HeadAt(q)
      BY PayloadOf DEF IsReal, Tagged
    <3> QED
      BY <1>3, <3>1
  <2> QED
    BY <2>1, <2>2, UnknownOtherRight, ReadableOther
<1> QED
  BY <1>1, <1>2, <1>3

LEMMA LoadBoolRight ==
    ASSUME NEW q, At(q)
    PROVE  Correct("bool", LoadBool(HeadAt(q), q + 1), q)
<1> DEFINE tag == HeadAt(q)
<1>1. CASE tag \in {FalseTag, TrueTag}
  <2>1. tag \in Byte /\ ~HasPayload(tag) /\ ~Fixuint(tag) /\ ~Fixint(tag) /\ FalseTag # TrueTag
    BY <1>1, AtomFacts
  <2>2. /\ PayloadAt(q) = 0 /\ EndOf(q) = q + 1
        /\ Denoted(q) = IF tag = TrueTag THEN 1 ELSE 0
    BY <2>1, AtomStands DEF AtomOf, At
  <2>3. Whole(q)
    BY <2>2, HeadFacts DEF At, Whole, Holds
  <2>4. LoadBool(tag, q + 1) = Outcome(EndOf(q), "OK", <<Denoted(q)>>)
    BY <1>1, <2>1, <2>2 DEF LoadBool
  <2> QED
    BY <1>1, <2>3, <2>4, StoresRight, ReadableOther
<1>2. CASE tag \notin {FalseTag, TrueTag}
  <2>1. LoadBool(tag, q + 1) = UnknownTag(tag, q + 1)
    BY <1>2 DEF LoadBool
  <2> QED
    BY <1>2, <2>1, UnknownOtherRight, ReadableOther
<1> QED
  BY <1>1, <1>2

LEMMA LoadNilRight ==
    ASSUME NEW q, At(q)
    PROVE  Correct("nil", LoadNil(HeadAt(q), q + 1), q)
<1> DEFINE tag == HeadAt(q)
           o == LoadNil(tag, q + 1)
<1>1. CASE tag = NilTag
  <2>1. tag \in Byte /\ ~HasPayload(tag)
    BY <1>1, AtomFacts
  <2>2. PayloadAt(q) = 0 /\ EndOf(q) = q + 1
    BY <2>1, AtomStands DEF At
  <2>3. Whole(q) /\ q + 1 \in q .. Len(buf)
    BY <2>2, HeadFacts DEF At, Whole, Holds
  <2>4. o = [head |-> q + 1, ret |-> "OK", val |-> Nothing]
    BY <1>1 DEF LoadNil, Outcome
  <2> HIDE DEF o
  <2>5. Ends(o, q)
    BY <2>2, <2>3, <2>4 DEF Ends, RetCode, Maybe
  <2>6. Correct("nil", o, q)
    BY <1>1, <2>2, <2>3, <2>4, <2>5, ReadableOther DEF Correct, Accepts, Sincere, Stored
  <2> QED
    BY <2>6 DEF o
<1>2. CASE tag # NilTag
  <2>1. o = UnknownTag(tag, q + 1)
    BY <1>2 DEF LoadNil
  <2> QED
    BY <1>2, <2>1, UnknownOtherRight, ReadableOther
<1> QED
  BY <1>1, <1>2


-----------------------------------------------------------------------------
(* The invariant, and the decoding steps *)

\* No decoding function is called before the application turns to decoding.
NotCalled == mode = "encode" => call = NoCall

ScalarInv ==
    /\ ScalarTypeOK /\ EncodedWhole /\ NotCalled
    /\ InRangeDecoded /\ NothingInvented /\ RefusedLeavesEnd

\* What stands at the position of a call that leaves the stream alone
LEMMA SameStream ==
    ASSUME buf' = buf, NEW q, NEW type, call'.at = q, call'.type = type
    PROVE  /\ HeadAt(call.at)' = HeadAt(q)
           /\ Whole(call.at)' <=> Whole(q)
           /\ EndOf(call.at)' = EndOf(q)
           /\ Denoted(call.at)' = Denoted(q)
           /\ Readable(call.type, call.at)' <=> Readable(type, q)
<1>1. HeadAt(call.at)' = HeadAt(q)
  BY DEF HeadAt
<1>2. PayloadAt(call.at)' = PayloadAt(q)
  BY <1>1 DEF PayloadAt
<1>3. \A p, w : BytesAt(p, w)' = BytesAt(p, w)
  BY DEF BytesAt
<1>4. BytesAt(call.at + 1, PayloadAt(call.at))' = BytesAt(q + 1, PayloadAt(q))
  BY <1>2 DEF BytesAt
<1>5. IsReal(call.at)' <=> IsReal(q)
  BY <1>1 DEF IsReal
<1>6. Denoted(call.at)' = Denoted(q)
  BY <1>1, <1>2, <1>4, <1>5 DEF Denoted, ReadAt
<1>7. IsNumber(call.at)' <=> IsNumber(q)
  BY <1>4, <1>5 DEF IsNumber
<1>8. Readable(call.type, call.at)' <=> Readable(type, q)
  BY <1>1, <1>2, <1>5, <1>6, <1>7 DEF Readable
<1> QED
  BY <1>1, <1>2, <1>6, <1>8 DEF Whole, EndOf, Holds

LEMMA DecodeKeeps ==
    ASSUME ScalarInv, mode = "decode", NEW type \in Type, NEW bounds, NEW o,
           Holds(head, 1) => Correct(type, o, head),
           ~Holds(head, 1) => o = Outcome(head, "ENODATA", Nothing),
           type = "nil" => InBounds(0, bounds),
           head' = o.head, val' = o.val,
           ret' = IF o.ret = "OK" /\ o.val # Nothing /\ ~InBounds(o.val[1], bounds)
                  THEN "ERANGE" ELSE o.ret,
           call' = [type |-> type, bounds |-> bounds, at |-> head],
           UNCHANGED <<mode, disc, buf, items>>
    PROVE  ScalarInv'
<1>1. PICK q \in Nat : q = head /\ q <= Len(buf)
  BY DEF ScalarInv, ScalarTypeOK
<1>2. /\ buf \in Seq(Byte) /\ Len(buf) \in Nat /\ disc \in BOOLEAN
      /\ mode' = "decode" /\ buf' = buf /\ disc' = disc /\ items' = items
      /\ call'.type = type /\ call'.bounds = bounds /\ call'.at = q
  BY <1>1 DEF ScalarInv, ScalarTypeOK
<1>3. CASE ~Holds(q, 1)
  <2>1. o = [head |-> q, ret |-> "ENODATA", val |-> Nothing]
    BY <1>1, <1>3 DEF Outcome
  <2>2. head' = q /\ ret' = "ENODATA" /\ val' = <<>>
    BY <2>1 DEF Nothing
  <2>3. ~Whole(q)
    BY <1>1, <1>2, <1>3 DEF Whole, Holds
  <2>4. ~Whole(call.at)'
    BY <1>2, <2>3, SameStream
  <2>5. ScalarTypeOK'
    BY <1>1, <1>2, <2>2 DEF ScalarInv, ScalarTypeOK
  <2>6. EncodedWhole' /\ NotCalled'
    BY <1>2 DEF EncodedWhole, NotCalled
  <2>7. InRangeDecoded' /\ NothingInvented' /\ RefusedLeavesEnd'
    BY <2>2, <2>4 DEF InRangeDecoded, NothingInvented, RefusedLeavesEnd, Decodable
  <2> QED
    BY <2>5, <2>6, <2>7 DEF ScalarInv
<1>4. CASE Holds(q, 1)
  <2>1. Correct(type, o, q)
    BY <1>1, <1>4
  <2>2. At(q)
    BY <1>1, <1>2, <1>4 DEF At, Holds
  <2>3. /\ o.head \in q .. Len(buf) /\ o.ret \in RetCode /\ o.val \in Maybe
        /\ disc /\ Whole(q) => o.head = EndOf(q)
    BY <2>1 DEF Correct, Ends
  <2>4. /\ HeadAt(call.at)' = HeadAt(q) /\ EndOf(call.at)' = EndOf(q)
        /\ Denoted(call.at)' = Denoted(q)
    BY <1>2, SameStream
  <2>5. (Whole(call.at)' <=> Whole(q)) /\ (Readable(call.type, call.at)' <=> Readable(type, q))
    BY <1>2, SameStream
  <2>6. ScalarTypeOK'
    <3>1. ret' \in RetCode
      BY <2>3 DEF RetCode
    <3>2. val' = << >> \/ \E n \in Int : val' = <<n>>
      BY <2>3 DEF Maybe, Nothing
    <3>3. val' \in Seq(Int) /\ Len(val') <= 1
      <4>1. << >> \in Seq(Int) /\ Len(<< >>) = 0
        OBVIOUS
      <4>2. ASSUME NEW n \in Int PROVE <<n>> \in Seq(Int) /\ Len(<<n>>) = 1
        OBVIOUS
      <4>3. ASSUME NEW n \in Int, val' = <<n>> PROVE val' \in Seq(Int) /\ Len(val') <= 1
        BY <4>2, <4>3
      <4>4. ASSUME val' = << >> PROVE val' \in Seq(Int) /\ Len(val') <= 1
        BY <4>1, <4>4
      <4> QED
        BY <3>2, <4>3, <4>4
    <3> QED
      BY <1>1, <1>2, <2>3, <3>1, <3>3 DEF ScalarInv, ScalarTypeOK, RetCode
  <2>7. EncodedWhole' /\ NotCalled'
    BY <1>2 DEF EncodedWhole, NotCalled
  <2>8. RefusedLeavesEnd'
    BY <1>2, <2>3, <2>4, <2>5 DEF RefusedLeavesEnd
  \* What a call that stores what stands there does with the bounds
  <2>9. ASSUME o.ret = "OK", o.val = Stored(type, q), o.head = EndOf(q),
               type = "nil" => Denoted(q) = 0
        PROVE  DecodedAt(call.at)'
    <3>1. val' = (IF call'.type = "nil" THEN Nothing ELSE <<Denoted(call.at)'>>)
      BY <1>2, <2>4, <2>9 DEF Stored
    <3>2. ret' = IF InBounds(Denoted(q), bounds) THEN "OK" ELSE "ERANGE"
      <4>1. CASE type = "nil"
        BY <2>9, <4>1 DEF Stored
      <4>2. CASE type # "nil"
        BY <2>9, <4>2 DEF Stored, Nothing
      <4> QED
        BY <4>1, <4>2
    <3> QED
      BY <1>2, <2>4, <2>9, <3>1, <3>2 DEF DecodedAt, InBounds
  <2>10. ASSUME type = "nil", Readable(type, q) PROVE Denoted(q) = 0
    <3>1. HeadAt(q) = NilTag
      BY <2>10, ReadableOther
    <3> QED
      BY <2>2, <3>1, AtomFacts, AtomStands DEF AtomOf, At
  <2>11. InRangeDecoded'
    <3> SUFFICES ASSUME Decodable(call.at)',
                        call'.type \in SignedTypes /\ HasPayload(HeadAt(call.at)') =>
                            Denoted(call.at)'
                              \in RangeOf[Sint[Level[TypeOfTag[HeadAt(call.at)']]]]
                 PROVE  DecodedAt(call.at)'
      BY DEF InRangeDecoded
    <3>1. Whole(q) /\ Readable(type, q) /\ SignFits(type, q)
      BY <1>2, <2>4, <2>5 DEF Decodable, SignFits
    <3>2. o.head = EndOf(q) /\ o.ret = "OK" /\ o.val = Stored(type, q)
      BY <2>1, <3>1 DEF Correct, Accepts
    <3> QED
      BY <2>9, <2>10, <3>1, <3>2
  <2>12. NothingInvented'
    <3> SUFFICES ASSUME ret' = "OK",
                        call'.type \notin { Uint[l] : l \in 1 .. 4 }
                          \/ HeadAt(call.at)' # Tag["int8"]
                 PROVE  Decodable(call.at)' /\ DecodedAt(call.at)'
      BY DEF NothingInvented
    <3>1. o.ret = "OK" /\ Strict(type, q)
      BY <1>2, <2>4 DEF Strict
    <3>2. Whole(q) /\ Readable(type, q) /\ o.head = EndOf(q) /\ o.val = Stored(type, q)
      BY <2>1, <3>1 DEF Correct, Sincere
    <3> QED
      BY <2>5, <2>9, <2>10, <3>1, <3>2 DEF Decodable
  <2> QED
    BY <2>6, <2>7, <2>8, <2>11, <2>12 DEF ScalarInv
<1> QED
  BY <1>3, <1>4

LEMMA EverythingHolds == InBounds(0, Everything)
BY PowerNat, Constants DEF InBounds, Everything

\* What a call finds
LEMMA CallFacts ==
    /\ ScalarInv => \A q : q = head /\ Holds(q, 1) => At(q)
    /\ Type = IntTypes \cup {"float", "double", "bool", "nil"}
<1>1. ASSUME ScalarInv, NEW q, q = head, Holds(q, 1) PROVE At(q)
  <2>1. head \in Nat /\ head < Len(buf)
    BY <1>1 DEF ScalarInv, ScalarTypeOK, Holds
  <2> QED
    BY <1>1, <2>1 DEF ScalarInv, ScalarTypeOK, At
<1> QED
  BY <1>1 DEF Type

\* The step of each decoding function, from what it does of what it finds
LEMMA DecodeUint8Keeps ==
    ASSUME ScalarInv, DecodeUint8
    PROVE  ScalarInv'
<1>1. PICK b \in BoundsOf["uint8"] : Decode("uint8", LoadUint8, b)
  BY DEF DecodeUint8
<1>2. PICK q, o : /\ q = head
                  /\ o = IF Holds(q, 1) THEN LoadUint8(HeadAt(q), q + 1)
                         ELSE Outcome(q, "ENODATA", Nothing)
  OBVIOUS
<1>3. Holds(head, 1) => Correct("uint8", o, head)
  BY <1>2, CallFacts, LoadUint8Right
<1>4. ~Holds(head, 1) => o = Outcome(head, "ENODATA", Nothing)
  BY <1>2
<1>5. /\ mode = "decode" /\ head' = o.head /\ val' = o.val
      /\ ret' = IF o.ret = "OK" /\ o.val # Nothing /\ ~InBounds(o.val[1], b)
                THEN "ERANGE" ELSE o.ret
      /\ call' = [type |-> "uint8", bounds |-> b, at |-> head]
      /\ UNCHANGED <<mode, disc, buf, items>>
  BY <1>1, <1>2 DEF Decode, HeadAt
<1>6. "uint8" \in Type /\ "uint8" # "nil"
  BY CallFacts, TypeFacts
<1> QED
  BY <1>3, <1>4, <1>5, <1>6, DecodeKeeps

LEMMA DecodeInt8Keeps ==
    ASSUME ScalarInv, DecodeInt8
    PROVE  ScalarInv'
<1>1. PICK b \in BoundsOf["int8"] : Decode("int8", LoadInt8, b)
  BY DEF DecodeInt8
<1>2. PICK q, o : /\ q = head
                  /\ o = IF Holds(q, 1) THEN LoadInt8(HeadAt(q), q + 1)
                         ELSE Outcome(q, "ENODATA", Nothing)
  OBVIOUS
<1>3. Holds(head, 1) => Correct("int8", o, head)
  BY <1>2, CallFacts, LoadInt8Right
<1>4. ~Holds(head, 1) => o = Outcome(head, "ENODATA", Nothing)
  BY <1>2
<1>5. /\ mode = "decode" /\ head' = o.head /\ val' = o.val
      /\ ret' = IF o.ret = "OK" /\ o.val # Nothing /\ ~InBounds(o.val[1], b)
                THEN "ERANGE" ELSE o.ret
      /\ call' = [type |-> "int8", bounds |-> b, at |-> head]
      /\ UNCHANGED <<mode, disc, buf, items>>
  BY <1>1, <1>2 DEF Decode, HeadAt
<1>6. "int8" \in Type /\ "int8" # "nil"
  BY CallFacts, TypeFacts
<1> QED
  BY <1>3, <1>4, <1>5, <1>6, DecodeKeeps

LEMMA DecodeUint16Keeps ==
    ASSUME ScalarInv, DecodeUint16
    PROVE  ScalarInv'
<1>1. PICK b \in BoundsOf["uint16"] : Decode("uint16", LoadUint16, b)
  BY DEF DecodeUint16
<1>2. PICK q, o : /\ q = head
                  /\ o = IF Holds(q, 1) THEN LoadUint16(HeadAt(q), q + 1)
                         ELSE Outcome(q, "ENODATA", Nothing)
  OBVIOUS
<1>3. Holds(head, 1) => Correct("uint16", o, head)
  BY <1>2, CallFacts, LoadsRight
<1>4. ~Holds(head, 1) => o = Outcome(head, "ENODATA", Nothing)
  BY <1>2
<1>5. /\ mode = "decode" /\ head' = o.head /\ val' = o.val
      /\ ret' = IF o.ret = "OK" /\ o.val # Nothing /\ ~InBounds(o.val[1], b)
                THEN "ERANGE" ELSE o.ret
      /\ call' = [type |-> "uint16", bounds |-> b, at |-> head]
      /\ UNCHANGED <<mode, disc, buf, items>>
  BY <1>1, <1>2 DEF Decode, HeadAt
<1>6. "uint16" \in Type /\ "uint16" # "nil"
  BY CallFacts, TypeFacts
<1> QED
  BY <1>3, <1>4, <1>5, <1>6, DecodeKeeps

LEMMA DecodeInt16Keeps ==
    ASSUME ScalarInv, DecodeInt16
    PROVE  ScalarInv'
<1>1. PICK b \in BoundsOf["int16"] : Decode("int16", LoadInt16, b)
  BY DEF DecodeInt16
<1>2. PICK q, o : /\ q = head
                  /\ o = IF Holds(q, 1) THEN LoadInt16(HeadAt(q), q + 1)
                         ELSE Outcome(q, "ENODATA", Nothing)
  OBVIOUS
<1>3. Holds(head, 1) => Correct("int16", o, head)
  BY <1>2, CallFacts, LoadsRight
<1>4. ~Holds(head, 1) => o = Outcome(head, "ENODATA", Nothing)
  BY <1>2
<1>5. /\ mode = "decode" /\ head' = o.head /\ val' = o.val
      /\ ret' = IF o.ret = "OK" /\ o.val # Nothing /\ ~InBounds(o.val[1], b)
                THEN "ERANGE" ELSE o.ret
      /\ call' = [type |-> "int16", bounds |-> b, at |-> head]
      /\ UNCHANGED <<mode, disc, buf, items>>
  BY <1>1, <1>2 DEF Decode, HeadAt
<1>6. "int16" \in Type /\ "int16" # "nil"
  BY CallFacts, TypeFacts
<1> QED
  BY <1>3, <1>4, <1>5, <1>6, DecodeKeeps

LEMMA DecodeUint32Keeps ==
    ASSUME ScalarInv, DecodeUint32
    PROVE  ScalarInv'
<1>1. PICK b \in BoundsOf["uint32"] : Decode("uint32", LoadUint32, b)
  BY DEF DecodeUint32
<1>2. PICK q, o : /\ q = head
                  /\ o = IF Holds(q, 1) THEN LoadUint32(HeadAt(q), q + 1)
                         ELSE Outcome(q, "ENODATA", Nothing)
  OBVIOUS
<1>3. Holds(head, 1) => Correct("uint32", o, head)
  BY <1>2, CallFacts, LoadsRight
<1>4. ~Holds(head, 1) => o = Outcome(head, "ENODATA", Nothing)
  BY <1>2
<1>5. /\ mode = "decode" /\ head' = o.head /\ val' = o.val
      /\ ret' = IF o.ret = "OK" /\ o.val # Nothing /\ ~InBounds(o.val[1], b)
                THEN "ERANGE" ELSE o.ret
      /\ call' = [type |-> "uint32", bounds |-> b, at |-> head]
      /\ UNCHANGED <<mode, disc, buf, items>>
  BY <1>1, <1>2 DEF Decode, HeadAt
<1>6. "uint32" \in Type /\ "uint32" # "nil"
  BY CallFacts, TypeFacts
<1> QED
  BY <1>3, <1>4, <1>5, <1>6, DecodeKeeps

LEMMA DecodeInt32Keeps ==
    ASSUME ScalarInv, DecodeInt32
    PROVE  ScalarInv'
<1>1. PICK b \in BoundsOf["int32"] : Decode("int32", LoadInt32, b)
  BY DEF DecodeInt32
<1>2. PICK q, o : /\ q = head
                  /\ o = IF Holds(q, 1) THEN LoadInt32(HeadAt(q), q + 1)
                         ELSE Outcome(q, "ENODATA", Nothing)
  OBVIOUS
<1>3. Holds(head, 1) => Correct("int32", o, head)
  BY <1>2, CallFacts, LoadsRight
<1>4. ~Holds(head, 1) => o = Outcome(head, "ENODATA", Nothing)
  BY <1>2
<1>5. /\ mode = "decode" /\ head' = o.head /\ val' = o.val
      /\ ret' = IF o.ret = "OK" /\ o.val # Nothing /\ ~InBounds(o.val[1], b)
                THEN "ERANGE" ELSE o.ret
      /\ call' = [type |-> "int32", bounds |-> b, at |-> head]
      /\ UNCHANGED <<mode, disc, buf, items>>
  BY <1>1, <1>2 DEF Decode, HeadAt
<1>6. "int32" \in Type /\ "int32" # "nil"
  BY CallFacts, TypeFacts
<1> QED
  BY <1>3, <1>4, <1>5, <1>6, DecodeKeeps

LEMMA DecodeUint64Keeps ==
    ASSUME ScalarInv, DecodeUint64
    PROVE  ScalarInv'
<1>1. PICK b \in BoundsOf["uint64"] : Decode("uint64", LoadUint64, b)
  BY DEF DecodeUint64
<1>2. PICK q, o : /\ q = head
                  /\ o = IF Holds(q, 1) THEN LoadUint64(HeadAt(q), q + 1)
                         ELSE Outcome(q, "ENODATA", Nothing)
  OBVIOUS
<1>3. Holds(head, 1) => Correct("uint64", o, head)
  BY <1>2, CallFacts, LoadsRight
<1>4. ~Holds(head, 1) => o = Outcome(head, "ENODATA", Nothing)
  BY <1>2
<1>5. /\ mode = "decode" /\ head' = o.head /\ val' = o.val
      /\ ret' = IF o.ret = "OK" /\ o.val # Nothing /\ ~InBounds(o.val[1], b)
                THEN "ERANGE" ELSE o.ret
      /\ call' = [type |-> "uint64", bounds |-> b, at |-> head]
      /\ UNCHANGED <<mode, disc, buf, items>>
  BY <1>1, <1>2 DEF Decode, HeadAt
<1>6. "uint64" \in Type /\ "uint64" # "nil"
  BY CallFacts, TypeFacts
<1> QED
  BY <1>3, <1>4, <1>5, <1>6, DecodeKeeps

LEMMA DecodeInt64Keeps ==
    ASSUME ScalarInv, DecodeInt64
    PROVE  ScalarInv'
<1>1. PICK b \in BoundsOf["int64"] : Decode("int64", LoadInt64, b)
  BY DEF DecodeInt64
<1>2. PICK q, o : /\ q = head
                  /\ o = IF Holds(q, 1) THEN LoadInt64(HeadAt(q), q + 1)
                         ELSE Outcome(q, "ENODATA", Nothing)
  OBVIOUS
<1>3. Holds(head, 1) => Correct("int64", o, head)
  BY <1>2, CallFacts, LoadsRight
<1>4. ~Holds(head, 1) => o = Outcome(head, "ENODATA", Nothing)
  BY <1>2
<1>5. /\ mode = "decode" /\ head' = o.head /\ val' = o.val
      /\ ret' = IF o.ret = "OK" /\ o.val # Nothing /\ ~InBounds(o.val[1], b)
                THEN "ERANGE" ELSE o.ret
      /\ call' = [type |-> "int64", bounds |-> b, at |-> head]
      /\ UNCHANGED <<mode, disc, buf, items>>
  BY <1>1, <1>2 DEF Decode, HeadAt
<1>6. "int64" \in Type /\ "int64" # "nil"
  BY CallFacts, TypeFacts
<1> QED
  BY <1>3, <1>4, <1>5, <1>6, DecodeKeeps

LEMMA DecodeFloatKeeps ==
    ASSUME ScalarInv, DecodeFloat
    PROVE  ScalarInv'
<1>1. PICK b \in RealBoundsOf : Decode("float", LoadFloat, b)
  BY DEF DecodeFloat
<1>2. PICK q, o : /\ q = head
                  /\ o = IF Holds(q, 1) THEN LoadFloat(HeadAt(q), q + 1)
                         ELSE Outcome(q, "ENODATA", Nothing)
  OBVIOUS
<1>3. Holds(head, 1) => Correct("float", o, head)
  BY <1>2, CallFacts, LoadFloatRight
<1>4. ~Holds(head, 1) => o = Outcome(head, "ENODATA", Nothing)
  BY <1>2
<1>5. /\ mode = "decode" /\ head' = o.head /\ val' = o.val
      /\ ret' = IF o.ret = "OK" /\ o.val # Nothing /\ ~InBounds(o.val[1], b)
                THEN "ERANGE" ELSE o.ret
      /\ call' = [type |-> "float", bounds |-> b, at |-> head]
      /\ UNCHANGED <<mode, disc, buf, items>>
  BY <1>1, <1>2 DEF Decode, HeadAt
<1>6. "float" \in Type /\ "float" # "nil"
  BY CallFacts, TypeFacts
<1> QED
  BY <1>3, <1>4, <1>5, <1>6, DecodeKeeps

LEMMA DecodeDoubleKeeps ==
    ASSUME ScalarInv, DecodeDouble
    PROVE  ScalarInv'
<1>1. PICK b \in RealBoundsOf : Decode("double", LoadDouble, b)
  BY DEF DecodeDouble
<1>2. PICK q, o : /\ q = head
                  /\ o = IF Holds(q, 1) THEN LoadDouble(HeadAt(q), q + 1)
                         ELSE Outcome(q, "ENODATA", Nothing)
  OBVIOUS
<1>3. Holds(head, 1) => Correct("double", o, head)
  BY <1>2, CallFacts, LoadDoubleRight
<1>4. ~Holds(head, 1) => o = Outcome(head, "ENODATA", Nothing)
  BY <1>2
<1>5. /\ mode = "decode" /\ head' = o.head /\ val' = o.val
      /\ ret' = IF o.ret = "OK" /\ o.val # Nothing /\ ~InBounds(o.val[1], b)
                THEN "ERANGE" ELSE o.ret
      /\ call' = [type |-> "double", bounds |-> b, at |-> head]
      /\ UNCHANGED <<mode, disc, buf, items>>
  BY <1>1, <1>2 DEF Decode, HeadAt
<1>6. "double" \in Type /\ "double" # "nil"
  BY CallFacts, TypeFacts
<1> QED
  BY <1>3, <1>4, <1>5, <1>6, DecodeKeeps

LEMMA DecodeBoolKeeps ==
    ASSUME ScalarInv, DecodeBool
    PROVE  ScalarInv'
<1>1. PICK b : b = Everything /\ Decode("bool", LoadBool, b)
  BY DEF DecodeBool
<1>2. PICK q, o : /\ q = head
                  /\ o = IF Holds(q, 1) THEN LoadBool(HeadAt(q), q + 1)
                         ELSE Outcome(q, "ENODATA", Nothing)
  OBVIOUS
<1>3. Holds(head, 1) => Correct("bool", o, head)
  BY <1>2, CallFacts, LoadBoolRight
<1>4. ~Holds(head, 1) => o = Outcome(head, "ENODATA", Nothing)
  BY <1>2
<1>5. /\ mode = "decode" /\ head' = o.head /\ val' = o.val
      /\ ret' = IF o.ret = "OK" /\ o.val # Nothing /\ ~InBounds(o.val[1], b)
                THEN "ERANGE" ELSE o.ret
      /\ call' = [type |-> "bool", bounds |-> b, at |-> head]
      /\ UNCHANGED <<mode, disc, buf, items>>
  BY <1>1, <1>2 DEF Decode, HeadAt
<1>6. "bool" \in Type /\ "bool" # "nil"
  BY CallFacts, TypeFacts
<1> QED
  BY <1>3, <1>4, <1>5, <1>6, DecodeKeeps

LEMMA DecodeNilKeeps ==
    ASSUME ScalarInv, DecodeNil
    PROVE  ScalarInv'
<1>1. PICK b : b = Everything /\ Decode("nil", LoadNil, b)
  BY DEF DecodeNil
<1>2. PICK q, o : /\ q = head
                  /\ o = IF Holds(q, 1) THEN LoadNil(HeadAt(q), q + 1)
                         ELSE Outcome(q, "ENODATA", Nothing)
  OBVIOUS
<1>3. Holds(head, 1) => Correct("nil", o, head)
  BY <1>2, CallFacts, LoadNilRight
<1>4. ~Holds(head, 1) => o = Outcome(head, "ENODATA", Nothing)
  BY <1>2
<1>5. /\ mode = "decode" /\ head' = o.head /\ val' = o.val
      /\ ret' = IF o.ret = "OK" /\ o.val # Nothing /\ ~InBounds(o.val[1], b)
                THEN "ERANGE" ELSE o.ret
      /\ call' = [type |-> "nil", bounds |-> b, at |-> head]
      /\ UNCHANGED <<mode, disc, buf, items>>
  BY <1>1, <1>2 DEF Decode, HeadAt
<1>6. "nil" \in Type /\ InBounds(0, b)
  BY <1>1, CallFacts, EverythingHolds
<1> QED
  BY <1>3, <1>4, <1>5, <1>6, DecodeKeeps

-----------------------------------------------------------------------------
(* What the encoding functions write *)

\* The writes are a tag and the payload of a type, or a byte that has none, and stand
\* for the number given.
Writes(writes, n) ==
    \/ \E type \in Tagged, s \in Seq(Byte) :
          writes = TagAnd(type, s) /\ Len(s) = Size[type] /\ ValueOf(type, s) = n
    \/ \E byte \in Byte : writes = Alone(byte) /\ ~HasPayload(byte) /\ AtomOf(byte) = n

LEMMA WideWrites ==
    ASSUME NEW type \in IntTypes, NEW n \in RangeOf[type]
    PROVE  n \in Int /\ Writes(Wide(type, n), n)
<1>1. PICK l \in 1 .. 4 : type \in {Uint[l], Sint[l]}
  BY DEF IntTypes, SignedTypes
<1> DEFINE w == Width[l]
           s == Bytes(n, w)
<1>2. /\ w \in 1 .. Width[4] /\ w \in 0 .. Width[4] /\ type \in Tagged /\ Size[type] = w
      /\ RangeOf[Uint[l]] = 0 .. Power[w] - 1
      /\ RangeOf[Sint[l]] = -(Power[w] \div 2) .. Power[w] \div 2 - 1
      /\ Uint[l] \notin SignedTypes /\ Sint[l] \in SignedTypes
  BY <1>1, RangeFacts, Constants
<1> HIDE DEF w
<1>3. n \in Int
  <2>1. CASE type = Uint[l]
    <3>1. n \in 0 .. Power[w] - 1
      BY <1>2, <2>1
    <3> QED
      BY <3>1
  <2>2. CASE type = Sint[l]
    <3>1. n \in -(Power[w] \div 2) .. Power[w] \div 2 - 1
      BY <1>2, <2>2
    <3> QED
      BY <3>1
  <2> QED
    BY <1>1, <2>1, <2>2
<1>4. s \in Seq(Byte) /\ Len(s) = w /\ Unsigned(s) = n % Power[w]
  BY <1>2, <1>3, BytesTyped, UnsignedBytes
<1>5. ValueOf(type, s) = n
  <2>1. CASE type = Uint[l]
    <3>1. n \in 0 .. Power[w] - 1 /\ Power[w] \in Nat \ {0}
      BY <1>2, <2>1, PowerNat
    <3>2. n % Power[w] = n
      BY <3>1, RestOf
    <3>3. ValueOf(type, s) = Unsigned(s)
      BY <1>2, <2>1 DEF ValueOf
    <3> QED
      BY <1>4, <3>2, <3>3
  <2>2. CASE type = Sint[l]
    <3>1. n \in -(Power[w] \div 2) .. Power[w] \div 2 - 1
      BY <1>2, <2>2
    <3>2. Signed(n % Power[w], w) = n
      BY <1>2, <3>1, SignedWraps
    <3>3. ValueOf(type, s) = Signed(Unsigned(s), Len(s))
      BY <1>2, <2>2 DEF ValueOf
    <3> QED
      BY <1>4, <3>2, <3>3
  <2> QED
    BY <1>1, <2>1, <2>2
<1>6. Wide(type, n) = TagAnd(type, s)
  BY <1>2 DEF Wide
<1> HIDE DEF s
<1> QED
  BY <1>2, <1>3, <1>4, <1>5, <1>6 DEF Writes

\* An integer in one byte is its rest by Base.
LEMMA OneByte ==
    ASSUME NEW n \in Int
    PROVE  n % Base \in Byte /\ << Bytes(n, 1) >> = Alone(n % Base)
<1>1. Power[1 - 1] = 1 /\ n \div 1 = n /\ n % Base \in 0 .. Base - 1
  <2>1. Power[1 - 1] = 1 /\ n \div 1 = n
    BY PowerNat
  <2>2. Base \in Nat \ {0}
    BY Constants
  <2>3. n % Base \in 0 .. Base - 1
    BY <2>2, Divides
  <2> QED
    BY <2>1, <2>3
<1>2. Bytes(n, 1) = [i \in 1 .. 1 |-> n % Base]
  BY <1>1 DEF Bytes
<1>3. Bytes(n, 1) = << n % Base >>
  BY <1>2
<1> QED
  BY <1>1, <1>3 DEF Alone, Byte

LEMMA FirstLevelWrites ==
    /\ \A n \in RangeOf["uint8"] : Writes(EncodeUint8(n), n)
    /\ \A n \in RangeOf["int8"] : Writes(EncodeInt8(n), n)
<1>1. /\ "uint8" \in IntTypes /\ "int8" \in IntTypes
      /\ RangeOf["uint8"] = 0 .. Base - 1
      /\ RangeOf["int8"] = -(Base \div 2) .. Base \div 2 - 1
  <2>1. Power[1] = Base
    <3>1. Power[0 + 1] = Base * Power[0] /\ Power[0] = 1
      BY PowerNat, Constants
    <3> QED
      BY <3>1, Constants
  <2> QED
    BY <2>1, RangeFacts, TypeFacts, Constants
<1>2. /\ Base \in Nat \ {0} /\ Base \div 2 \in Nat /\ Base = 2 * (Base \div 2)
      /\ Base \div 8 \in Nat /\ Base \div 8 <= Base \div 2
  <2>1. PICK k \in Nat : Base = 8 * k /\ k >= 5
    BY Constants
  <2> QED
    BY <2>1
<1>3. ASSUME NEW n \in RangeOf["uint8"] PROVE Writes(EncodeUint8(n), n)
  <2>1. CASE n >= Base \div 2
    <3>1. EncodeUint8(n) = Wide("uint8", n)
      BY <2>1 DEF EncodeUint8
    <3> QED
      BY <1>1, <3>1, WideWrites
  <2>2. CASE n < Base \div 2
    <3>1. EncodeUint8(n) = << Bytes(n, 1) >> /\ n \in 0 .. Base - 1 /\ n \in Int
      BY <1>1, <1>2, <2>2 DEF EncodeUint8
    <3>2. n % Base = n
      BY <1>2, <3>1, RestOf
    <3>3. n \in Byte /\ EncodeUint8(n) = Alone(n)
      BY <3>1, <3>2, OneByte
    <3>4. Fixuint(n)
      BY <2>2 DEF Fixuint
    <3> QED
      BY <3>3, <3>4, AtomFacts DEF Writes, AtomOf
  <2> QED
    BY <1>1, <1>2, <2>1, <2>2
<1>4. ASSUME NEW n \in RangeOf["int8"] PROVE Writes(EncodeInt8(n), n)
  <2>1. CASE n < -(Base \div 8)
    <3>1. EncodeInt8(n) = Wide("int8", n)
      BY <2>1 DEF EncodeInt8
    <3> QED
      BY <1>1, <3>1, WideWrites
  <2>2. CASE n >= 0
    <3>1. n \in 0 .. Base - 1 /\ n < Base \div 2 /\ n \in Int /\ ~(n < -(Base \div 8))
      BY <1>1, <1>2, <2>2
    <3>2. EncodeInt8(n) = << Bytes(n, 1) >>
      BY <3>1 DEF EncodeInt8
    <3>3. n % Base = n
      BY <1>2, <3>1, RestOf
    <3>4. n \in Byte /\ EncodeInt8(n) = Alone(n)
      BY <3>1, <3>2, <3>3, OneByte
    <3>5. Fixuint(n)
      BY <3>1 DEF Fixuint
    <3> QED
      BY <3>4, <3>5, AtomFacts DEF Writes, AtomOf
  <2>3. CASE -(Base \div 8) <= n /\ n < 0
    <3> DEFINE byte == n + Base
    <3>1. /\ byte \in 0 .. Base - 1 /\ n = byte - Base /\ n \in Int
          /\ ~(n < -(Base \div 8)) /\ byte >= Base - Base \div 8
      BY <1>1, <1>2, <2>3
    <3> HIDE DEF byte
    <3>2. EncodeInt8(n) = << Bytes(n, 1) >>
      BY <3>1 DEF EncodeInt8
    <3>3. n % Base = byte
      BY <1>2, <3>1, RestOf
    <3>4. byte \in Byte /\ EncodeInt8(n) = Alone(byte)
      BY <3>1, <3>2, <3>3, OneByte
    <3>5. Fixint(byte)
      BY <3>1 DEF Fixint
    <3>6. ~Fixuint(byte) /\ ~HasPayload(byte)
      BY <3>4, <3>5, AtomFacts
    <3>7. AtomOf(byte) = n
      BY <3>1, <3>5, <3>6 DEF AtomOf
    <3> QED
      BY <3>4, <3>6, <3>7 DEF Writes
  <2> QED
    BY <1>1, <1>2, <2>1, <2>2, <2>3
<1> QED
  BY <1>3, <1>4

LEMMA IntegerWrites ==
    /\ \A n \in RangeOf["uint16"] : Writes(EncodeUint16(n), n)
    /\ \A n \in RangeOf["int16"] : Writes(EncodeInt16(n), n)
    /\ \A n \in RangeOf["uint32"] : Writes(EncodeUint32(n), n)
    /\ \A n \in RangeOf["int32"] : Writes(EncodeInt32(n), n)
    /\ \A n \in RangeOf["uint64"] : Writes(EncodeUint64(n), n)
    /\ \A n \in RangeOf["int64"] : Writes(EncodeInt64(n), n)
<1>1. \A type \in IntTypes : \A n \in RangeOf[type] : Writes(Wide(type, n), n)
  BY WideWrites
<1>2. {"uint16", "uint32", "uint64", "int16", "int32", "int64"} \subseteq IntTypes
  BY TypeFacts
<1>3. \A n \in RangeOf["uint16"] : Writes(EncodeUint16(n), n)
  BY <1>1, <1>2, FirstLevelWrites DEF EncodeUint16
<1>4. \A n \in RangeOf["int16"] : Writes(EncodeInt16(n), n)
  BY <1>1, <1>2, FirstLevelWrites DEF EncodeInt16
<1>5. \A n \in RangeOf["uint32"] : Writes(EncodeUint32(n), n)
  BY <1>1, <1>2, <1>3 DEF EncodeUint32
<1>6. \A n \in RangeOf["int32"] : Writes(EncodeInt32(n), n)
  BY <1>1, <1>2, <1>4 DEF EncodeInt32
<1>7. \A n \in RangeOf["uint64"] : Writes(EncodeUint64(n), n)
  BY <1>1, <1>2, <1>5 DEF EncodeUint64
<1>8. \A n \in RangeOf["int64"] : Writes(EncodeInt64(n), n)
  BY <1>1, <1>2, <1>6 DEF EncodeInt64
<1> QED
  BY <1>3, <1>4, <1>5, <1>6, <1>7, <1>8

LEMMA OtherWrites ==
    /\ \A b \in {0, 1} : Writes(EncodeBool(b), b)
    /\ Writes(EncodeNil, 0)
    /\ \A x \in FloatValues : x \in Int /\ Writes(EncodeFloat(x), x)
    /\ \A x \in Reals : x \in Int /\ Writes(EncodeDouble(x), x)
<1>1. \A b \in {0, 1} : Writes(EncodeBool(b), b)
  <2>1. AtomOf(TrueTag) = 1 /\ AtomOf(FalseTag) = 0
    BY AtomFacts DEF AtomOf
  <2>2. EncodeBool(1) = Alone(TrueTag) /\ EncodeBool(0) = Alone(FalseTag)
    BY DEF EncodeBool
  <2> QED
    BY <2>1, <2>2, AtomFacts DEF Writes
<1>2. Writes(EncodeNil, 0)
  <2>1. AtomOf(NilTag) = 0 /\ EncodeNil = Alone(NilTag)
    BY AtomFacts DEF AtomOf, EncodeNil
  <2> QED
    BY <2>1, AtomFacts DEF Writes
<1>3. ASSUME NEW type \in {"float", "double"}, NEW x \in Reals,
             x % Finer(Size[type]) = 0
      PROVE  x \in Int /\ Writes(TagAnd(type, RealBytes(x, Size[type])), x)
  <2>1. type \in Tagged /\ type \notin IntTypes /\ Size[type] \in 1 .. Width[4]
    BY TypeFacts, SizeFacts DEF Tagged
  <2>2. x \in Int /\ -(Power[Width[4]] \div 2) < x /\ x < Power[Width[4]] \div 2
    BY StreamsAssumption, RealsAssumption
  <2> DEFINE s == RealBytes(x, Size[type])
  <2>3. s \in Seq(Byte) /\ Len(s) = Size[type] /\ RealOf(s) = x
    BY <1>3, <2>1, <2>2, RealRoundTrip
  <2>4. ValueOf(type, s) = x
    BY <2>1, <2>3 DEF ValueOf
  <2> HIDE DEF s
  <2>5. Writes(TagAnd(type, s), x)
    BY <2>1, <2>3, <2>4 DEF Writes
  <2> QED
    BY <2>2, <2>5 DEF s
<1>4. \A x \in FloatValues : x \in Int /\ Writes(EncodeFloat(x), x)
  BY <1>3 DEF FloatValues, EncodeFloat
<1>5. ASSUME NEW x \in Reals PROVE x \in Int /\ Writes(EncodeDouble(x), x)
  <2>1. Size["double"] = Width[4]
    BY LevelFacts DEF Tagged
  <2>2. Finer(Width[4]) = 1
    BY PowerNat, Constants DEF Finer
  <2>3. x \in Int
    BY StreamsAssumption
  <2>4. x % 1 = 0
    BY <2>3
  <2> QED
    BY <1>3, <2>1, <2>2, <2>4 DEF EncodeDouble
<1> QED
  BY <1>1, <1>2, <1>4, <1>5


-----------------------------------------------------------------------------
(* The encoding steps *)

\* An item that is whole is left as it is by what is written after it.
LEMMA LongerStream ==
    ASSUME buf \in Seq(Byte), NEW s \in Seq(Byte), buf' = buf \o s, NEW p \in Nat, Whole(p)
    PROVE  /\ Whole(p)' /\ EndOf(p)' = EndOf(p) /\ Denoted(p)' = Denoted(p)
<1>1. /\ Len(buf) \in Nat /\ Len(s) \in Nat /\ buf' \in Seq(Byte)
      /\ Len(buf') = Len(buf) + Len(s)
      /\ \A i \in 1 .. Len(buf) : buf'[i] = buf[i]
  OBVIOUS
<1>2. p + 1 \in 1 .. Len(buf)
  BY <1>1 DEF Whole
<1>3. HeadAt(p)' = HeadAt(p) /\ HeadAt(p) \in Byte
  BY <1>1, <1>2 DEF HeadAt
<1>4. PayloadAt(p)' = PayloadAt(p)
  BY <1>3 DEF PayloadAt
<1> DEFINE w == PayloadAt(p)
<1>5. w \in Nat /\ p + 1 + w <= Len(buf)
  <2>1. p + 1 + w <= Len(buf)
    BY DEF Whole, Holds
  <2>2. CASE HasPayload(HeadAt(p))
    BY <2>1, <2>2, PayloadOf, SizeFacts, Constants DEF PayloadAt
  <2>3. CASE ~HasPayload(HeadAt(p))
    BY <2>1, <2>3 DEF PayloadAt
  <2> QED
    BY <2>2, <2>3
<1> HIDE DEF w
<1>6. BytesAt(p + 1, w)' = BytesAt(p + 1, w)
  <2>1. SubSeq(buf', p + 2, p + 1 + w) = [i \in 1 .. w |-> buf'[p + 1 + i]]
    BY <1>1, <1>5
  <2>2. SubSeq(buf, p + 2, p + 1 + w) = [i \in 1 .. w |-> buf[p + 1 + i]]
    BY <1>1, <1>5
  <2>3. \A i \in 1 .. w : p + 1 + i \in 1 .. Len(buf)
    BY <1>1, <1>5
  <2>4. [i \in 1 .. w |-> buf'[p + 1 + i]] = [i \in 1 .. w |-> buf[p + 1 + i]]
    BY <1>1, <2>3
  <2>5. (p + 1) + 1 = p + 2 /\ w' = w
    BY <1>4 DEF w
  <2> QED
    BY <2>1, <2>2, <2>4, <2>5 DEF BytesAt
<1>7. BytesAt(p + 1, PayloadAt(p))' = BytesAt(p + 1, PayloadAt(p))
  BY <1>6 DEF w
<1>8. IsReal(p)' <=> IsReal(p)
  BY <1>3 DEF IsReal
<1>9. Denoted(p)' = Denoted(p)
  BY <1>3, <1>4, <1>7, <1>8 DEF Denoted, ReadAt
<1>10. Whole(p)'
  BY <1>1, <1>2, <1>4, <1>5 DEF Whole, Holds, w
<1> QED
  BY <1>4, <1>9, <1>10 DEF EndOf

LEMMA Joined ==
    ASSUME NEW a \in Seq(Byte), NEW b \in Seq(Byte)
    PROVE  /\ a \o b \in Seq(Byte) /\ Len(a \o b) = Len(a) + Len(b)
           /\ \A i \in 1 .. Len(a) : (a \o b)[i] = a[i]
           /\ \A i \in 1 .. Len(b) : (a \o b)[Len(a) + i] = b[i]
<1>1. Len(a) \in Nat /\ Len(b) \in Nat
  OBVIOUS
<1>2. /\ a \o b \in Seq(Byte) /\ Len(a \o b) = Len(a) + Len(b)
      /\ \A i \in 1 .. Len(a) + Len(b) : (a \o b)[i] = IF i <= Len(a) THEN a[i] ELSE b[i - Len(a)]
  BY ConcatProperties
<1> QED
  BY <1>1, <1>2

\* What is written is an item at the end of the stream: a byte by itself...
LEMMA NewAtom ==
    ASSUME buf \in Seq(Byte), NEW byte \in Byte, ~HasPayload(byte), NEW p, p = Len(buf),
           buf' = buf \o <<byte>>
    PROVE  Whole(p)' /\ EndOf(p)' = Len(buf') /\ Denoted(p)' = AtomOf(byte)
<1>1. p \in Nat /\ Len(buf') = p + 1 /\ buf'[p + 1] = byte
  OBVIOUS
<1>2. HeadAt(p)' = byte
  BY <1>1 DEF HeadAt
<1>3. PayloadAt(p)' = 0 /\ ~IsReal(p)'
  BY <1>2 DEF PayloadAt, IsReal
<1>4. Denoted(p)' = AtomOf(byte)
  BY <1>2, <1>3 DEF Denoted, AtomOf
<1> QED
  BY <1>1, <1>3, <1>4 DEF Whole, Holds, EndOf

\* c is a, then the byte of t, then b.
IsJoined(a, t, b, c) ==
    /\ c \in Seq(Byte) /\ Len(c) = Len(a) + 1 + Len(b) /\ c[Len(a) + 1] = t[1]
    /\ \A i \in 1 .. Len(b) : c[Len(a) + 1 + i] = b[i]

LEMMA JoinedItem ==
    ASSUME NEW a \in Seq(Byte), NEW t \in Seq(Byte), Len(t) = 1, NEW b \in Seq(Byte),
           NEW s, s = t \o b, NEW c, c = a \o s
    PROVE  IsJoined(a, t, b, c)
<1>1. Len(a) \in Nat /\ Len(b) \in Nat
  OBVIOUS
<1>2. s \in Seq(Byte) /\ Len(s) = 1 + Len(b)
  <2>1. s \in Seq(Byte) /\ Len(s) = Len(t) + Len(b)
    BY Joined, Zenon
  <2> QED
    BY <2>1
<1>3. \A i \in 1 .. Len(t) : s[i] = t[i]
  BY Joined
<1>4. \A i \in 1 .. Len(b) : s[Len(t) + i] = b[i]
  BY Joined
<1>5. c \in Seq(Byte) /\ Len(c) = Len(a) + Len(s)
  BY <1>2, Joined, Zenon
<1>6. \A i \in 1 .. Len(s) : c[Len(a) + i] = s[i]
  BY <1>2, Joined
<1>7. 1 \in 1 .. Len(s) /\ 1 \in 1 .. Len(t)
  BY <1>1, <1>2
<1>8. c[Len(a) + 1] = t[1]
  BY <1>3, <1>6, <1>7
<1>9. ASSUME NEW i \in 1 .. Len(b) PROVE c[Len(a) + 1 + i] = b[i]
  <2>1. 1 + i \in 1 .. Len(s) /\ Len(a) + (1 + i) = Len(a) + 1 + i
    BY <1>1, <1>2
  <2>2. c[Len(a) + (1 + i)] = s[1 + i]
    BY <2>1, <1>6
  <2> QED
    BY <2>1, <2>2, <1>4
<1>10. \A i \in 1 .. Len(b) : c[Len(a) + 1 + i] = b[i]
  BY <1>9
<1>11. Len(c) = Len(a) + 1 + Len(b)
  <2>1. PICK m \in Nat, n \in Nat : m = Len(a) /\ n = Len(b)
    BY <1>1
  <2>2. Len(s) = 1 + n /\ Len(c) = m + Len(s)
    BY <1>2, <1>5, <2>1
  <2>3. PICK k, l : k = Len(s) /\ l = Len(c)
    OBVIOUS
  <2>4. k = 1 + n /\ l = m + k
    BY <2>2, <2>3, Zenon
  <2>5. l = m + 1 + n
    BY <2>4
  <2> QED
    BY <2>1, <2>3, <2>5, Zenon
<1> QED
  BY <1>5, <1>8, <1>10, <1>11, Zenon DEF IsJoined

\* ... or a tag and its payload.
LEMMA NewPayload ==
    ASSUME buf \in Seq(Byte), NEW type \in Tagged, NEW b \in Seq(Byte), Len(b) = Size[type],
           NEW p, p = Len(buf), NEW t \in Seq(Byte), Len(t) = 1, t[1] = Tag[type],
           NEW s, s = t \o b, buf' = buf \o s
    PROVE  Whole(p)' /\ EndOf(p)' = Len(buf') /\ Denoted(p)' = ValueOf(type, b)
<1>1. p \in Nat /\ Size[type] \in Nat /\ Tag[type] \in Byte
  BY TagFacts, SizeFacts
<1> DEFINE w == Size[type]
<1>2. /\ buf' \in Seq(Byte) /\ Len(buf') = p + 1 + w /\ buf'[p + 1] = Tag[type]
      /\ \A i \in 1 .. w : buf'[p + 1 + i] = b[i]
  <2>1. PICK a : a = buf
    OBVIOUS
  <2>2. PICK c : c = buf'
    OBVIOUS
  <2>3. c = a \o s
    BY <2>1, <2>2
  <2>4. IsJoined(a, t, b, c)
    BY <2>1, <2>3, JoinedItem
  <2>5. p = Len(a)
    BY <2>1
  <2>6. /\ c \in Seq(Byte) /\ Len(c) = p + 1 + w /\ c[p + 1] = Tag[type]
        /\ \A i \in 1 .. w : c[p + 1 + i] = b[i]
    BY <2>4, <2>5 DEF IsJoined
  <2> QED
    BY <2>2, <2>6
<1>3. /\ HeadAt(p)' = Tag[type] /\ HasPayload(Tag[type]) /\ TypeOfTag[Tag[type]] = type
      /\ ~Fixuint(Tag[type]) /\ ~Fixint(Tag[type])
  BY <1>2, TagFacts DEF HeadAt
<1>4. PayloadAt(p)' = w /\ (IsReal(p)' <=> type \notin IntTypes)
  BY <1>3 DEF PayloadAt, IsReal
<1>5. BytesAt(p + 1, PayloadAt(p))' = b
  <2>1. SubSeq(buf', (p + 1) + 1, p + 1 + w) = [i \in 1 .. w |-> buf'[p + 1 + i]]
    <3> HIDE DEF w
    <3>1. w \in Nat /\ p + 1 + w <= Len(buf')
      BY <1>1, <1>2 DEF w
    <3>2. \A x \in Seq(Byte) :
             p + 1 + w <= Len(x) => SubSeq(x, (p + 1) + 1, p + 1 + w) = [i \in 1 .. w |-> x[p + 1 + i]]
      BY <1>1, <3>1
    <3> QED
      BY <1>2, <3>1, <3>2
  <2>2. b = [i \in 1 .. w |-> b[i]]
    BY <1>1
  <2>3. [i \in 1 .. w |-> buf'[p + 1 + i]] = [i \in 1 .. w |-> b[i]]
    BY <1>2
  <2> QED
    BY <1>4, <2>1, <2>2, <2>3 DEF BytesAt
<1>6. Denoted(p)' = ValueOf(type, b)
  <2>1. CASE type \notin IntTypes
    <3>1. Denoted(p)' = RealOf(BytesAt(p + 1, PayloadAt(p)))'
      BY <1>3, <1>4, <2>1 DEF Denoted
    <3>2. Denoted(p)' = RealOf(b)
      BY <1>5, <3>1
    <3> QED
      BY <2>1, <3>2 DEF ValueOf
  <2>2. CASE type \in IntTypes
    <3>1. Denoted(p)' = IF type \in SignedTypes THEN Signed(Unsigned(b), w) ELSE Unsigned(b)
      BY <1>3, <1>4, <1>5, <2>2 DEF Denoted, ReadAt
    <3> QED
      BY <2>2, <3>1 DEF ValueOf
  <2> QED
    BY <2>1, <2>2
<1> QED
  BY <1>1, <1>2, <1>4, <1>6 DEF Whole, Holds, EndOf

\* What the writes of a function make together
AllOf(writes) == IF Len(writes) = 1 THEN writes[1] ELSE writes[1] \o writes[2]

LEMMA NewItem ==
    ASSUME buf \in Seq(Byte), NEW n, NEW writes, Writes(writes, n), NEW p, p = Len(buf),
           NEW s, s = AllOf(writes)
    PROVE  /\ s \in Seq(Byte) /\ writes[1] \in Seq(Byte) /\ Len(writes[1]) = 1
           /\ buf' = buf \o s =>
                Whole(p)' /\ EndOf(p)' = Len(buf') /\ Denoted(p)' = n
<1>1. CASE \E byte \in Byte : writes = Alone(byte) /\ ~HasPayload(byte) /\ AtomOf(byte) = n
  <2>1. PICK byte \in Byte : writes = Alone(byte) /\ ~HasPayload(byte) /\ AtomOf(byte) = n
    BY <1>1
  <2>2. Len(writes) = 1 /\ writes[1] = <<byte>>
    BY <2>1 DEF Alone
  <2>3. s = <<byte>>
    BY <2>2 DEF AllOf
  <2>4. <<byte>> \in Seq(Byte) /\ Len(<<byte>>) = 1
    OBVIOUS
  <2> QED
    BY <2>1, <2>2, <2>3, <2>4, NewAtom
<1>2. CASE \E type \in Tagged, b \in Seq(Byte) :
              writes = TagAnd(type, b) /\ Len(b) = Size[type] /\ ValueOf(type, b) = n
  <2>1. PICK type \in Tagged, b \in Seq(Byte) :
               writes = TagAnd(type, b) /\ Len(b) = Size[type] /\ ValueOf(type, b) = n
    BY <1>2
  <2>2. PICK t : t = <<Tag[type]>>
    OBVIOUS
  <2>3. Len(writes) = 2 /\ writes[1] = t /\ writes[2] = b
    BY <2>1, <2>2 DEF TagAnd
  <2>4. s = t \o b
    BY <2>3 DEF AllOf
  <2>5. t \in Seq(Byte) /\ Len(t) = 1 /\ t[1] = Tag[type]
    BY <2>2, TagFacts
  <2>6. s \in Seq(Byte)
    BY <2>4, <2>5, Joined, Zenon
  <2> QED
    BY <2>1, <2>2, <2>3, <2>4, <2>5, <2>6, NewPayload, Zenon
<1> QED
  BY <1>1, <1>2 DEF Writes

\* Where the items of the buffer end, and how they stand in it.
EndAt(i) == IF i = 0 THEN 0 ELSE EndOf(items[i].at)
Stands(i) ==
    items[i].at = EndAt(i - 1) /\ Whole(items[i].at) /\ Denoted(items[i].at) = items[i].n
Laid ==
    /\ \A i \in DOMAIN items : Stands(i)
    /\ Len(buf) - EndAt(Len(items)) \in 0 .. (IF ret = "OK" THEN 0 ELSE 1)

LEMMA LaidFacts ==
    /\ EncodedWhole <=> (mode = "encode" => Laid)
    /\ EncodedWhole' <=> (mode' = "encode" => Laid')
<1>1. EncodedWhole <=> (mode = "encode" => Laid)
  BY DEF EncodedWhole, Laid, Stands, EndAt
<1>2. EncodedWhole' <=> (mode' = "encode" => Laid')
  BY DEF EncodedWhole, Laid, Stands, EndAt
<1> QED
  BY <1>1, <1>2

\* The item that begins at position p once the step is done
LEMMA ItemAt ==
    ASSUME NEW i, NEW p, items'[i].at = p
    PROVE  /\ Whole(items[i].at)' <=> Whole(p)'
           /\ EndOf(items[i].at)' = EndOf(p)'
           /\ Denoted(items[i].at)' = Denoted(p)'
<1>1. HeadAt(items[i].at)' = HeadAt(p)'
  BY DEF HeadAt
<1>2. PayloadAt(items[i].at)' = PayloadAt(p)'
  BY <1>1 DEF PayloadAt
<1>3. BytesAt(items[i].at + 1, PayloadAt(items[i].at))' = BytesAt(p + 1, PayloadAt(p))'
  BY <1>2 DEF BytesAt
<1>4. IsReal(items[i].at)' <=> IsReal(p)'
  BY <1>1 DEF IsReal
<1>5. Denoted(items[i].at)' = Denoted(p)'
  BY <1>1, <1>2, <1>3, <1>4 DEF Denoted, ReadAt
<1> QED
  BY <1>1, <1>2, <1>5 DEF Whole, EndOf, Holds

LEMMA EndTyped ==
    ASSUME NEW p \in Nat
    PROVE  EndOf(p) \in Nat
<1>1. CASE HasPayload(HeadAt(p))
  BY <1>1, PayloadOf, SizeFacts, Constants DEF PayloadAt, EndOf
<1>2. CASE ~HasPayload(HeadAt(p))
  BY <1>2 DEF PayloadAt, EndOf
<1> QED
  BY <1>1, <1>2

LEMMA ElementOf ==
    ASSUME NEW S, NEW s \in Seq(S), NEW i \in DOMAIN s
    PROVE  s[i] \in S
OBVIOUS

LEMMA ItemTyped ==
    ASSUME ScalarTypeOK, NEW i \in DOMAIN items
    PROVE  items[i].at \in Nat
<1> DEFINE Item == [at : Nat, n : Int]
<1>1. \A item \in Item : item.at \in Nat
  OBVIOUS
<1>2. items \in Seq(Item)
  BY DEF ScalarTypeOK
<1> HIDE DEF Item
<1>3. items[i] \in Item
  BY <1>2, ElementOf
<1> QED
  BY <1>1, <1>3

\* The items that are there stay as they are when the buffer grows.
LEMMA ItemStays ==
    ASSUME ScalarTypeOK, Laid, NEW s \in Seq(Byte), buf' = buf \o s,
           NEW i \in DOMAIN items, items'[i] = items[i]
    PROVE  /\ items'[i].at = items[i].at /\ Whole(items[i].at)'
           /\ Denoted(items[i].at)' = items'[i].n
           /\ EndOf(items[i].at)' = EndOf(items[i].at)
<1>1. items[i].at \in Nat
  BY ItemTyped
<1>2. PICK p \in Nat : p = items[i].at
  BY <1>1
<1>3. Whole(p) /\ Denoted(p) = items[i].n
  BY <1>2 DEF Laid, Stands
<1>4. Whole(p)' /\ EndOf(p)' = EndOf(p) /\ Denoted(p)' = Denoted(p)
  BY <1>3, LongerStream DEF ScalarTypeOK
<1>5. /\ Whole(items[i].at)' <=> Whole(p)'
      /\ EndOf(items[i].at)' = EndOf(p)'
      /\ Denoted(items[i].at)' = Denoted(p)'
  BY <1>2, ItemAt
<1> QED
  BY <1>2, <1>3, <1>4, <1>5

LEMMA ItemsStay ==
    ASSUME ScalarTypeOK, Laid, NEW s \in Seq(Byte), buf' = buf \o s,
           \A i \in DOMAIN items : items'[i] = items[i]
    PROVE  /\ \A i \in DOMAIN items : Stands(i)'
           /\ \A i \in DOMAIN items \cup {0} : EndAt(i)' = EndAt(i)
<1>1. DOMAIN items = 1 .. Len(items) /\ Len(items) \in Nat
  BY DEF ScalarTypeOK
<1>2. \A i \in DOMAIN items \cup {0} : EndAt(i)' = EndAt(i)
  BY ItemStays DEF EndAt
<1>3. ASSUME NEW i \in DOMAIN items PROVE Stands(i)'
  <2>1. i - 1 \in DOMAIN items \cup {0}
    BY <1>1
  <2>2. items[i].at = EndAt(i - 1)
    BY DEF Laid, Stands
  <2>3. items'[i].at = EndAt(i - 1)'
    BY <1>2, <2>1, <2>2, ItemStays
  <2> QED
    BY <2>3, ItemStays DEF Stands
<1> QED
  BY <1>2, <1>3

LEMMA Grown ==
    ASSUME buf \in Seq(Byte), NEW s \in Seq(Byte), NEW p, p = Len(buf), NEW c, c = buf \o s
    PROVE  c \in Seq(Byte) /\ Len(c) = p + Len(s)
OBVIOUS

\* What is left of the types when a function encodes
LEMMA EncodeTyped ==
    ASSUME ScalarTypeOK, UNCHANGED <<mode, disc, head, val, call>>, mode = "encode",
           buf' \in Seq(Byte), Len(buf) \in Nat, Len(buf') \in Nat,
           Len(buf) <= Len(buf'), Len(buf') <= Room,
           ret' \in {"OK", "EMSGSIZE"}, items' \in Seq([at : Nat, n : Int])
    PROVE  ScalarTypeOK'
<1>1. head \in 0 .. Len(buf) /\ head' = head
  BY DEF ScalarTypeOK
<1>2. head' \in 0 .. Len(buf')
  BY <1>1
<1>3. /\ mode' \in {"encode", "decode"} /\ disc' \in BOOLEAN
      /\ val' \in Seq(Int) /\ Len(val') <= 1
      /\ call'.type \in Type /\ call'.at \in 0 .. head'
  BY <1>1 DEF ScalarTypeOK
<1> QED
  BY <1>2, <1>3 DEF ScalarTypeOK

\* What a function encodes is laid after what was there.
LEMMA EncodeKeeps ==
    ASSUME ScalarInv, NEW n \in Int, NEW writes, Writes(writes, n), Encode(n, writes)
    PROVE  ScalarInv'
<1>1. PICK p, s : p = Len(buf) /\ s = AllOf(writes)
  OBVIOUS
<1>2. /\ buf \in Seq(Byte) /\ Len(buf) \in Nat /\ p \in Nat /\ Len(buf) <= Room
      /\ items \in Seq([at : Nat, n : Int]) /\ Len(items) \in Nat
      /\ DOMAIN items = 1 .. Len(items)
      /\ mode = "encode" /\ ret = "OK" /\ mode' = "encode"
      /\ ScalarTypeOK /\ Laid /\ call = NoCall
      /\ UNCHANGED <<mode, disc, head, val, call>>
  <2>1. mode = "encode" /\ ret = "OK" /\ UNCHANGED <<mode, disc, head, val, call>>
    BY DEF Encode
  <2>2. /\ buf \in Seq(Byte) /\ Len(buf) <= Room /\ items \in Seq([at : Nat, n : Int])
        /\ ScalarTypeOK /\ call = NoCall
    BY <2>1 DEF ScalarInv, ScalarTypeOK, NotCalled
  <2>3. Laid
    BY <2>1, LaidFacts DEF ScalarInv
  <2>4. /\ Len(buf) \in Nat /\ p \in Nat /\ Len(items) \in Nat
        /\ DOMAIN items = 1 .. Len(items)
    BY <1>1, <2>2
  <2> QED
    BY <2>1, <2>2, <2>3, <2>4
<1>3. /\ s \in Seq(Byte) /\ writes[1] \in Seq(Byte) /\ Len(writes[1]) = 1
      /\ buf' = buf \o s => Whole(p)' /\ EndOf(p)' = Len(buf') /\ Denoted(p)' = n
  <2>1. buf \in Seq(Byte)
    BY <1>2
  <2> QED
    BY <1>1, <2>1, NewItem
<1>4. EndAt(Len(items)) = p
  <2>1. Len(buf) - EndAt(Len(items)) \in 0 .. 0
    BY <1>2 DEF Laid
  <2>2. EndAt(Len(items)) \in Nat
    <3>1. CASE Len(items) = 0
      BY <3>1 DEF EndAt
    <3>2. CASE Len(items) # 0
      <4>1. Len(items) \in DOMAIN items
        BY <1>2, <3>2
      <4>2. PICK q \in Nat : q = items[Len(items)].at
        BY <1>2, <4>1, ItemTyped
      <4> QED
        BY <3>2, <4>2, EndTyped DEF EndAt
    <3> QED
      BY <3>1, <3>2
  <2> QED
    BY <1>1, <1>2, <2>1, <2>2
\* There is room: the item is the last one.
<1>5. CASE RoomFor(Len(buf), s)
  <2> DEFINE item == [at |-> Len(buf), n |-> n]
  <2>1. buf' = buf \o s /\ items' = Append(items, item) /\ ret' = "OK" /\ RoomFor(p, s)
    BY <1>1, <1>2, <1>5 DEF Encode, AllOf
  <2>2. Whole(p)' /\ EndOf(p)' = Len(buf') /\ Denoted(p)' = n
    BY <1>3, <2>1
  <2>3. item \in [at : Nat, n : Int] /\ item.at = p /\ item.n = n
    BY <1>1, <1>2
  <2> HIDE DEF item
  <2>4. PICK m \in Nat : m = Len(items) + 1
    BY <1>2
  <2>5. /\ items' \in Seq([at : Nat, n : Int]) /\ Len(items') = m /\ DOMAIN items' = 1 .. m
        /\ items'[m] = item /\ \A i \in DOMAIN items : items'[i] = items[i]
    <3>1. PICK S : S = [at : Nat, n : Int]
      OBVIOUS
    <3>2. items \in Seq(S) /\ item \in S
      BY <1>2, <2>3, <3>1
    <3>3. /\ Append(items, item) \in Seq(S) /\ Len(Append(items, item)) = Len(items) + 1
          /\ Append(items, item)[Len(items) + 1] = item
          /\ \A i \in 1 .. Len(items) : Append(items, item)[i] = items[i]
      BY <3>2
    <3>4. items' \in Seq(S) /\ Len(items') = m /\ items'[m] = item
      BY <2>1, <2>4, <3>3
    <3> QED
      BY <1>2, <2>1, <3>1, <3>3, <3>4
  <2>6. /\ \A i \in DOMAIN items : Stands(i)'
        /\ \A i \in DOMAIN items \cup {0} : EndAt(i)' = EndAt(i)
    BY <1>2, <1>3, <2>1, <2>5, ItemsStay
  <2>7. EndAt(m - 1)' = p
    BY <1>2, <1>4, <2>4, <2>6
  <2>8. /\ items'[m].at = p /\ items'[m].n = n
        /\ Whole(items[m].at)' /\ Denoted(items[m].at)' = n
        /\ EndOf(items[m].at)' = Len(buf')
    <3>1. items'[m].at = p /\ items'[m].n = n
      BY <2>3, <2>5
    <3>2. /\ Whole(items[m].at)' <=> Whole(p)'
          /\ EndOf(items[m].at)' = EndOf(p)'
          /\ Denoted(items[m].at)' = Denoted(p)'
      BY <3>1, ItemAt
    <3> QED
      BY <2>2, <3>1, <3>2
  <2>9. Stands(m)'
    BY <2>7, <2>8 DEF Stands
  <2>10. \A i \in DOMAIN items' : Stands(i)'
    <3>1. \A i \in 1 .. m : i \in DOMAIN items \/ i = m
      BY <1>2, <2>4
    <3> QED
      BY <2>5, <2>6, <2>9, <3>1
  <2>11. EndAt(Len(items))' = Len(buf')
    <3>1. m # 0 /\ Len(items') = m
      BY <1>2, <2>4, <2>5
    <3>2. EndAt(m)' = EndOf(items[m].at)'
      BY <3>1 DEF EndAt
    <3> QED
      BY <2>8, <3>1, <3>2 DEF EndAt
  <2>12. buf' \in Seq(Byte) /\ Len(buf') \in Nat /\ p <= Len(buf') /\ Len(buf') <= Room
    <3>1. PICK c : c = buf'
      OBVIOUS
    <3>2. c \in Seq(Byte) /\ Len(c) = p + Len(s)
      BY <1>1, <1>2, <1>3, <2>1, <3>1, Grown, Zenon
    <3>3. Len(s) \in Nat /\ p + Len(s) <= Room
      BY <1>3, <2>1 DEF RoomFor
    <3> QED
      BY <1>2, <3>1, <3>2, <3>3, RoomAssumption
  <2>13. Laid'
    BY <2>1, <2>10, <2>11, <2>12 DEF Laid
  <2>14. ScalarTypeOK'
    BY <1>1, <1>2, <2>1, <2>5, <2>12, EncodeTyped
  <2>15. EncodedWhole'
    BY <2>13, LaidFacts
  <2> QED
    BY <1>2, <2>14, <2>15
       DEF ScalarInv, NotCalled, InRangeDecoded, NothingInvented, RefusedLeavesEnd, Called
\* There is none: the items are as they were, with one byte after them at most.
<1>6. CASE ~RoomFor(Len(buf), s)
  <2>1. PICK t \in Seq(Byte) :
           buf' = buf \o t /\ Len(t) \in 0 .. 1 /\ Len(buf) + Len(t) <= Room
    <3>1. buf' = IF RoomFor(Len(buf), writes[1]) THEN buf \o writes[1] ELSE buf
      BY <1>1, <1>6 DEF Encode, AllOf
    <3>2. CASE RoomFor(Len(buf), writes[1])
      <4>1. PICK t : t = writes[1]
        OBVIOUS
      <4>2. t \in Seq(Byte) /\ Len(t) = 1 /\ buf' = buf \o t /\ RoomFor(Len(buf), t)
        BY <1>3, <3>1, <3>2, <4>1
      <4>3. Len(t) \in 0 .. 1 /\ Len(buf) + Len(t) <= Room
        BY <4>2 DEF RoomFor
      <4> QED
        BY <4>2, <4>3
    <3>3. CASE ~RoomFor(Len(buf), writes[1])
      <4>1. << >> \in Seq(Byte) /\ Len(<< >>) = 0 /\ buf = buf \o << >>
        BY <1>2
      <4>2. PICK t : t = << >>
        OBVIOUS
      <4>3. t \in Seq(Byte) /\ Len(t) = 0 /\ buf' = buf \o t
        BY <3>1, <3>3, <4>1, <4>2, Zenon
      <4>4. Len(t) \in 0 .. 1 /\ Len(buf) + Len(t) <= Room
        BY <1>2, <4>3
      <4> QED
        BY <4>3, <4>4
    <3> QED
      BY <3>2, <3>3
  <2>2. items' = items /\ ret' = "EMSGSIZE"
    BY <1>1, <1>6 DEF Encode, AllOf
  <2>3. /\ \A i \in DOMAIN items : Stands(i)'
        /\ \A i \in DOMAIN items \cup {0} : EndAt(i)' = EndAt(i)
    BY <1>2, <2>1, <2>2, ItemsStay
  <2>4. EndAt(Len(items))' = p
    <3>1. PICK m : m = Len(items) /\ m = Len(items') /\ m \in DOMAIN items \cup {0}
      <4>1. Len(items) \in 1 .. Len(items) \cup {0}
        BY <1>2
      <4> QED
        BY <1>2, <2>2, <4>1
    <3>2. EndAt(m)' = p
      BY <1>4, <2>3, <3>1
    <3> QED
      BY <3>1, <3>2 DEF EndAt
  <2>5. /\ buf' \in Seq(Byte) /\ Len(buf') \in Nat /\ Len(buf') <= Room
        /\ Len(buf') - p \in 0 .. 1 /\ p <= Len(buf')
    BY <1>1, <1>2, <2>1
  <2>6. Laid'
    BY <2>2, <2>3, <2>4, <2>5 DEF Laid
  <2>7. ScalarTypeOK'
    BY <1>1, <1>2, <2>2, <2>5, EncodeTyped
  <2>8. EncodedWhole'
    BY <2>6, LaidFacts
  <2> QED
    BY <1>2, <2>7, <2>8
       DEF ScalarInv, NotCalled, InRangeDecoded, NothingInvented, RefusedLeavesEnd, Called
<1> QED
  BY <1>5, <1>6

LEMMA EncodeTypeKeeps ==
    ASSUME ScalarInv, NEW type, type \in IntTypes, NEW n \in ValuesOf(type), NEW writes,
           \A k \in RangeOf[type] : k = n => Writes(writes, n), Encode(n, writes)
    PROVE  ScalarInv'
<1>1. n \in Int /\ n \in RangeOf[type]
  BY StreamsAssumption DEF ValuesOf
<1>2. Writes(writes, n)
  BY <1>1
<1> QED
  BY <1>1, <1>2, EncodeKeeps

LEMMA EncodeIntegerKeeps ==
    ASSUME ScalarInv, EncodeInteger
    PROVE  ScalarInv'
<1>1. ASSUME NEW n \in ValuesOf("uint8"), Encode(n, EncodeUint8(n)) PROVE ScalarInv'
  <2>1. PICK type : type = "uint8"
    OBVIOUS
  <2>2. PICK writes : writes = EncodeUint8(n)
    OBVIOUS
  <2>3. type \in IntTypes
    BY <2>1, TypeFacts
  <2>4. n \in ValuesOf(type) /\ Encode(n, writes)
    BY <1>1, <2>1, <2>2
  <2>5. \A k \in RangeOf[type] : k = n => Writes(writes, n)
    BY <2>1, <2>2, FirstLevelWrites
  <2> QED
    BY <2>3, <2>4, <2>5, EncodeTypeKeeps
<1>2. ASSUME NEW n \in ValuesOf("int8"), Encode(n, EncodeInt8(n)) PROVE ScalarInv'
  <2>1. PICK type : type = "int8"
    OBVIOUS
  <2>2. PICK writes : writes = EncodeInt8(n)
    OBVIOUS
  <2>3. type \in IntTypes
    BY <2>1, TypeFacts
  <2>4. n \in ValuesOf(type) /\ Encode(n, writes)
    BY <1>2, <2>1, <2>2
  <2>5. \A k \in RangeOf[type] : k = n => Writes(writes, n)
    BY <2>1, <2>2, FirstLevelWrites
  <2> QED
    BY <2>3, <2>4, <2>5, EncodeTypeKeeps
<1>3. ASSUME NEW n \in ValuesOf("uint16"), Encode(n, EncodeUint16(n)) PROVE ScalarInv'
  <2>1. PICK type : type = "uint16"
    OBVIOUS
  <2>2. PICK writes : writes = EncodeUint16(n)
    OBVIOUS
  <2>3. type \in IntTypes
    BY <2>1, TypeFacts
  <2>4. n \in ValuesOf(type) /\ Encode(n, writes)
    BY <1>3, <2>1, <2>2
  <2>5. \A k \in RangeOf[type] : k = n => Writes(writes, n)
    BY <2>1, <2>2, IntegerWrites
  <2> QED
    BY <2>3, <2>4, <2>5, EncodeTypeKeeps
<1>4. ASSUME NEW n \in ValuesOf("int16"), Encode(n, EncodeInt16(n)) PROVE ScalarInv'
  <2>1. PICK type : type = "int16"
    OBVIOUS
  <2>2. PICK writes : writes = EncodeInt16(n)
    OBVIOUS
  <2>3. type \in IntTypes
    BY <2>1, TypeFacts
  <2>4. n \in ValuesOf(type) /\ Encode(n, writes)
    BY <1>4, <2>1, <2>2
  <2>5. \A k \in RangeOf[type] : k = n => Writes(writes, n)
    BY <2>1, <2>2, IntegerWrites
  <2> QED
    BY <2>3, <2>4, <2>5, EncodeTypeKeeps
<1>5. ASSUME NEW n \in ValuesOf("uint32"), Encode(n, EncodeUint32(n)) PROVE ScalarInv'
  <2>1. PICK type : type = "uint32"
    OBVIOUS
  <2>2. PICK writes : writes = EncodeUint32(n)
    OBVIOUS
  <2>3. type \in IntTypes
    BY <2>1, TypeFacts
  <2>4. n \in ValuesOf(type) /\ Encode(n, writes)
    BY <1>5, <2>1, <2>2
  <2>5. \A k \in RangeOf[type] : k = n => Writes(writes, n)
    BY <2>1, <2>2, IntegerWrites
  <2> QED
    BY <2>3, <2>4, <2>5, EncodeTypeKeeps
<1>6. ASSUME NEW n \in ValuesOf("int32"), Encode(n, EncodeInt32(n)) PROVE ScalarInv'
  <2>1. PICK type : type = "int32"
    OBVIOUS
  <2>2. PICK writes : writes = EncodeInt32(n)
    OBVIOUS
  <2>3. type \in IntTypes
    BY <2>1, TypeFacts
  <2>4. n \in ValuesOf(type) /\ Encode(n, writes)
    BY <1>6, <2>1, <2>2
  <2>5. \A k \in RangeOf[type] : k = n => Writes(writes, n)
    BY <2>1, <2>2, IntegerWrites
  <2> QED
    BY <2>3, <2>4, <2>5, EncodeTypeKeeps
<1>7. ASSUME NEW n \in ValuesOf("uint64"), Encode(n, EncodeUint64(n)) PROVE ScalarInv'
  <2>1. PICK type : type = "uint64"
    OBVIOUS
  <2>2. PICK writes : writes = EncodeUint64(n)
    OBVIOUS
  <2>3. type \in IntTypes
    BY <2>1, TypeFacts
  <2>4. n \in ValuesOf(type) /\ Encode(n, writes)
    BY <1>7, <2>1, <2>2
  <2>5. \A k \in RangeOf[type] : k = n => Writes(writes, n)
    BY <2>1, <2>2, IntegerWrites
  <2> QED
    BY <2>3, <2>4, <2>5, EncodeTypeKeeps
<1>8. ASSUME NEW n \in ValuesOf("int64"), Encode(n, EncodeInt64(n)) PROVE ScalarInv'
  <2>1. PICK type : type = "int64"
    OBVIOUS
  <2>2. PICK writes : writes = EncodeInt64(n)
    OBVIOUS
  <2>3. type \in IntTypes
    BY <2>1, TypeFacts
  <2>4. n \in ValuesOf(type) /\ Encode(n, writes)
    BY <1>8, <2>1, <2>2
  <2>5. \A k \in RangeOf[type] : k = n => Writes(writes, n)
    BY <2>1, <2>2, IntegerWrites
  <2> QED
    BY <2>3, <2>4, <2>5, EncodeTypeKeeps
<1> QED
  BY <1>1, <1>2, <1>3, <1>4, <1>5, <1>6, <1>7, <1>8, Zenon DEF EncodeInteger

LEMMA EncodeOtherKeeps ==
    ASSUME ScalarInv, EncodeOther
    PROVE  ScalarInv'
<1>1. PICK n, writes : n \in Int /\ Writes(writes, n) /\ Encode(n, writes)
  <2>1. CASE \E b \in {0, 1} : Encode(b, EncodeBool(b))
    BY <2>1, OtherWrites
  <2>2. CASE Encode(0, EncodeNil)
    BY <2>2, OtherWrites
  <2>3. CASE \E x \in FloatValues : Encode(x, EncodeFloat(x))
    BY <2>3, OtherWrites
  <2>4. CASE \E x \in Reals : Encode(x, EncodeDouble(x))
    BY <2>4, OtherWrites
  <2> QED
    BY <2>1, <2>2, <2>3, <2>4 DEF EncodeOther
<1> QED
  BY <1>1, EncodeKeeps

\* The application turns to decoding: no call was made yet.
LEMMA TurnKeeps ==
    ASSUME ScalarInv, Turn
    PROVE  ScalarInv'
<1>1. /\ mode' = "decode" /\ ret' = "OK" /\ items' = << >> /\ call' = NoCall
      /\ disc' = disc /\ buf' = buf /\ head' = head /\ val' = val /\ call' = call
  BY DEF ScalarInv, NotCalled, Turn
<1>2. ~Called'
  BY <1>1 DEF Called, NoCall
<1>3. items' \in Seq([at : Nat, n : Int])
  BY <1>1
<1>4. ScalarTypeOK'
  BY <1>1, <1>3 DEF ScalarInv, ScalarTypeOK
<1> QED
  BY <1>1, <1>2, <1>4
     DEF ScalarInv, EncodedWhole, NotCalled, InRangeDecoded, NothingInvented, RefusedLeavesEnd

LEMMA ScalarStart ==
    ASSUME ScalarInit
    PROVE  ScalarInv
<1>1. buf \in Seq(Byte) /\ Len(buf) \in Nat /\ (mode = "encode" => Len(buf) = 0)
  <2>1. CASE mode = "encode" /\ buf = << >>
    BY <2>1
  <2>2. CASE mode = "decode" /\ buf \in Streams
    BY <2>2, StreamsAssumption
  <2> QED
    BY <2>1, <2>2 DEF ScalarInit
<1>2. /\ mode \in {"encode", "decode"} /\ disc \in BOOLEAN /\ head = 0 /\ ret = "OK"
      /\ val = << >> /\ call = NoCall /\ items = << >>
  BY DEF ScalarInit, Nothing
<1>3. call.type = "nil" /\ call.at = 0 /\ "nil" \in Type
  BY <1>2, CallFacts DEF NoCall
<1>4. items \in Seq([at : Nat, n : Int]) /\ Len(items) = 0 /\ DOMAIN items = {}
  BY <1>2
<1>5. val \in Seq(Int) /\ Len(val) <= 1
  BY <1>2
<1>6. ScalarTypeOK
  BY <1>1, <1>2, <1>3, <1>4, <1>5, RoomAssumption DEF ScalarTypeOK
<1>7. EncodedWhole
  <2>1. EndAt(Len(items)) = 0
    BY <1>4 DEF EndAt
  <2>2. mode = "encode" => Laid
    BY <1>1, <1>2, <1>4, <2>1 DEF Laid
  <2> QED
    BY <2>2, LaidFacts
<1>8. ~Called
  BY <1>2 DEF Called
<1> QED
  BY <1>2, <1>6, <1>7, <1>8
     DEF ScalarInv, NotCalled, InRangeDecoded, NothingInvented, RefusedLeavesEnd

LEMMA ScalarStutters ==
    ASSUME ScalarInv, UNCHANGED scalarVars
    PROVE  ScalarInv'
BY DEF scalarVars, ScalarInv, ScalarTypeOK, EncodedWhole, NotCalled, InRangeDecoded,
       NothingInvented, RefusedLeavesEnd, Called, Decodable, DecodedAt, Whole, EndOf, Denoted,
       Readable, HeadAt, PayloadAt, Holds, BytesAt, ReadAt, IsReal, IsNumber

LEMMA ScalarKeeps ==
    ASSUME ScalarInv, [ScalarNext]_scalarVars
    PROVE  ScalarInv'
<1>1. CASE EncodeInteger
  BY <1>1, EncodeIntegerKeeps
<1>2. CASE EncodeOther
  BY <1>2, EncodeOtherKeeps
<1>3. CASE Turn
  BY <1>3, TurnKeeps
<1>4. CASE DecodeUint8
  BY <1>4, DecodeUint8Keeps
<1>5. CASE DecodeInt8
  BY <1>5, DecodeInt8Keeps
<1>6. CASE DecodeUint16
  BY <1>6, DecodeUint16Keeps
<1>7. CASE DecodeInt16
  BY <1>7, DecodeInt16Keeps
<1>8. CASE DecodeUint32
  BY <1>8, DecodeUint32Keeps
<1>9. CASE DecodeInt32
  BY <1>9, DecodeInt32Keeps
<1>10. CASE DecodeUint64
  BY <1>10, DecodeUint64Keeps
<1>11. CASE DecodeInt64
  BY <1>11, DecodeInt64Keeps
<1>12. CASE DecodeFloat
  BY <1>12, DecodeFloatKeeps
<1>13. CASE DecodeDouble
  BY <1>13, DecodeDoubleKeeps
<1>14. CASE DecodeBool
  BY <1>14, DecodeBoolKeeps
<1>15. CASE DecodeNil
  BY <1>15, DecodeNilKeeps
<1>16. CASE UNCHANGED scalarVars
  BY <1>16, ScalarStutters
<1> QED
  BY <1>1, <1>2, <1>3, <1>4, <1>5, <1>6, <1>7, <1>8, <1>9, <1>10, <1>11, <1>12, <1>13,
     <1>14, <1>15, <1>16 DEF ScalarNext

-----------------------------------------------------------------------------
(* What holds of the scalar codecs, for every value of the constants *)

LEMMA ScalarInvariant == ScalarSpec => []ScalarInv
<1>1. ScalarInit => ScalarInv
  BY ScalarStart
<1>2. ScalarInv /\ [ScalarNext]_scalarVars => ScalarInv'
  BY ScalarKeeps
<1> QED
  BY <1>1, <1>2, PTL DEF ScalarSpec

\* Every variable has its type: no call of the encoder writes past the end of the
\* buffer (dpack_encoder_write()), and none of the decoder reads past the end of the
\* stream (dpack_decoder_read()).
THEOREM ScalarTypeCorrect == ScalarSpec => []ScalarTypeOK
<1>1. ScalarInv => ScalarTypeOK
  BY DEF ScalarInv
<1> QED
  BY <1>1, ScalarInvariant, PTL

\* Whatever the width of a byte, the four sizes and the room in the buffer, the
\* functions dpack_encode_bool() to dpack_encode_double() leave one item after the
\* other, each whole and standing for the number given, and at most one byte of the
\* item that found no room.
THEOREM ScalarEncodedWhole == ScalarSpec => []EncodedWhole
<1>1. ScalarInv => EncodedWhole
  BY DEF ScalarInv
<1> QED
  BY <1>1, ScalarInvariant, PTL

\* In every stream, whoever made it, a decoding function accepts every number that
\* its type can hold, whatever type of at most that size it was encoded as, and its
\* bounds alone decide between success and -ERANGE.
THEOREM ScalarInRangeDecoded == ScalarSpec => []InRangeDecoded
<1>1. ScalarInv => InRangeDecoded
  BY DEF ScalarInv
<1> QED
  BY <1>1, ScalarInvariant, PTL

\* A decoding function that returns 0 stored the number that stands in the stream,
\* whatever the stream, but for the unsigned functions given DPACK_INT8_TAG.
THEOREM ScalarNothingInvented == ScalarSpec => []NothingInvented
<1>1. ScalarInv => NothingInvented
  BY DEF ScalarInv
<1> QED
  BY <1>1, ScalarInvariant, PTL

\* A decoder in discard mode that refuses a scalar is behind it, whichever of the
\* twelve functions refuses it and for whatever reason (dpack_maybe_discard()).
THEOREM ScalarRefusedLeavesEnd == ScalarSpec => []RefusedLeavesEnd
<1>1. ScalarInv => RefusedLeavesEnd
  BY DEF ScalarInv
<1> QED
  BY <1>1, ScalarInvariant, PTL

-----------------------------------------------------------------------------
(* The messages of the sample: the inductive invariant of the unpacking process *)

Code == {"OK", "EBADMSG", "EMSGSIZE", "ENODATA", "EEXIST", "ENOMSG", "ENOMEM", "EINVAL", "EPERM"}

Typed ==
    unpack \in [phase : {"idle", "unpack", "done", "fini"}, spl : Sample, heap : Int,
                buff : {unpack.buff}, next : Nat \ {0}, ret : Code]

\* The fields read so far, and the sample that they fill
Reading == unpack.phase # "idle"
Reads == 1 .. unpack.next - 1
Fields == unpack.buff.fields
Filled == unpack.spl.filled

\* Each of the fields read fills the sample, and each field filled was read once.
AllFilled == Reading => \A i \in Reads : i \in DOMAIN Fields /\ Fields[i].id \in Filled
ReadOnce ==
    Reading =>
        \A f \in Filled :
            /\ unpack.spl.slot[f] \in Valid(f)
            /\ \E i \in Reads :
                  /\ Fields[i].id = f /\ Fields[i].value = unpack.spl.slot[f]
                  /\ \A j \in Reads : Fields[j].id = f => j = i

\* As many fields are filled as were read, and all of those announced in the end.
Counted == Reading => Cardinality(Filled) = unpack.next - 1
Within ==
    unpack.phase = "unpack" =>
        unpack.next = 1 \/ (unpack.buff.nr \in 2 .. 4 /\ unpack.next <= unpack.buff.nr + 1)
Complete == Accepted => unpack.buff.nr = unpack.next - 1

\* Unpacking never borrows a string.
NoneLent == unpack.spl.astr # "lent"

IInv ==
    /\ Typed /\ AllFilled /\ ReadOnce
    /\ Counted /\ Within /\ Complete /\ NoneLent /\ StringFreed

-----------------------------------------------------------------------------
(* Facts about the operators of MapSample. *)

LEMMA FieldFinite ==
    ASSUME NEW S \in SUBSET Field
    PROVE  IsFiniteSet(S)
<1>1. IsFiniteSet({"ashort"}) /\ IsFiniteSet({"astring"}) /\ IsFiniteSet({"abool"})
      /\ IsFiniteSet({"anuint"})
  BY FS_Singleton
<1>2. IsFiniteSet({"ashort"} \cup {"astring"}) /\ IsFiniteSet({"abool"} \cup {"anuint"})
  BY <1>1, FS_Union
<1>3. IsFiniteSet(({"ashort"} \cup {"astring"}) \cup ({"abool"} \cup {"anuint"}))
  BY <1>2, FS_Union
<1>4. Field = ({"ashort"} \cup {"astring"}) \cup ({"abool"} \cup {"anuint"})
  BY DEF Field
<1> QED
  BY <1>3, <1>4, FS_Subset

LEMMA ValidTyped ==
    /\ \A f \in Field : Decodes(f) \subseteq Value /\ Valid(f) \subseteq Decodes(f)
    /\ NewSample \in Sample
BY DEF Field, Decodes, Valid, Value, NewSample, Sample

\* A process that is idle has no sample to speak of.
LEMMA ResetKeeps ==
    ASSUME unpack' = Reset
    PROVE  IInv'
<1>1. unpack'.phase = "idle" /\ unpack'.spl.astr = "none" /\ unpack'.heap = 0
  BY DEF Reset, NewSample
<1>2. Typed'
  BY ValidTyped DEF Typed, Reset, Code
<1> QED
  BY <1>1, <1>2
     DEF IInv, AllFilled, ReadOnce, Counted, Within, Complete, Reading, Accepted, NoneLent,
         StringFreed

LEMMA InitIInv == Init => IInv
<1> SUFFICES ASSUME Init PROVE IInv
  OBVIOUS
<1>1. unpack.phase = "idle" /\ unpack.spl.astr = "none" /\ unpack.heap = 0
  BY DEF Init, Reset, NewSample
<1>2. Typed
  BY ValidTyped DEF Init, Typed, Reset, Code
<1> QED
  BY <1>1, <1>2
     DEF IInv, AllFilled, ReadOnce, Counted, Within, Complete, Reading, Accepted, NoneLent,
         StringFreed

-----------------------------------------------------------------------------
(* Each step of the unpacking process preserves the invariant. *)

LEMMA LoadKeeps ==
    ASSUME IInv, NEW m, Loaded(m), unpack' # unpack
    PROVE  IInv'
<1>1. unpack' = [phase |-> "unpack", spl |-> NewSample, heap |-> 0, buff |-> m, next |-> 1,
                 ret |-> "OK"]
  BY DEF Loaded
<1>2. Typed'
  BY <1>1, ValidTyped DEF Typed, Code
<1>3. /\ unpack'.phase = "unpack" /\ unpack'.next = 1 /\ unpack'.heap = 0
      /\ Filled' = {} /\ unpack'.spl.astr = "none" /\ Reads' = {}
  BY <1>1 DEF NewSample, Filled, Reads
<1>4. Cardinality(Filled') = 0
  BY <1>3, FS_EmptySet
<1> QED
  BY <1>2, <1>3, <1>4
     DEF IInv, AllFilled, ReadOnce, Counted, Within, Complete, Accepted, NoneLent, StringFreed,
         Filled

\* Unpacking ends, without a change to the fields of the sample that are filled.
LEMMA ReturnKeeps ==
    ASSUME IInv, unpack.phase = "unpack",
           NEW code \in Code, NEW spl \in Sample,
           spl.filled = Filled, \A f \in Filled : spl.slot[f] = unpack.spl.slot[f],
           spl.astr = unpack.spl.astr,
           unpack' = [Returns(code) EXCEPT !.spl = spl],
           code = "OK" => unpack.buff.nr = unpack.next - 1
    PROVE  IInv'
<1>1. /\ unpack'.phase = "done" /\ unpack'.ret = code /\ unpack'.spl = spl
      /\ unpack'.next = unpack.next /\ unpack'.buff = unpack.buff /\ unpack'.heap = unpack.heap
  BY DEF Returns, IInv, Typed
<1>2. Typed'
  BY <1>1 DEF Returns, IInv, Typed
<1>3. Filled' = Filled /\ Fields' = Fields /\ Reads' = Reads
  BY <1>1 DEF Filled, Fields, Reads
<1>4. AllFilled' /\ ReadOnce'
  <2>1. AllFilled'
    BY <1>3 DEF IInv, AllFilled, Reading
  <2>2. ASSUME NEW f \in Filled
        PROVE  /\ spl.slot[f] \in Valid(f)
               /\ \E i \in Reads :
                     /\ Fields[i].id = f /\ Fields[i].value = spl.slot[f]
                     /\ \A j \in Reads : Fields[j].id = f => j = i
    BY <2>2 DEF IInv, ReadOnce, Reading
  <2>3. ReadOnce'
    BY <1>1, <1>3, <2>2 DEF ReadOnce
  <2> QED
    BY <2>1, <2>3
<1>5. Counted' /\ Within' /\ Complete' /\ NoneLent'
  BY <1>1, <1>3 DEF IInv, Counted, Within, Complete, Reading, Accepted, NoneLent
<1>6. StringFreed'
  BY <1>1, <1>3 DEF IInv, StringFreed, Filled
<1> QED
  BY <1>2, <1>4, <1>5, <1>6 DEF IInv

\* The same, without any change to the sample.
LEMMA RefusalKeeps ==
    ASSUME IInv, unpack.phase = "unpack", NEW code \in Code, unpack' = Returns(code),
           code = "OK" => unpack.buff.nr = unpack.next - 1
    PROVE  IInv'
<1>1. unpack' = [Returns(code) EXCEPT !.spl = unpack.spl] /\ unpack.spl \in Sample
  BY DEF Returns, IInv, Typed
<1> QED
  BY <1>1, ReturnKeeps DEF Filled

LEMMA RefusedKeeps ==
    ASSUME IInv, UnpackRefused \/ UnpackCut \/ UnpackFieldRefused
    PROVE  IInv'
<1>1. CASE UnpackRefused
  BY <1>1, RefusalKeeps DEF UnpackRefused, Code
<1>2. CASE UnpackCut
  BY <1>2, RefusalKeeps DEF UnpackCut, Unpacking, Code
<1>3. CASE UnpackFieldRefused
  <2>1. Unexpected(Incoming.id) \in Code
    BY DEF Unexpected, Code
  <2> QED
    BY <1>3, <2>1, RefusalKeeps DEF UnpackFieldRefused, Unpacking, Code
<1> QED
  BY <1>1, <1>2, <1>3

\* A field that is expected is not filled yet.
LEMMA ExpectedNew ==
    ASSUME Unexpected(Incoming.id) = "OK"
    PROVE  Incoming.id \in Field \ Filled
BY DEF Unexpected, Filled

\* What the function of a field makes of the sample
Added(u, f, v) ==
    /\ u = [unpack EXCEPT !.spl = u.spl, !.heap = u.heap]
    /\ u.spl = [filled |-> Filled, slot |-> [unpack.spl.slot EXCEPT ![f] = v],
                astr |-> IF f = "astring" THEN "owned" ELSE unpack.spl.astr]
    /\ u.heap = IF f = "astring" THEN unpack.heap + 1 ELSE unpack.heap

LEMMA FieldAdded ==
    ASSUME IInv, NEW f \in Field, NEW v, NEW u, u = WithField(f, v)
    PROVE  Added(u, f, v)
<1>1. unpack = [phase |-> unpack.phase, spl |-> unpack.spl, heap |-> unpack.heap,
                buff |-> unpack.buff, next |-> unpack.next, ret |-> unpack.ret]
  BY DEF IInv, Typed
<1>2. unpack.spl = [filled |-> Filled, slot |-> unpack.spl.slot, astr |-> unpack.spl.astr]
  BY DEF IInv, Typed, Sample, Filled
<1>3. PICK w : w = [unpack EXCEPT !.spl.slot[f] = v]
  OBVIOUS
<1>4. w = [unpack EXCEPT !.spl = [unpack.spl EXCEPT !.slot = [unpack.spl.slot EXCEPT ![f] = v]]]
  BY <1>1, <1>2, <1>3
<1>5. /\ w = [unpack EXCEPT !.spl = w.spl] /\ w.heap = unpack.heap
      /\ w.spl = [filled |-> Filled, slot |-> [unpack.spl.slot EXCEPT ![f] = v],
                  astr |-> unpack.spl.astr]
  BY <1>1, <1>2, <1>4
<1>6. CASE f = "astring"
  <2>1. u = [w EXCEPT !.spl.astr = "owned", !.heap = @ + 1]
    BY <1>3, <1>6 DEF WithField
  <2>2. u = [unpack EXCEPT !.spl = [w.spl EXCEPT !.astr = "owned"], !.heap = unpack.heap + 1]
    BY <1>1, <1>5, <2>1
  <2>3. /\ u.spl = [w.spl EXCEPT !.astr = "owned"] /\ u.heap = unpack.heap + 1
        /\ u = [unpack EXCEPT !.spl = u.spl, !.heap = u.heap]
    BY <1>1, <2>2
  <2> QED
    BY <1>5, <1>6, <2>3 DEF Added
<1>7. CASE f # "astring"
  <2>1. u = w
    BY <1>3, <1>7 DEF WithField
  <2> QED
    BY <1>1, <1>5, <1>7, <2>1 DEF Added
<1> QED
  BY <1>6, <1>7

LEMMA RejectedKeeps ==
    ASSUME IInv, UnpackFieldRejected
    PROVE  IInv'
<1> DEFINE f == Incoming.id
           v == Incoming.value
           spl == [unpack.spl EXCEPT !.slot[f] = v]
<1>1. f \in Field \ Filled /\ v \in Value
  BY ValidTyped, ExpectedNew DEF UnpackFieldRejected
<1>2. spl \in Sample /\ spl.filled = Filled /\ spl.astr = unpack.spl.astr
      /\ \A g \in Filled : spl.slot[g] = unpack.spl.slot[g]
  BY <1>1 DEF Filled, IInv, Typed, Sample
<1>3. unpack.phase = "unpack"
  BY DEF UnpackFieldRejected, Unpacking
<1>4. PICK w : w = WithField(f, v)
  OBVIOUS
<1>5. Undone(f, w) = [unpack EXCEPT !.spl = spl]
  <2> HIDE DEF f, v
  <2>1. /\ w = [unpack EXCEPT !.spl = w.spl, !.heap = w.heap]
        /\ w.spl = [filled |-> Filled, slot |-> [unpack.spl.slot EXCEPT ![f] = v],
                    astr |-> IF f = "astring" THEN "owned" ELSE unpack.spl.astr]
        /\ w.heap = IF f = "astring" THEN unpack.heap + 1 ELSE unpack.heap
    <3>1. Added(w, f, v)
      BY <1>1, <1>4, FieldAdded
    <3> QED
      BY <3>1 DEF Added
  <2>2. spl = [filled |-> Filled, slot |-> [unpack.spl.slot EXCEPT ![f] = v],
               astr |-> unpack.spl.astr]
    BY DEF IInv, Typed, Sample, Filled
  <2>3. unpack.heap \in Int
        /\ unpack = [phase |-> unpack.phase, spl |-> unpack.spl, heap |-> unpack.heap,
                     buff |-> unpack.buff, next |-> unpack.next, ret |-> unpack.ret]
    BY DEF IInv, Typed
  <2> HIDE DEF spl
  <2>4. CASE f = "astring"
    <3>1. unpack.spl.astr = "none"
      <4>1. unpack.spl.astr \in {"none", "lent", "owned"}
        BY DEF IInv, Typed, Sample
      <4> QED
        BY <1>1, <1>3, <2>4, <4>1 DEF IInv, StringFreed, NoneLent, Filled
    <3>2. w.spl.astr = "owned" /\ w.heap - 1 = unpack.heap
      BY <2>1, <2>3, <2>4
    <3>3. [w.spl EXCEPT !.astr = "none"] = spl
      BY <2>1, <2>2, <3>1
    <3>4. Undone(f, w) = [w EXCEPT !.spl.astr = "none", !.heap = @ - 1]
      BY <2>4, <3>2 DEF Undone, Dropped
    <3>5. Undone(f, w) = [w EXCEPT !.spl = spl, !.heap = unpack.heap]
      BY <2>1, <2>3, <3>2, <3>3, <3>4
    <3> QED
      BY <2>1, <2>3, <3>5
  <2>5. CASE f # "astring"
    <3>1. w.spl = spl /\ w.heap = unpack.heap
      BY <2>1, <2>2, <2>5
    <3>2. w = [unpack EXCEPT !.spl = spl]
      BY <2>1, <2>3, <3>1
    <3> QED
      BY <2>5, <3>2 DEF Undone
  <2> QED
    BY <2>4, <2>5
<1>6. unpack' = [Returns("EINVAL") EXCEPT !.spl = spl]
  BY <1>4, <1>5 DEF UnpackFieldRejected, Returns, IInv, Typed
<1> HIDE DEF spl, f, v
<1> QED
  BY <1>2, <1>3, <1>6, ReturnKeeps DEF Code

LEMMA CheckedKeeps ==
    ASSUME IInv, UnpackChecked
    PROVE  IInv'
<1>1. Check(unpack.spl) \in Code
  BY DEF Check, Code
<1>2. unpack.buff.nr = unpack.next - 1
  BY DEF UnpackChecked, IInv, Within, Typed
<1> QED
  BY <1>1, <1>2, RefusalKeeps DEF UnpackChecked

\* A field is added: it was not filled, and is the last one read.
LEMMA DoneKeeps ==
    ASSUME IInv, UnpackFieldDone
    PROVE  IInv'
<1> DEFINE n == unpack.next
           f == Incoming.id
           v == Incoming.value
<1>1. /\ unpack.phase = "unpack" /\ n \in Nat \ {0}
      /\ unpack.buff.nr \in 2 .. 4 /\ n <= unpack.buff.nr
      /\ n \in DOMAIN Fields /\ Fields[n].id = f /\ Fields[n].value = v
  BY DEF UnpackFieldDone, Unpacking, Here, Incoming, Fields, IInv, Typed
<1>2. f \in Field \ Filled /\ v \in Valid(f) /\ v \in Value
  BY ExpectedNew, ValidTyped DEF UnpackFieldDone
<1>3. /\ unpack'.phase = "unpack" /\ unpack'.next = n + 1 /\ unpack'.buff = unpack.buff
      /\ unpack'.ret = unpack.ret
      /\ unpack'.spl \in Sample
      /\ unpack'.spl.filled = Filled \cup {f}
      /\ unpack'.spl.slot = [unpack.spl.slot EXCEPT ![f] = v]
      /\ unpack'.spl.astr = IF f = "astring" THEN "owned" ELSE unpack.spl.astr
      /\ unpack'.heap = IF f = "astring" THEN unpack.heap + 1 ELSE unpack.heap
      /\ Typed'
  <2>1. PICK w : w = WithField(f, v)
    OBVIOUS
  <2> HIDE DEF n, f, v
  <2>2. /\ w = [unpack EXCEPT !.spl = w.spl, !.heap = w.heap]
        /\ w.spl = [filled |-> Filled, slot |-> [unpack.spl.slot EXCEPT ![f] = v],
                    astr |-> IF f = "astring" THEN "owned" ELSE unpack.spl.astr]
        /\ w.heap = IF f = "astring" THEN unpack.heap + 1 ELSE unpack.heap
    <3>1. Added(w, f, v)
      BY <1>2, <2>1, FieldAdded
    <3> QED
      BY <3>1 DEF Added
  <2>3. unpack' = [w EXCEPT !.next = @ + 1, !.spl.filled = @ \cup {f}]
    BY <2>1 DEF UnpackFieldDone, f, v
  <2>4. /\ unpack = [phase |-> unpack.phase, spl |-> unpack.spl, heap |-> unpack.heap,
                     buff |-> unpack.buff, next |-> unpack.next, ret |-> unpack.ret]
        /\ unpack.heap \in Int /\ unpack.ret \in Code
    BY DEF IInv, Typed
  <2>5. w.spl.filled = Filled
    BY <2>2
  <2>6. unpack' = [phase |-> "unpack", spl |-> [w.spl EXCEPT !.filled = Filled \cup {f}],
                   heap |-> w.heap, buff |-> unpack.buff, next |-> n + 1, ret |-> unpack.ret]
    BY <1>1, <2>2, <2>3, <2>4, <2>5 DEF n
  <2>7. unpack'.spl = [filled |-> Filled \cup {f}, slot |-> [unpack.spl.slot EXCEPT ![f] = v],
                       astr |-> IF f = "astring" THEN "owned" ELSE unpack.spl.astr]
    BY <2>2, <2>6
  <2>8. unpack'.spl \in Sample
    <3>1. Filled \cup {f} \in SUBSET Field /\ [unpack.spl.slot EXCEPT ![f] = v] \in [Field -> Value]
          /\ unpack.spl.astr \in {"none", "lent", "owned"}
      BY <1>2 DEF IInv, Typed, Sample, Filled
    <3> QED
      BY <2>7, <3>1 DEF Sample
  <2>9. unpack'.heap = w.heap /\ unpack'.heap \in Int
    BY <2>2, <2>4, <2>6
  <2>10. n + 1 \in Nat \ {0}
    BY <1>1
  <2>11. Typed'
    BY <2>4, <2>6, <2>8, <2>9, <2>10 DEF Typed
  <2> QED
    BY <2>2, <2>6, <2>7, <2>8, <2>9, <2>11
<1>5. Filled' = Filled \cup {f} /\ Fields' = Fields /\ Reads' = Reads \cup {n} /\ n \notin Reads
  BY <1>1, <1>3 DEF Filled, Fields, Reads
<1>6. unpack'.spl.slot[f] = v /\ \A g \in Filled : unpack'.spl.slot[g] = unpack.spl.slot[g]
  BY <1>2, <1>3 DEF IInv, Typed, Sample, Filled
<1> HIDE DEF n, f, v
<1>7. AllFilled'
  BY <1>1, <1>5 DEF IInv, AllFilled, Reading
<1>8. ReadOnce'
  <2>1. SUFFICES ASSUME NEW g \in Filled'
                 PROVE  /\ unpack'.spl.slot[g] \in Valid(g)
                        /\ \E i \in Reads' :
                              /\ Fields'[i].id = g /\ Fields'[i].value = unpack'.spl.slot[g]
                              /\ \A j \in Reads' : Fields'[j].id = g => j = i
    BY DEF ReadOnce
  <2>2. \A i \in Reads : Fields[i].id # f
    BY <1>1, <1>2 DEF IInv, AllFilled, Reading
  <2>3. CASE g = f
    BY <1>1, <1>2, <1>5, <1>6, <2>2, <2>3
  <2>4. CASE g \in Filled /\ g # f
    <3>1. unpack.spl.slot[g] \in Valid(g)
      BY <1>1, <2>4 DEF IInv, ReadOnce, Reading
    <3>2. PICK i \in Reads :
              /\ Fields[i].id = g /\ Fields[i].value = unpack.spl.slot[g]
              /\ \A j \in Reads : Fields[j].id = g => j = i
      BY <1>1, <2>4 DEF IInv, ReadOnce, Reading
    <3> QED
      BY <1>1, <1>5, <1>6, <2>4, <3>1, <3>2
  <2> QED
    BY <1>5, <2>1, <2>3, <2>4
<1>9. Counted'
  <2>1. IsFiniteSet(Filled) /\ Cardinality(Filled) = n - 1
    BY <1>1, FieldFinite DEF IInv, Counted, Reading, Typed, Sample, Filled, n
  <2>2. Cardinality(Filled \cup {f}) = Cardinality(Filled) + 1
    BY <1>2, <2>1, FS_AddElement
  <2> QED
    BY <1>1, <1>3, <1>5, <2>1, <2>2 DEF Counted
<1>10. Within' /\ Complete'
  BY <1>1, <1>3 DEF Within, Complete, Accepted
<1>11. StringFreed' /\ NoneLent'
  <2>1. unpack.spl.astr = "owned" <=> "astring" \in Filled
    BY <1>1 DEF IInv, StringFreed, Filled
  <2>2. unpack.heap = IF unpack.spl.astr = "owned" THEN 1 ELSE 0
    BY DEF IInv, StringFreed
  <2> QED
    BY <1>1, <1>2, <1>3, <1>5, <2>1, <2>2 DEF IInv, StringFreed, NoneLent, Filled
<1> QED
  BY <1>3, <1>7, <1>8, <1>9, <1>10, <1>11 DEF IInv

\* The sample is released: its fields stay as they are.
LEMMA FiniKeeps ==
    ASSUME IInv, UnpackFini
    PROVE  IInv'
<1>1. /\ unpack.phase = "done" /\ unpack'.phase = "fini" /\ unpack'.next = unpack.next
      /\ unpack'.buff = unpack.buff /\ unpack'.spl.filled = unpack.spl.filled
      /\ unpack'.spl.slot = unpack.spl.slot /\ unpack'.spl.astr = "none" /\ unpack'.heap = 0
      /\ Typed'
  <2>1. /\ unpack = [phase |-> unpack.phase, spl |-> unpack.spl, heap |-> unpack.heap,
                     buff |-> unpack.buff, next |-> unpack.next, ret |-> unpack.ret]
        /\ unpack.heap \in Int /\ unpack.spl \in Sample /\ unpack.next \in Nat \ {0}
        /\ unpack.ret \in Code /\ unpack.phase = "done"
    BY DEF IInv, Typed, UnpackFini
  <2>2. /\ unpack.spl = [filled |-> unpack.spl.filled, slot |-> unpack.spl.slot,
                         astr |-> unpack.spl.astr]
        /\ unpack.spl.astr \in {"none", "owned"}
        /\ unpack.heap = IF unpack.spl.astr = "owned" THEN 1 ELSE 0
    BY <2>1 DEF IInv, NoneLent, StringFreed, Sample
  <2>3. PICK s : s = [unpack.spl EXCEPT !.astr = "none"]
    OBVIOUS
  <2>4. s \in Sample /\ s.filled = unpack.spl.filled /\ s.slot = unpack.spl.slot /\ s.astr = "none"
    BY <2>1, <2>3 DEF Sample
  <2>5. Dropped(unpack) = [unpack EXCEPT !.spl = s, !.heap = 0]
    <3>1. CASE unpack.spl.astr = "owned"
      <4>1. Dropped(unpack) = [unpack EXCEPT !.spl.astr = "none", !.heap = @ - 1]
        BY <3>1 DEF Dropped
      <4>2. unpack.heap - 1 = 0
        BY <2>2, <3>1
      <4> QED
        BY <2>1, <2>2, <2>3, <4>1, <4>2
    <3>2. CASE unpack.spl.astr = "none"
      <4>1. Dropped(unpack) = unpack
        BY <3>2 DEF Dropped
      <4>2. unpack.heap = 0 /\ s = unpack.spl
        BY <2>2, <2>3, <3>2
      <4> QED
        BY <2>1, <4>1, <4>2
    <3> QED
      BY <2>2, <3>1, <3>2
  <2>6. unpack' = [phase |-> "fini", spl |-> s, heap |-> 0, buff |-> unpack.buff,
                   next |-> unpack.next, ret |-> unpack.ret]
    BY <2>1, <2>5 DEF UnpackFini
  <2>7. Typed'
    BY <2>1, <2>4, <2>6 DEF Typed
  <2> QED
    BY <2>1, <2>4, <2>6, <2>7
<1>3. Filled' = Filled /\ Fields' = Fields /\ Reads' = Reads
  BY <1>1 DEF Filled, Fields, Reads
<1>4. AllFilled' /\ ReadOnce'
  BY <1>1, <1>3 DEF IInv, AllFilled, ReadOnce, Reading
<1>5. Counted' /\ Within' /\ Complete' /\ NoneLent' /\ StringFreed'
  BY <1>1, <1>3 DEF IInv, Counted, Within, Complete, Reading, Accepted, NoneLent, StringFreed
<1> QED
  BY <1>1, <1>4, <1>5 DEF IInv

LEMMA UnchangedKeeps ==
    ASSUME IInv, UNCHANGED unpack
    PROVE  IInv'
BY DEF IInv, Typed, AllFilled, ReadOnce, Counted, Within, Complete, NoneLent, StringFreed,
       Reading, Reads, Fields, Filled, Accepted

LEMMA NextKeeps ==
    ASSUME IInv, [Next]_vars
    PROVE  IInv'
<1>1. CASE PackBegin \/ SavePart \/ SaveWhole \/ LoadRead \/ UNCHANGED vars
  BY <1>1, UnchangedKeeps DEF PackBegin, SavePart, SaveWhole, LoadRead, vars
<1>2. CASE LoadEnd \/ LoadMixed
  BY <1>2, LoadKeeps, UnchangedKeeps DEF LoadEnd, LoadMixed
<1>3. CASE UnpackEnd
  BY <1>3, ResetKeeps DEF UnpackEnd
<1> QED
  BY <1>1, <1>2, <1>3, RefusedKeeps, RejectedKeeps, DoneKeeps, CheckedKeeps, FiniKeeps DEF Next

LEMMA Invariant == Spec => []IInv
BY InitIInv, NextKeeps, PTL DEF Spec

-----------------------------------------------------------------------------
(* Theorems about the unpacking process *)

\* A sample is filled with nothing but the fields of the message, each of which came once
\* and passed its check, and the sample that is accepted with all of those announced,
\* whatever the file has (map_sample.c:306-330, 332-355).
THEOREM FilledCorrectly == Spec => []FilledFromMessage
<1>1. IInv => FilledFromMessage
  <2> SUFFICES ASSUME IInv, Reading PROVE FilledFromMessage
    BY DEF Reading, FilledFromMessage
  <2> DEFINE read == { i \in 1 .. unpack.next - 1 : i \in DOMAIN unpack.buff.fields }
             of(f) == { i \in read : unpack.buff.fields[i].id = f }
  <2>1. read = Reads
    BY DEF IInv, AllFilled, Reads, Fields
  <2>2. ASSUME NEW f \in Filled
        PROVE  /\ Cardinality(of(f)) = 1
               /\ \A i \in of(f) : unpack.buff.fields[i].value = unpack.spl.slot[f]
               /\ unpack.spl.slot[f] \in Valid(f)
    <3>1. PICK i \in Reads :
              /\ Fields[i].id = f /\ Fields[i].value = unpack.spl.slot[f]
              /\ \A j \in Reads : Fields[j].id = f => j = i
      BY DEF IInv, ReadOnce
    <3>2. of(f) = {i}
      BY <2>1, <3>1 DEF Fields
    <3>3. Cardinality(of(f)) = 1
      BY <3>2, FS_Singleton
    <3>4. unpack.spl.slot[f] \in Valid(f)
      BY DEF IInv, ReadOnce
    <3> QED
      BY <3>1, <3>2, <3>3, <3>4 DEF Fields
  <2>3. Accepted => Cardinality(Filled) = unpack.buff.nr
    BY DEF IInv, Counted, Complete
  <2> QED
    BY <2>2, <2>3 DEF FilledFromMessage, Filled
<1> QED
  BY <1>1, Invariant, PTL

\* The string that unpacking allocated is freed once, on the spot when it is refused and with
\* the sample otherwise, whatever the outcome, and is never lost in between
\* (map_sample.c:119-156, 359-365, test-map_sample.c:67-74).
THEOREM StringsFreed == Spec => []StringFreed
<1>1. IInv => StringFreed
  BY DEF IInv
<1> QED
  BY <1>1, Invariant, PTL

-----------------------------------------------------------------------------
(* The inductive invariant of both processes. *)

\* What the packing process packs
Sound(spl) == spl \in SetSamples /\ Check(spl) = "OK"

\* The file holds the fields of message p in order, up to the one that is cut, if any.
Begins(m, p) ==
    /\ m.nr = p.nr /\ Len(m.fields) <= Len(p.fields)
    /\ \A i \in DOMAIN m.fields :
          /\ m.fields[i].id = p.fields[i].id
          /\ m.fields[i].value \in {p.fields[i].value, "cut"}

\* A file is someone else's, or all of what was packed, or the beginning of it; what was
\* loaded may be a mixture too, that is nobody's.
Saved(m) ==
    /\ m \in File
    /\ m.of = NewSample \/ \E spl : Sound(spl) /\ m.of = Fini(spl) /\ Begins(m, Packed(spl))

Packing ==
    /\ pack.phase \in {"idle", "save"} /\ pack.buff \in File
    /\ pack.phase = "save" => \E spl : Sound(spl) /\ pack.buff = Packed(spl)

\* load_from_file() has read a part of a file.
Loading == load \in [buff : {load.buff}, stale : BOOLEAN] /\ Saved(load.buff)

\* While fields are being read, those that were not are as in a new sample.
Unset ==
    unpack.phase = "unpack" => \A f \in Field \ Filled : unpack.spl.slot[f] = NewSample.slot[f]

Idle == unpack.phase = "idle" => unpack.next = 1

Shared ==
    /\ Saved(file) /\ Packing /\ Loading /\ Saved(unpack.buff)
    /\ Unset /\ Idle /\ UnpackedAsPacked

-----------------------------------------------------------------------------
(* What is packed. *)

LEMMA SetFacts ==
    ASSUME NEW spl \in SetSamples
    PROVE  /\ spl \in Sample /\ spl.filled \in SUBSET Field /\ spl.slot \in [Field -> Value]
           /\ \A f \in Field : IF f \in spl.filled THEN spl.slot[f] \in Valid(f)
                              ELSE spl.slot[f] = NewSample.slot[f]
<1>1. spl.filled \in SUBSET Field /\ IsSet(spl) /\ spl.astr \in {"none", "lent"}
  BY DEF SetSamples
<1>2. spl.slot \in [ashort : {"low", "high"}, astring : {"text", "null"},
                   abool : {"true", "false"}, anuint : {"num"}]
  BY DEF SetSamples
<1>3. spl.slot \in [Field -> Value]
  BY <1>2 DEF Field, Value
<1>4. spl = [filled |-> spl.filled, slot |-> spl.slot, astr |-> spl.astr]
  BY DEF SetSamples
<1>5. spl \in Sample
  BY <1>1, <1>3, <1>4 DEF Sample
<1> QED
  BY <1>1, <1>3, <1>5 DEF IsSet

LEMMA FiniFacts ==
    ASSUME NEW spl \in Sample
    PROVE  Fini(spl) \in Sample /\ Fini(spl).filled = spl.filled /\ Fini(spl).slot = spl.slot
BY DEF Fini, Sample

LEMMA FieldCount ==
    ASSUME NEW S \in SUBSET Field, Mandatory \subseteq S
    PROVE  Cardinality(S) = 2 + (IF "astring" \in S THEN 1 ELSE 0) + (IF "anuint" \in S THEN 1 ELSE 0)
<1> DEFINE T == IF "astring" \in S THEN Mandatory \cup {"astring"} ELSE Mandatory
<1>1. IsFiniteSet({"ashort"}) /\ Cardinality({"ashort"}) = 1
  BY FS_Singleton
<1>2. Mandatory = {"ashort"} \cup {"abool"} /\ "abool" \notin {"ashort"}
  BY DEF Mandatory
<1>3. IsFiniteSet(Mandatory) /\ Cardinality(Mandatory) = 2
  BY <1>1, <1>2, FS_AddElement
<1>4. "astring" \notin Mandatory
  BY DEF Mandatory
<1>5. IsFiniteSet(T) /\ Cardinality(T) = 2 + (IF "astring" \in S THEN 1 ELSE 0)
  BY <1>3, <1>4, FS_AddElement
<1>6. "anuint" \notin T
  BY DEF Mandatory
<1>7. S = IF "anuint" \in S THEN T \cup {"anuint"} ELSE T
  BY DEF Field, Mandatory
<1> HIDE DEF T
<1>8. CASE "anuint" \in S
  <2>1. Cardinality(T \cup {"anuint"}) = Cardinality(T) + 1
    BY <1>5, <1>6, FS_AddElement
  <2> QED
    BY <1>5, <1>7, <1>8, <2>1
<1>9. CASE "anuint" \notin S
  BY <1>5, <1>7, <1>9
<1> QED
  BY <1>8, <1>9

\* What concatenation makes of explicit tuples
LEMMA LastOf ==
    ASSUME NEW S, NEW s \in Seq(S), NEW e \in S, NEW t \in Seq(S), Len(t) = Len(s) + 1,
           \A i \in 1 .. Len(s) : t[i] = s[i], t[Len(t)] = e
    PROVE  s \o <<e>> = t
<1>1. <<e>> \in Seq(S) /\ Len(<<e>>) = 1 /\ <<e>>[1] = e
  OBVIOUS
<1> DEFINE q == s \o <<e>>
<1>2. q \in Seq(S) /\ Len(q) = Len(s) + 1 /\ \A i \in 1 .. Len(s) + 1 :
         q[i] = IF i <= Len(s) THEN s[i] ELSE <<e>>[i - Len(s)]
  BY <1>1, ConcatProperties
<1>3. \A i \in 1 .. Len(q) : q[i] = t[i]
  <2> SUFFICES ASSUME NEW i \in 1 .. Len(q) PROVE q[i] = t[i]
    OBVIOUS
  <2>1. CASE i <= Len(s)
    BY <1>2, <2>1
  <2>2. CASE i = Len(s) + 1
    <3>1. i - Len(s) = 1
      BY <2>2
    <3> HIDE DEF q
    <3> QED
      BY <1>1, <1>2, <2>2, <3>1
  <2> HIDE DEF q
  <2> QED
    BY <1>2, <2>1, <2>2
<1> HIDE DEF q
<1>4. q = t
  BY <1>2, <1>3, SeqEqual
<1> QED
  BY <1>4 DEF q

LEMMA Pair ==
    ASSUME NEW S, NEW a \in S, NEW b \in S
    PROVE  <<a>> \o <<b>> = <<a, b>>
<1>1. <<a>> \in Seq(S) /\ <<a, b>> \in Seq(S)
  OBVIOUS
<1>2. Len(<<a, b>>) = Len(<<a>>) + 1 /\ <<a, b>>[Len(<<a, b>>)] = b
  OBVIOUS
<1>3. \A i \in 1 .. Len(<<a>>) : <<a, b>>[i] = <<a>>[i]
  OBVIOUS
<1> QED
  BY ONLY b \in S, <1>1, <1>2, <1>3, LastOf, Zenon

LEMMA Triple ==
    ASSUME NEW S, NEW a \in S, NEW b \in S, NEW c \in S
    PROVE  <<a, b>> \o <<c>> = <<a, b, c>>
<1>1. <<a, b>> \in Seq(S) /\ <<a, b, c>> \in Seq(S)
  OBVIOUS
<1>2. Len(<<a, b, c>>) = Len(<<a, b>>) + 1 /\ <<a, b, c>>[Len(<<a, b, c>>)] = c
  OBVIOUS
<1>3. \A i \in 1 .. Len(<<a, b>>) : <<a, b, c>>[i] = <<a, b>>[i]
  OBVIOUS
<1> QED
  BY ONLY c \in S, <1>1, <1>2, <1>3, LastOf, Zenon

LEMMA Quadruple ==
    ASSUME NEW S, NEW a \in S, NEW b \in S, NEW c \in S, NEW d \in S
    PROVE  <<a, b, c>> \o <<d>> = <<a, b, c, d>>
<1>1. <<a, b, c>> \in Seq(S) /\ <<a, b, c, d>> \in Seq(S)
  OBVIOUS
<1>2. Len(<<a, b, c, d>>) = Len(<<a, b, c>>) + 1 /\ <<a, b, c, d>>[Len(<<a, b, c, d>>)] = d
  OBVIOUS
<1>3. \A i \in 1 .. Len(<<a, b, c>>) : <<a, b, c, d>>[i] = <<a, b, c>>[i]
  OBVIOUS
<1> QED
  BY ONLY d \in S, <1>1, <1>2, <1>3, LastOf, Zenon

\* The fields of a message come from the sample, each of them once; when those that are
\* mandatory are filled they are as many as announced, and all those that are filled.
Lists(P, nr, spl) ==
    /\ P \in Seq(Record)
    /\ \A i \in 1 .. Len(P) : P[i].id \in Field /\ P[i].value = spl.slot[P[i].id]
    /\ \A i, j \in 1 .. Len(P) : P[i].id = P[j].id => i = j
    /\ Mandatory \subseteq spl.filled =>
         /\ Len(P) = nr /\ nr \in 2 .. 4
         /\ \A f \in Field : f \in spl.filled <=> \E i \in 1 .. Len(P) : P[i].id = f

LEMMA PackedFacts ==
    ASSUME NEW spl \in SetSamples, NEW P, P = Packed(spl).fields
    PROVE  Lists(P, Packed(spl).nr, spl)
<1> DEFINE S == Record
           F(f) == [id |-> f, value |-> spl.slot[f]]
           O(f) == IF f \in spl.filled THEN <<F(f)>> ELSE <<>>
<1>1. P = <<F("ashort")>> \o O("astring") \o <<F("abool")>> \o O("anuint")
  BY DEF Packed
<1>2. Packed(spl).nr = Cardinality(spl.filled)
  BY DEF Packed
<1>3. PICK a \in S : a = F("ashort")
  BY SetFacts DEF Field, Record
<1>4. PICK b \in S : b = F("astring")
  BY SetFacts DEF Field, Record
<1>5. PICK c \in S : c = F("abool")
  BY SetFacts DEF Field, Record
<1>6. PICK d \in S : d = F("anuint")
  BY SetFacts DEF Field, Record
<1>7. /\ a.id = "ashort" /\ a.value = spl.slot["ashort"]
      /\ b.id = "astring" /\ b.value = spl.slot["astring"]
      /\ c.id = "abool" /\ c.value = spl.slot["abool"]
      /\ d.id = "anuint" /\ d.value = spl.slot["anuint"]
  BY <1>3, <1>4, <1>5, <1>6
<1>8. P = <<a>> \o (IF "astring" \in spl.filled THEN <<b>> ELSE << >>) \o <<c>>
             \o (IF "anuint" \in spl.filled THEN <<d>> ELSE << >>)
  BY <1>1, <1>3, <1>4, <1>5, <1>6
<1>9. S = Record
  OBVIOUS
<1> HIDE DEF S, F, O
<1>10. CASE "astring" \in spl.filled /\ "anuint" \in spl.filled
  <2>1. P = <<a>> \o <<b>> \o <<c>> \o <<d>>
    BY <1>8, <1>10
  <2>2. <<a>> \in Seq(S) /\ <<a, b>> \in Seq(S) /\ <<a, c>> \in Seq(S) /\ <<a, b, c>> \in Seq(S)
    OBVIOUS
  <2>3. P = <<a, b, c, d>>
    <3>1. <<a>> \o <<b>> = <<a, b>>
      BY ONLY <2>2, Pair, Zenon
    <3>2. <<a, b>> \o <<c>> = <<a, b, c>>
      BY ONLY <2>2, Triple, Zenon
    <3>3. <<a, b, c>> \o <<d>> = <<a, b, c, d>>
      BY ONLY Quadruple, ZenonT(40)
    <3> QED
      BY ONLY <2>1, <3>1, <3>2, <3>3, Zenon
  <2>4. P \in Seq(S) /\ Len(P) = 4 /\ P[1] = a /\ P[2] = b /\ P[3] = c /\ P[4] = d
    BY <2>3
  <2>5. \A i \in 1 .. 4 : P[i].id \in Field /\ P[i].value = spl.slot[P[i].id]
    BY <1>7, <2>4 DEF Field
  <2>6. \A i, j \in 1 .. 4 : P[i].id = P[j].id => i = j
    BY <1>7, <2>4
  <2>7. \A f \in Field : Mandatory \subseteq spl.filled =>
          (f \in spl.filled <=> \E i \in 1 .. 4 : P[i].id = f)
    BY <1>7, <1>10, <2>4 DEF Field, Mandatory
  <2>8. Mandatory \subseteq spl.filled => Packed(spl).nr = 4
    BY <1>2, <1>10, FieldCount, SetFacts
  <2> QED
    BY <1>9, <2>4, <2>5, <2>6, <2>7, <2>8 DEF Lists
<1>11. CASE "astring" \in spl.filled /\ "anuint" \notin spl.filled
  <2>1. P = <<a>> \o <<b>> \o <<c>> \o << >>
    BY <1>8, <1>11
  <2>2. <<a>> \in Seq(S) /\ <<a, b>> \in Seq(S) /\ <<a, c>> \in Seq(S) /\ <<a, b, c>> \in Seq(S)
    OBVIOUS
  <2>3. P = <<a, b, c>>
    <3>1. <<a>> \o <<b>> = <<a, b>>
      BY ONLY <2>2, Pair, Zenon
    <3>2. <<a, b>> \o <<c>> = <<a, b, c>>
      BY ONLY <2>2, Triple, Zenon
    <3>3. <<a, b, c>> \o << >> = <<a, b, c>>
      BY ONLY <2>2, ConcatEmptySeq, Zenon
    <3> QED
      BY ONLY <2>1, <3>1, <3>2, <3>3, Zenon
  <2>4. P \in Seq(S) /\ Len(P) = 3 /\ P[1] = a /\ P[2] = b /\ P[3] = c
    BY <2>3
  <2> QED
    BY <1>2, <1>7, <1>9, <1>11, <2>4, FieldCount, SetFacts DEF Field, Mandatory, Lists
<1>12. CASE "astring" \notin spl.filled /\ "anuint" \in spl.filled
  <2>1. P = <<a>> \o << >> \o <<c>> \o <<d>>
    BY <1>8, <1>12
  <2>2. <<a>> \in Seq(S) /\ <<a, b>> \in Seq(S) /\ <<a, c>> \in Seq(S) /\ <<a, b, c>> \in Seq(S)
    OBVIOUS
  <2>3. P = <<a, c, d>>
    <3>1. <<a>> \o << >> = <<a>>
      BY ONLY <2>2, ConcatEmptySeq, Zenon
    <3>2. <<a>> \o <<c>> = <<a, c>>
      BY ONLY <2>2, Pair, Zenon
    <3>3. <<a, c>> \o <<d>> = <<a, c, d>>
      BY ONLY <2>2, Triple, Zenon
    <3> QED
      BY ONLY <2>1, <3>1, <3>2, <3>3, Zenon
  <2>4. P \in Seq(S) /\ Len(P) = 3 /\ P[1] = a /\ P[2] = c /\ P[3] = d
    BY <2>3
  <2> QED
    BY <1>2, <1>7, <1>9, <1>12, <2>4, FieldCount, SetFacts DEF Field, Mandatory, Lists
<1>13. CASE "astring" \notin spl.filled /\ "anuint" \notin spl.filled
  <2>1. P = <<a>> \o << >> \o <<c>> \o << >>
    BY <1>8, <1>13
  <2>2. <<a>> \in Seq(S) /\ <<a, b>> \in Seq(S) /\ <<a, c>> \in Seq(S) /\ <<a, b, c>> \in Seq(S)
    OBVIOUS
  <2>3. P = <<a, c>>
    BY ONLY <2>1, <2>2, Pair, ConcatEmptySeq, Zenon
  <2>4. P \in Seq(S) /\ Len(P) = 2 /\ P[1] = a /\ P[2] = c
    BY <2>3
  <2> QED
    BY <1>2, <1>7, <1>9, <1>13, <2>4, FieldCount, SetFacts DEF Field, Mandatory, Lists
<1> QED
  BY <1>10, <1>11, <1>12, <1>13

\* What a message P is of sample spl, when its mandatory fields are filled: its fields are
\* those that are filled, each once, with their values.
Carries(P, spl) ==
    /\ Len(P) \in 2 .. 4
    /\ \A i \in 1 .. Len(P) :
          /\ P[i].id \in spl.filled
          /\ P[i].value = spl.slot[P[i].id] /\ P[i].value \in Valid(P[i].id)
    /\ \A i, j \in 1 .. Len(P) : P[i].id = P[j].id => i = j
    /\ \A f \in spl.filled : \E i \in 1 .. Len(P) : P[i].id = f

LEMMA PackedSaved ==
    ASSUME NEW spl, Sound(spl)
    PROVE  /\ Packed(spl) \in File /\ Packed(spl).of = Fini(spl)
           /\ Begins(Packed(spl), Packed(spl))
<1>1. spl \in SetSamples /\ spl \in Sample /\ spl.filled \in SUBSET Field
  BY SetFacts DEF Sound
<1>2. Packed(spl).fields \in Seq(Record)
  BY <1>1, PackedFacts DEF Lists
<1>3. Packed(spl).nr \in Nat
  <2>1. Cardinality(spl.filled) \in Nat
    BY <1>1, FieldFinite, FS_CardinalityType
  <2> QED
    BY <2>1 DEF Packed
<1>4. Packed(spl).of = Fini(spl) /\ Packed(spl).of \in Sample
  BY <1>1, FiniFacts DEF Packed
<1>5. Packed(spl) = [nr |-> Packed(spl).nr, fields |-> Packed(spl).fields, of |-> Packed(spl).of]
  BY DEF Packed
<1>6. Packed(spl) \in File
  BY <1>2, <1>3, <1>4, <1>5 DEF File
<1>7. Begins(Packed(spl), Packed(spl))
  BY <1>2 DEF Begins
<1> QED
  BY <1>4, <1>6, <1>7

\* The beginning of what is in a file, or was loaded, is the beginning of the same message.
LEMMA PrefixSaved ==
    ASSUME NEW m, Saved(m), NEW begun \in BOOLEAN, NEW n \in 0 .. Len(m.fields) - 1
    PROVE  Saved(Prefix(m, n, begun))
<1>1. PICK P \in Seq(Record) : P = m.fields
  BY DEF Saved, File
<1>2. n \in 0 .. Len(P) - 1 /\ n + 1 \in 1 .. Len(P) /\ P[n + 1] \in Record
  <2>1. n \in 0 .. Len(P) - 1 /\ Len(P) \in Nat
    BY <1>1
  <2>2. n \in Nat /\ n + 1 \in 1 .. Len(P)
    BY <2>1
  <2> QED
    BY <2>1, <2>2
<1>3. PICK e \in Record : e = [id |-> P[n + 1].id, value |-> "cut"]
  BY <1>2 DEF Record, Value
<1>4. PICK s \in Seq(Record) : s = SubSeq(P, 1, n)
  <2>1. 1 \in Int /\ n \in Int /\ \A i \in 1 .. n : P[i] \in Record
    BY <1>2
  <2>2. SubSeq(P, 1, n) \in Seq(Record)
    BY ONLY <2>1, SubSeqProperties, Zenon
  <2> QED
    BY <2>2, Zenon
<1>5. Len(s) = n /\ \A i \in 1 .. n : s[i] = P[i]
  BY <1>2, <1>4, SubSeqProperties
<1>6. PICK t \in Seq(Record) : t = IF begun THEN <<e>> ELSE << >>
  <2>1. <<e>> \in Seq(Record) /\ << >> \in Seq(Record)
    OBVIOUS
  <2> QED
    BY <2>1, Zenon
<1>7. Len(t) \in 0 .. 1 /\ \A i \in 1 .. Len(t) : t[i] = e
  BY <1>6
<1>8. PICK q \in Seq(Record) : q = s \o t
  BY ConcatProperties
<1>9. /\ Len(q) = Len(s) + Len(t)
      /\ \A i \in 1 .. Len(q) : q[i] = IF i <= Len(s) THEN s[i] ELSE t[i - Len(s)]
  BY <1>8, ConcatProperties
<1>10. /\ Len(q) <= Len(P)
       /\ \A i \in 1 .. Len(q) : q[i].id = P[i].id /\ q[i].value \in {P[i].value, "cut"}
  <2>1. Len(q) <= Len(P)
    <3>1. Len(P) \in Nat /\ Len(q) = n + Len(t)
      BY <1>5, <1>9
    <3> QED
      BY <1>2, <1>7, <3>1
  <2>2. ASSUME NEW i \in 1 .. Len(q)
        PROVE  q[i].id = P[i].id /\ q[i].value \in {P[i].value, "cut"}
    <3>1. CASE i <= n
      BY <1>5, <1>9, <2>2, <3>1
    <3>2. CASE i = n + 1
      <4>1. i - Len(s) = 1 /\ 1 \in 1 .. Len(t)
        BY <1>2, <1>5, <1>7, <1>9, <3>2
      <4>2. q[i] = e
        BY <1>5, <1>7, <1>9, <3>2, <4>1
      <4> QED
        BY <1>3, <3>2, <4>2
    <3> QED
      BY <1>2, <1>5, <1>7, <1>9, <3>1, <3>2
  <2> QED
    BY <2>1, <2>2
<1>11. PICK p : p = Prefix(m, n, begun)
  OBVIOUS
<1>12. p.nr = m.nr /\ p.of = m.of /\ p.fields = q /\ p \in File
  <2>1. p = [m EXCEPT !.fields = q]
    BY <1>1, <1>3, <1>4, <1>6, <1>8, <1>11 DEF Prefix
  <2> QED
    BY <2>1 DEF Saved, File
<1>13. CASE m.of = NewSample
  BY <1>11, <1>12, <1>13 DEF Saved
<1>14. CASE m.of # NewSample
  <2>1. PICK spl : Sound(spl) /\ m.of = Fini(spl) /\ Begins(m, Packed(spl))
    BY <1>14 DEF Saved
  <2>2. PICK F \in Seq(Record) : F = Packed(spl).fields
    BY <2>1, PackedSaved DEF File
  <2>3. /\ m.nr = Packed(spl).nr /\ Len(P) <= Len(F)
        /\ \A i \in 1 .. Len(P) : P[i].id = F[i].id /\ P[i].value \in {F[i].value, "cut"}
    BY <1>1, <2>1, <2>2 DEF Begins
  <2>4. Len(q) <= Len(F)
    BY <1>1, <1>8, <1>10, <2>2, <2>3
  <2>5. ASSUME NEW i \in 1 .. Len(q)
        PROVE  q[i].id = F[i].id /\ q[i].value \in {F[i].value, "cut"}
    <3>1. i \in 1 .. Len(P)
      BY <1>1, <1>8, <1>10
    <3>2. P[i].id = F[i].id /\ P[i].value \in {F[i].value, "cut"}
      BY <2>3, <3>1
    <3> QED
      BY <1>10, <3>2
  <2>6. Begins(p, Packed(spl))
    BY <1>12, <2>2, <2>3, <2>4, <2>5 DEF Begins
  <2> QED
    BY <1>11, <1>12, <2>1, <2>6 DEF Saved
<1> QED
  BY <1>13, <1>14

LEMMA ExtendedSaved ==
    ASSUME NEW m, Saved(m), NEW s, s \in File, NEW e \in Extended(m, s)
    PROVE  Saved(e)
<1>1. CASE e = m
  BY <1>1
<1>2. CASE e # m
  <2>1. PICK n \in Len(s.fields) .. Len(m.fields) - 1, begun \in BOOLEAN : e = Prefix(m, n, begun)
    BY <1>2 DEF Extended
  <2>2. Len(s.fields) \in Nat /\ Len(m.fields) \in Nat
    BY DEF File, Saved
  <2>3. n \in 0 .. Len(m.fields) - 1
    BY <2>1, <2>2
  <2> QED
    BY <2>1, <2>3, PrefixSaved
<1> QED
  BY <1>1, <1>2

LEMMA EmptySaved == Empty \in File /\ Saved(Empty)
BY ValidTyped DEF Empty, File, Saved

LEMMA ForeignSaved ==
    ASSUME NEW m \in Foreign
    PROVE  Saved(m)
BY ForeignAssumption DEF Saved

\* What is loaded of two messages is of no sample.
LEMMA MixedSaved ==
    ASSUME NEW m, Saved(m), NEW tail \in Tails
    PROVE  Saved(Mixed(m, tail))
<1>1. PICK P \in Seq(Record) : P = m.fields
  BY DEF Saved, File
<1>2. tail \in Seq(Record)
  BY TailsAssumption
<1>3. Uncut(P) \in Seq(Record)
  <2>1. CASE CutLast(P)
    <3>1. 1 \in Int /\ Len(P) - 1 \in Int /\ \A i \in 1 .. Len(P) - 1 : P[i] \in Record
      OBVIOUS
    <3>2. SubSeq(P, 1, Len(P) - 1) \in Seq(Record)
      BY ONLY <3>1, SubSeqProperties, Zenon
    <3> QED
      BY <2>1, <3>2 DEF Uncut
  <2>2. CASE ~CutLast(P)
    BY <2>2 DEF Uncut
  <2> QED
    BY <2>1, <2>2
<1>4. PICK q \in Seq(Record) : q = Uncut(P) \o tail
  BY <1>2, <1>3, ConcatProperties
<1>5. Mixed(m, tail) = [m EXCEPT !.fields = q, !.of = NewSample]
  BY <1>1, <1>4 DEF Mixed
<1> QED
  BY <1>5, ValidTyped DEF Saved, File

\* What was loaded and is of a sample with its mandatory fields carries that sample, to the
\* end or up to where it is cut.
LEMMA Origin ==
    ASSUME NEW m, Saved(m), Mandatory \subseteq m.of.filled
    PROVE  \E spl \in Sample, P \in Seq(Record) :
              /\ m.of.filled = spl.filled /\ m.of.slot = spl.slot
              /\ IsSet(spl) /\ Check(spl) = "OK" /\ Carries(P, spl)
              /\ m.nr = Len(P) /\ Len(m.fields) <= Len(P)
              /\ \A i \in DOMAIN m.fields :
                    m.fields[i].id = P[i].id /\ m.fields[i].value \in {P[i].value, "cut"}
<1>1. m.of # NewSample
  BY DEF NewSample, Mandatory
<1>2. PICK spl : Sound(spl) /\ m.of = Fini(spl) /\ Begins(m, Packed(spl))
  BY <1>1 DEF Saved
<1>3. spl \in SetSamples /\ spl \in Sample /\ Check(spl) = "OK"
  BY <1>2, SetFacts DEF Sound
<1>4. m.of.filled = spl.filled /\ m.of.slot = spl.slot
  BY <1>2, <1>3, FiniFacts
<1>5. IsSet(spl)
  BY <1>3 DEF SetSamples
<1>6. PICK P : P = Packed(spl).fields
  OBVIOUS
<1>7. /\ P \in Seq(Record)
      /\ \A i \in 1 .. Len(P) : P[i].id \in Field /\ P[i].value = spl.slot[P[i].id]
      /\ \A i, j \in 1 .. Len(P) : P[i].id = P[j].id => i = j
      /\ Len(P) = Packed(spl).nr /\ Packed(spl).nr \in 2 .. 4
      /\ \A f \in Field : f \in spl.filled <=> \E i \in 1 .. Len(P) : P[i].id = f
  <2>1. Mandatory \subseteq spl.filled
    BY <1>4
  <2>2. Lists(P, Packed(spl).nr, spl)
    BY <1>3, <1>6, PackedFacts
  <2> QED
    BY <2>1, <2>2 DEF Lists
<1>8. Carries(P, spl)
  <2>1. \A i \in 1 .. Len(P) : P[i].id \in spl.filled
    BY <1>7
  <2>2. \A i \in 1 .. Len(P) : P[i].value \in Valid(P[i].id)
    BY <1>3, <1>7, <2>1, SetFacts
  <2>3. \A f \in spl.filled : \E i \in 1 .. Len(P) : P[i].id = f
    BY <1>3, <1>7, SetFacts
  <2> QED
    BY <1>7, <2>1, <2>2, <2>3 DEF Carries
<1> QED
  BY <1>2, <1>3, <1>4, <1>5, <1>6, <1>7, <1>8 DEF Begins

-----------------------------------------------------------------------------
(* Each step preserves the invariant of both processes. *)

\* What is loaded in the end
LEMMA LoadedSome ==
    ASSUME LoadEnd \/ LoadMixed
    PROVE  \E m : Loaded(m)
BY DEF LoadEnd, LoadMixed

LEMMA LoadedSaved ==
    ASSUME Shared, LoadEnd \/ LoadMixed
    PROVE  \E m : Saved(m) /\ Loaded(m)
<1>1. CASE LoadEnd
  BY <1>1 DEF LoadEnd, Shared, Loading
<1>2. CASE LoadMixed
  BY <1>2, MixedSaved DEF LoadMixed, Shared, Loading
<1> QED
  BY <1>1, <1>2

\* What the two processes leave to each other
LEMMA PackSide ==
    ASSUME Shared, [Next]_vars
    PROVE  Saved(file)' /\ Packing' /\ Loading'
<1> USE DEF Loading
<1>1. CASE PackBegin
  <2>1. PICK spl \in SetSamples :
            Check(spl) = "OK" /\ pack' = [phase |-> "save", buff |-> Packed(spl)]
    BY <1>1 DEF PackBegin
  <2>2. Sound(spl)
    BY <2>1 DEF Sound
  <2>3. Packing'
    BY <2>1, <2>2, PackedSaved DEF Packing
  <2>4. Loading'
    BY <1>1 DEF PackBegin, Shared
  <2> QED
    BY <1>1, <2>3, <2>4, EmptySaved DEF PackBegin
<1>2. PackIdle.phase = "idle" /\ PackIdle.buff \in File
  BY EmptySaved DEF PackIdle
<1>3. CASE SavePart
  <2>1. PICK spl : Sound(spl) /\ pack.buff = Packed(spl)
    BY <1>3 DEF SavePart, Shared, Packing
  <2>2. Saved(pack.buff)
    BY <2>1, PackedSaved DEF Saved
  <2>3. Saved(file)'
    BY <1>3, <2>2, ExtendedSaved DEF SavePart, Shared, Saved
  <2>4. Packing' /\ Loading'
    BY <1>2, <1>3 DEF SavePart, Shared, Packing
  <2> QED
    BY <2>3, <2>4
<1>4. CASE SaveWhole
  <2>1. PICK spl : Sound(spl) /\ pack.buff = Packed(spl)
    BY <1>4 DEF SaveWhole, Shared, Packing
  <2>2. Saved(pack.buff)
    BY <2>1, PackedSaved DEF Saved
  <2> QED
    BY <1>2, <1>4, <2>2 DEF SaveWhole, Packing, Shared
<1>5. CASE UNCHANGED <<file, pack, load>>
  BY <1>5 DEF Shared, Packing, Saved
<1>6. CASE UNCHANGED vars
  BY <1>5, <1>6 DEF vars
<1>7. CASE LoadRead
  <2>1. PICK m \in Extended(file, load.buff) : load' = [load EXCEPT !.buff = m]
    BY <1>7 DEF LoadRead
  <2>2. Saved(m)
    BY <2>1, ExtendedSaved DEF Shared, Saved
  <2>3. Loading'
    BY <2>1, <2>2 DEF Shared
  <2> QED
    BY <1>7, <2>3 DEF LoadRead, Shared, Packing, Saved
<1>8. CASE LoadEnd \/ LoadMixed
  <2>1. PICK m : Loaded(m)
    BY <1>8, LoadedSome
  <2>2. load' = LoadIdle /\ file' = file /\ pack' = pack
    BY <2>1 DEF Loaded
  <2>3. Loading'
    BY <2>2, EmptySaved DEF LoadIdle
  <2> QED
    BY <2>2, <2>3 DEF Shared, Packing, Saved
<1> QED
  BY <1>1, <1>3, <1>4, <1>5, <1>6, <1>7, <1>8
     DEF Next, UnpackRefused, UnpackCut, UnpackFieldRefused, UnpackFieldRejected,
         UnpackFieldDone, UnpackChecked, UnpackFini, UnpackEnd

\* The unpacking process keeps what it loaded to the end.
LEMMA BuffKept ==
    ASSUME IInv, Next, ~LoadEnd, ~LoadMixed, ~UnpackEnd
    PROVE  unpack'.buff = unpack.buff
<1>1. CASE UnpackFieldRejected \/ UnpackFieldDone \/ UnpackFini
  BY <1>1 DEF IInv, Typed, UnpackFieldRejected, UnpackFieldDone, UnpackFini, WithField, Undone,
              Dropped
<1> QED
  BY <1>1 DEF IInv, Typed, Next, PackBegin, SavePart, SaveWhole, LoadRead, UnpackRefused,
              UnpackCut, UnpackFieldRefused, UnpackChecked, Returns

LEMMA BuffSaved ==
    ASSUME IInv, Shared, [Next]_vars
    PROVE  Saved(unpack.buff)'
<1>1. CASE LoadEnd \/ LoadMixed
  <2>1. PICK m : Saved(m) /\ Loaded(m)
    BY <1>1, LoadedSaved
  <2>2. unpack'.buff \in {unpack.buff, m}
    BY <2>1 DEF Loaded
  <2> QED
    BY <2>1, <2>2 DEF Shared
<1>2. CASE UnpackEnd
  BY <1>2, EmptySaved DEF UnpackEnd, Reset
<1>3. CASE UNCHANGED vars
  BY <1>3 DEF vars, Shared
<1> QED
  BY <1>1, <1>2, <1>3, BuffKept DEF Shared

LEMMA ReturnPhase ==
    ASSUME IInv, UnpackRefused \/ UnpackCut \/ UnpackFieldRefused \/ UnpackFieldRejected
                 \/ UnpackChecked
    PROVE  unpack'.phase = "done"
<1>1. CASE UnpackFieldRejected
  BY <1>1 DEF UnpackFieldRejected, Undone, WithField, Dropped, IInv, Typed
<1> QED
  BY <1>1 DEF UnpackRefused, UnpackCut, UnpackFieldRefused, UnpackChecked, Returns, IInv, Typed

LEMMA FiniPhase ==
    ASSUME IInv, UnpackFini
    PROVE  unpack'.phase = "fini"
BY DEF UnpackFini, Dropped, IInv, Typed

LEMMA DonePhase ==
    ASSUME IInv, UnpackFieldDone
    PROVE  unpack'.phase = "unpack"
BY DEF UnpackFieldDone, Unpacking, WithField, IInv, Typed

LEMMA UnsetKept ==
    ASSUME IInv, Shared, [Next]_vars
    PROVE  Unset'
<1>1. CASE (LoadEnd \/ LoadMixed) /\ unpack' # unpack
  <2>1. PICK m : Loaded(m)
    BY <1>1, LoadedSome
  <2> QED
    BY <1>1, <2>1 DEF Loaded, Unset
<1>2. CASE UnpackFieldDone
  <2>1. PICK f, v : /\ f \in Field
                     /\ unpack'.spl.filled = Filled \cup {f}
                     /\ unpack'.spl.slot = [unpack.spl.slot EXCEPT ![f] = v]
    BY <1>2, ExpectedNew DEF UnpackFieldDone, WithField, Filled, IInv, Typed, Sample
  <2>2. unpack.phase = "unpack" /\ unpack.spl.slot \in [Field -> Value]
    BY <1>2 DEF UnpackFieldDone, Unpacking, IInv, Typed, Sample
  <2> QED
    BY <2>1, <2>2 DEF Shared, Unset, Filled
<1>3. CASE UNCHANGED unpack
  BY <1>3 DEF Shared, Unset, Filled
<1>4. CASE \/ UnpackRefused \/ UnpackCut \/ UnpackFieldRefused \/ UnpackFieldRejected
           \/ UnpackChecked \/ UnpackFini \/ UnpackEnd
  <2>1. unpack'.phase # "unpack"
    <3>1. CASE UnpackRefused \/ UnpackCut \/ UnpackFieldRefused \/ UnpackFieldRejected \/ UnpackChecked
      BY <3>1, ReturnPhase
    <3>2. CASE UnpackFini
      BY <3>2, FiniPhase
    <3>3. CASE UnpackEnd
      BY <3>3 DEF UnpackEnd, Reset
    <3> QED
      BY <1>4, <3>1, <3>2, <3>3
  <2> QED
    BY <2>1 DEF Unset
<1> QED
  BY <1>1, <1>2, <1>3, <1>4 DEF Next, PackBegin, SavePart, SaveWhole, LoadRead, vars

\* A field of such a sample that is there is the one expected, and is valid.
LEMMA FieldExpected ==
    ASSUME IInv, Shared, Mandatory \subseteq unpack.buff.of.filled, Unpacking, Here
    PROVE  Unexpected(Incoming.id) = "OK" /\ Incoming.value \in Valid(Incoming.id)
<1> DEFINE n == unpack.next
<1>1. PICK spl \in Sample, P \in Seq(Record) :
          /\ Carries(P, spl) /\ Len(Fields) <= Len(P)
          /\ \A i \in DOMAIN Fields : Fields[i].id = P[i].id /\ Fields[i].value \in {P[i].value, "cut"}
  BY Origin DEF Shared, Fields
<1>2. Fields \in Seq(Record)
  BY DEF Shared, Saved, File, Fields
<1>3. n \in DOMAIN Fields /\ n \in 1 .. Len(P) /\ Incoming = Fields[n] /\ Incoming.value # "cut"
  BY <1>1, <1>2 DEF Here, Incoming, Fields
<1>4. Incoming.id = P[n].id /\ Incoming.value = P[n].value
  BY <1>1, <1>3
<1>5. Incoming.id \in spl.filled /\ Incoming.value \in Valid(Incoming.id)
  BY <1>1, <1>3, <1>4 DEF Carries
<1>6. Incoming.id \in Field
  BY <1>5 DEF Sample
<1>7. ASSUME Incoming.id \in Filled PROVE FALSE
  <2>1. PICK i \in Reads : Fields[i].id = Incoming.id
    BY <1>7 DEF IInv, ReadOnce, Reading, Unpacking
  <2>2. i \in DOMAIN Fields
    BY DEF IInv, AllFilled, Reading, Unpacking
  <2>3. i \in 1 .. Len(P) /\ P[i].id = P[n].id
    BY <1>1, <1>2, <1>4, <2>1, <2>2
  <2>4. i = n
    BY <1>1, <1>3, <2>3 DEF Carries
  <2> QED
    BY <2>4 DEF Reads, IInv, Typed
<1> QED
  BY <1>5, <1>6, <1>7 DEF Unexpected, Filled

\* When all of its fields were read, none is missing and the sample is as it was.
LEMMA WholeSample ==
    ASSUME IInv, Shared, Mandatory \subseteq unpack.buff.of.filled, UnpackChecked
    PROVE  /\ ~Incomplete(unpack.buff) /\ Check(unpack.spl) = "OK"
           /\ unpack.spl.filled = unpack.buff.of.filled /\ unpack.spl.slot = unpack.buff.of.slot
<1>1. PICK spl \in Sample, P \in Seq(Record) :
          /\ unpack.buff.of.filled = spl.filled /\ unpack.buff.of.slot = spl.slot
          /\ IsSet(spl) /\ Check(spl) = "OK" /\ Carries(P, spl)
          /\ unpack.buff.nr = Len(P) /\ Len(Fields) <= Len(P)
          /\ \A i \in DOMAIN Fields : Fields[i].id = P[i].id /\ Fields[i].value \in {P[i].value, "cut"}
  BY Origin DEF Shared, Fields
<1>2. Fields \in Seq(Record)
  BY DEF Shared, Saved, File, Fields
<1>3. Reading /\ unpack.phase = "unpack" /\ unpack.buff.nr = unpack.next - 1
  BY DEF UnpackChecked, IInv, Within, Typed, Reading
<1>4. Reads = 1 .. Len(P) /\ Len(P) \in 2 .. 4
  BY <1>1, <1>3 DEF Reads, Carries
<1>5. Reads = DOMAIN Fields /\ Len(Fields) = Len(P)
  <2>1. Len(P) \in Reads
    BY <1>4
  <2>2. Len(P) \in DOMAIN Fields
    BY <1>3, <2>1 DEF IInv, AllFilled
  <2> QED
    BY <1>1, <1>2, <1>4, <2>2
<1>6. ASSUME NEW f \in Filled
      PROVE  \E i \in Reads : /\ P[i].id = f /\ Fields[i].id = f
                             /\ Fields[i].value = unpack.spl.slot[f]
                             /\ Fields[i].value # "cut"
                             /\ \A j \in Reads : Fields[j].id = f => j = i
  <2>1. f \in Field
    BY DEF IInv, Typed, Sample, Filled
  <2>2. PICK i \in Reads : /\ Fields[i].id = f /\ Fields[i].value = unpack.spl.slot[f]
                          /\ \A j \in Reads : Fields[j].id = f => j = i
    BY <1>3 DEF IInv, ReadOnce
  <2>3. unpack.spl.slot[f] \in Valid(f)
    BY <1>3 DEF IInv, ReadOnce
  <2>4. "cut" \notin Valid(f)
    BY <2>1 DEF Field, Valid, Decodes
  <2> QED
    BY <1>1, <1>5, <2>2, <2>3, <2>4
<1>7. ASSUME NEW i \in Reads
      PROVE  Fields[i].id = P[i].id /\ P[i].id \in Filled /\ Fields[i].value # "cut"
  <2>1. Fields[i].id \in Filled
    BY <1>3 DEF IInv, AllFilled
  <2> QED
    BY <1>1, <1>5, <1>6, <2>1
<1>8. ~Incomplete(unpack.buff)
  BY <1>1, <1>2, <1>5, <1>7 DEF Incomplete, Fields
<1>9. Filled = spl.filled
  <2>1. ASSUME NEW f \in Filled PROVE f \in spl.filled
    <3>1. PICK i \in Reads : P[i].id = f
      BY <1>6
    <3> QED
      BY <1>1, <1>4, <3>1 DEF Carries
  <2>2. \A f \in spl.filled : f \in Filled
    BY <1>1, <1>4, <1>7 DEF Carries
  <2> QED
    BY <2>1, <2>2
<1>10. \A f \in Field : unpack.spl.slot[f] = spl.slot[f]
  <2>1. ASSUME NEW f \in Filled PROVE unpack.spl.slot[f] = spl.slot[f]
    <3>1. PICK i \in Reads : /\ P[i].id = f /\ Fields[i].value = unpack.spl.slot[f]
                            /\ Fields[i].value # "cut"
      BY <1>6
    <3>2. Fields[i].value = P[i].value /\ P[i].value = spl.slot[f]
      BY <1>1, <1>4, <1>5, <3>1 DEF Carries
    <3> QED
      BY <3>1, <3>2
  <2>2. ASSUME NEW f \in Field \ Filled PROVE unpack.spl.slot[f] = spl.slot[f]
    BY <1>1, <1>3, <1>9 DEF Shared, Unset, IsSet
  <2> QED
    BY <2>1, <2>2
<1>11. unpack.spl.slot = spl.slot
  BY <1>10 DEF IInv, Typed, Sample
<1>12. Check(unpack.spl) = "OK"
  BY <1>1, <1>9, <1>11 DEF Check, Filled
<1> QED
  BY <1>1, <1>8, <1>9, <1>11, <1>12 DEF Filled

LEMMA FaithfulKept ==
    ASSUME IInv, Shared, [Next]_vars
    PROVE  UnpackedAsPacked'
<1>1. CASE UNCHANGED unpack
  BY <1>1 DEF Shared, UnpackedAsPacked, Incomplete
<1>2. CASE LoadEnd \/ LoadMixed \/ UnpackFieldDone \/ UnpackFini \/ UnpackEnd
  <2>1. unpack' = unpack \/ unpack'.phase # "done"
    <3>1. CASE LoadEnd \/ LoadMixed
      <4>1. PICK m : Loaded(m)
        BY <3>1, LoadedSome
      <4>2. UNCHANGED unpack \/ unpack'.phase = "unpack"
        BY <4>1 DEF Loaded
      <4> QED
        BY <4>2
    <3>2. CASE UnpackFieldDone
      BY <3>2, DonePhase
    <3>3. CASE UnpackFini
      BY <3>3, FiniPhase
    <3>4. CASE UnpackEnd
      BY <3>4 DEF UnpackEnd, Reset
    <3> QED
      BY <1>2, <3>1, <3>2, <3>3, <3>4
  <2>2. CASE unpack'.phase # "done"
    BY <2>2 DEF UnpackedAsPacked
  <2> QED
    BY <1>1, <2>1, <2>2
<1>3. CASE UnpackRefused \/ UnpackCut \/ UnpackFieldRefused \/ UnpackFieldRejected \/ UnpackChecked
  <2>1. unpack'.buff = unpack.buff
    <3>1. unpack.phase = "unpack" /\ Next
      BY <1>3 DEF Next, UnpackRefused, UnpackCut, UnpackFieldRefused, UnpackFieldRejected,
                  UnpackChecked, Unpacking
    <3> QED
      BY <3>1, BuffKept DEF LoadEnd, LoadMixed, UnpackEnd
  <2>2. SUFFICES ASSUME Mandatory \subseteq unpack.buff.of.filled
                 PROVE  IF Incomplete(unpack.buff) THEN unpack'.ret # "OK"
                        ELSE \/ unpack'.ret = "ENOMEM"
                             \/ /\ unpack'.ret = "OK"
                                /\ unpack'.spl.filled = unpack.buff.of.filled
                                /\ unpack'.spl.slot = unpack.buff.of.slot
    BY <2>1 DEF UnpackedAsPacked, Incomplete
  <2>3. \A code : Returns(code).ret = code /\ Returns(code).spl = unpack.spl
    BY DEF Returns, IInv, Typed
  <2>4. PICK P \in Seq(Record) :
            unpack.buff.nr = Len(P) /\ Len(P) \in 2 .. 4
    BY <2>2, Origin DEF Shared, Carries
  <2>5. CASE UnpackRefused
    BY <2>4, <2>5 DEF UnpackRefused
  <2>6. CASE UnpackCut
    <3>1. Incomplete(unpack.buff)
      <4>1. Fields \in Seq(Record)
        BY DEF Shared, Saved, File, Fields
      <4>2. unpack.next \in Nat \ {0} /\ unpack.next <= unpack.buff.nr
        BY <2>6 DEF UnpackCut, Unpacking, IInv, Typed
      <4>3. CASE unpack.next \in DOMAIN Fields
        BY <2>6, <4>3 DEF UnpackCut, Here, Incomplete, Fields
      <4>4. CASE unpack.next \notin DOMAIN Fields
        BY <2>4, <4>1, <4>2, <4>4 DEF Incomplete, Fields
      <4> QED
        BY <4>3, <4>4
    <3> QED
      BY <2>3, <2>6, <3>1 DEF UnpackCut
  <2>7. CASE UnpackFieldRefused
    <3>1. Unexpected(Incoming.id) = "OK" /\ Incoming.value \in Valid(Incoming.id)
      BY <2>2, <2>7, FieldExpected DEF UnpackFieldRefused
    <3>2. Incoming.value \in Decodes(Incoming.id)
      BY <3>1, ExpectedNew, ValidTyped
    <3>3. unpack' = Returns("ENOMEM")
      BY <2>7, <3>1, <3>2 DEF UnpackFieldRefused
    <3> QED
      BY <2>3, <3>3
  <2>8. CASE UnpackFieldRejected
    BY <2>2, <2>8, FieldExpected DEF UnpackFieldRejected
  <2>9. CASE UnpackChecked
    BY <2>2, <2>3, <2>9, WholeSample DEF UnpackChecked
  <2> QED
    BY <1>3, <2>5, <2>6, <2>7, <2>8, <2>9
<1> QED
  BY <1>1, <1>2, <1>3 DEF Next, PackBegin, SavePart, SaveWhole, LoadRead, vars

LEMMA IdleKept ==
    ASSUME IInv, Idle, [Next]_vars
    PROVE  Idle'
<1>1. CASE UNCHANGED unpack
  BY <1>1 DEF Idle
<1>6. CASE LoadEnd \/ LoadMixed
  <2>1. PICK m : Loaded(m)
    BY <1>6, LoadedSome
  <2>2. UNCHANGED unpack \/ unpack'.phase = "unpack"
    BY <2>1 DEF Loaded
  <2> QED
    BY <1>1, <2>2 DEF Idle
<1>2. CASE UnpackEnd
  BY <1>2 DEF UnpackEnd, Reset, Idle
<1>3. CASE UnpackFieldDone
  BY <1>3, DonePhase DEF Idle
<1>4. CASE UnpackFini
  BY <1>4, FiniPhase DEF Idle
<1>5. CASE UnpackRefused \/ UnpackCut \/ UnpackFieldRefused \/ UnpackFieldRejected \/ UnpackChecked
  BY <1>5, ReturnPhase DEF Idle
<1> QED
  BY <1>1, <1>2, <1>3, <1>4, <1>5, <1>6
     DEF Next, PackBegin, SavePart, SaveWhole, LoadRead, vars

LEMMA InitShared == Init => Shared
<1> SUFFICES ASSUME Init PROVE Shared
  OBVIOUS
<1>1. Saved(file)
  BY EmptySaved, ForeignSaved DEF Init
<1>2. Packing /\ Loading
  BY EmptySaved DEF Init, Packing, PackIdle, Loading, LoadIdle
<1>3. Saved(unpack.buff) /\ Unset /\ UnpackedAsPacked
  BY EmptySaved DEF Init, Reset, Unset, UnpackedAsPacked
<1>4. Idle
  BY DEF Init, Reset, Idle
<1> QED
  BY <1>1, <1>2, <1>3, <1>4 DEF Shared

LEMMA SharedInvariant == Spec => []Shared
<1>1. IInv /\ Shared /\ [Next]_vars => Shared'
  <2> SUFFICES ASSUME IInv, Shared, [Next]_vars PROVE Shared'
    OBVIOUS
  <2> QED
    BY PackSide, BuffSaved, UnsetKept, IdleKept, FaithfulKept DEF Shared
<1> QED
  BY <1>1, InitShared, Invariant, PTL DEF Spec

-----------------------------------------------------------------------------
(* Theorems about both processes *)

\* Each variable has its type, for files of any length, and unpacking never takes a field
\* beyond what was loaded: map_sample_unpack() stops at the first error of a field, the end
\* of the file included (map_sample.c:332-355, map.c:428-471).
THEOREM TypeCorrect == Spec => []TypeOK
<1>1. ASSUME IInv, Shared PROVE TypeOK
  <2>1. Fields \in Seq(Record)
    BY <1>1 DEF Shared, Saved, File, Fields
  <2>2. unpack.next \in Nat \ {0}
    BY <1>1 DEF IInv, Typed
  <2>3. Reading => unpack.next \in 1 .. Len(Fields) + 1
    <3>1. CASE Reading /\ unpack.next # 1
      <4>1. unpack.next - 1 \in DOMAIN Fields
        BY <1>1, <2>2, <3>1 DEF IInv, AllFilled, Reads
      <4> QED
        BY <2>1, <2>2, <4>1
    <3> QED
      BY <2>1, <3>1
  <2>4. ~Reading => unpack.next \in 1 .. Len(Fields) + 1
    BY <1>1, <2>1 DEF Shared, Idle, Reading
  <2> QED
    BY <1>1, <2>3, <2>4 DEF Shared, Saved, Packing, Loading, IInv, Typed, Code, Fields, TypeOK
<1> QED
  BY <1>1, Invariant, SharedInvariant, PTL

\* A sample packed with its mandatory fields is unpacked as it was, or refused because the
\* file was cut short or memory ran out, however the two processes interleave, in however
\* many parts the file is written and read, and whenever the packing process dies; what was
\* loaded from two saves is of no sample and left out (map_sample.c:251-304, 306-355,
\* test.c:28-65, 99-163).
THEOREM UnpackedFaithfully == Spec => []UnpackedAsPacked
<1>1. Shared => UnpackedAsPacked
  BY DEF Shared
<1> QED
  BY <1>1, SharedInvariant, PTL
=============================================================================
