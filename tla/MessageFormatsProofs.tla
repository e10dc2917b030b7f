------------------------ MODULE MessageFormatsProofs ------------------------
(***************************************************************************)
(* Proofs about module MessageFormats: the bytes of a packet are read as   *)
(* the message they were written from, whatever its class, type, numbers   *)
(* and lengths, and a message keeps its content on its way.                *)
(***************************************************************************)
EXTENDS MessageFormats, SequenceTheorems, Foundations

(* Division with remainder, and a bound on the quotient.                   *)
LEMMA Division ==
  ASSUME NEW v \in Nat, NEW b \in Nat, b > 0
  PROVE  /\ v \div b \in Nat /\ v % b \in 0 .. b - 1
         /\ v = b * (v \div b) + (v % b)
BY SMT

LEMMA Quotient ==
  ASSUME NEW v \in Nat, NEW b \in Nat, b > 0, NEW c \in Nat, v < b * c
  PROVE  v \div b \in 0 .. c - 1
<1> DEFINE q == v \div b
           r == v % b
<1>1. q \in Nat /\ r \in Nat /\ b * q + r < b * c
  BY Division
<1> HIDE DEF q, r
<1>2. b * q < b * c
  <2>1. b * q \in Int /\ b * c \in Int
    BY <1>1
  <2> QED BY <1>1, <2>1
<1>3. ASSUME q >= c PROVE FALSE
  <2>1. PICK d \in Nat : q = c + d
    BY <1>1, <1>3
  <2>2. b * q = b * c + b * d /\ b * d \in Nat /\ b * c \in Int
    BY <2>1
  <2> QED BY <2>2, <1>2
<1> QED BY <1>1, <1>3 DEF q

LEMMA Remainder ==
  ASSUME NEW b \in Nat, NEW v \in 0 .. b - 1
  PROVE  v % b = v
BY SMT

LEMMA BaseNat == Base \in Nat /\ Base > 4 /\ 0 \in Bytes
BY FormatAssumption DEF Bytes

(* The four bytes of a 32-bit number and the two of a 16-bit number, and   *)
(* the number that is made of them again.                                  *)
LEMMA FourBytes ==
  ASSUME NEW v \in U32
  PROVE  \E b1, b2, b3, b4 \in Bytes :
           /\ WriteHtonU32(v) = <<b1, b2, b3, b4>>
           /\ ((b1 * Base + b2) * Base + b3) * Base + b4 = v
<1> DEFINE q1 == v \div Base
           q2 == q1 \div Base
           q3 == q2 \div Base
           B2 == Base * Base
           B3 == B2 * Base
<1>1. Base \in Nat /\ Base > 0 /\ B2 \in Nat /\ B3 \in Nat
  BY BaseNat
<1>2. v \in Nat /\ v < Base * B3 /\ B3 = Base * B2
  BY <1>1 DEF U32
<1>3. q1 \in 0 .. B3 - 1 /\ v % Base \in Bytes /\ v = Base * q1 + (v % Base)
  <2> HIDE DEF B3
  <2> QED BY <1>1, <1>2, Division, Quotient DEF Bytes
<1>4. q1 \in Nat /\ q1 < Base * B2
  BY <1>1, <1>2, <1>3
<1> HIDE DEF q1, B3
<1>5. q2 \in 0 .. B2 - 1 /\ q1 % Base \in Bytes /\ q1 = Base * q2 + (q1 % Base)
  <2> HIDE DEF B2
  <2> QED BY <1>1, <1>4, Division, Quotient DEF Bytes
<1>6. q2 \in Nat /\ q2 < Base * Base
  BY <1>1, <1>5
<1> HIDE DEF q2, B2
<1>7. q3 \in 0 .. Base - 1 /\ q2 % Base \in Bytes /\ q2 = Base * q3 + (q2 % Base)
  BY <1>1, <1>6, Division, Quotient DEF Bytes
<1> HIDE DEF q3
<1>8. q3 % Base = q3 /\ q3 \in Bytes
  BY <1>1, <1>7, Remainder DEF Bytes
<1>9. WriteHtonU32(v) = <<q3 % Base, q2 % Base, q1 % Base, v % Base>>
  BY DEF WriteHtonU32, q1, q2, q3
<1>10. ((q3 * Base + (q2 % Base)) * Base + (q1 % Base)) * Base + (v % Base) = v
  <2> DEFINE r2 == q2 % Base
             r1 == q1 % Base
             r0 == v % Base
  <2>1. r2 \in Int /\ r1 \in Int /\ r0 \in Int /\ q3 \in Int /\ q2 \in Int /\ q1 \in Int
    BY <1>1, <1>3, <1>5, <1>7 DEF Bytes
  <2>2. q2 = Base * q3 + r2 /\ q1 = Base * q2 + r1 /\ v = Base * q1 + r0
    BY <1>3, <1>5, <1>7
  <2> HIDE DEF r2, r1, r0
  <2>3. q3 * Base + r2 = q2 /\ q2 * Base + r1 = q1 /\ q1 * Base + r0 = v
    BY <1>1, <2>1, <2>2
  <2> QED BY <2>3 DEF r2, r1, r0
<1> QED BY <1>3, <1>5, <1>7, <1>8, <1>9, <1>10

LEMMA TwoBytes ==
  ASSUME NEW v \in Nat, v < Base * Base
  PROVE  \E b1, b2 \in Bytes : WriteU16(v) = <<b1, b2>> /\ b1 + Base * b2 = v
<1> DEFINE q == v \div Base
<1>1. Base \in Nat /\ Base > 0
  BY BaseNat
<1>2. q \in Bytes /\ v % Base \in Bytes /\ v = Base * q + (v % Base)
  BY <1>1, Division, Quotient DEF Bytes
<1> HIDE DEF q
<1>3. q % Base = q
  BY <1>1, <1>2, Remainder DEF Bytes
<1>4. WriteU16(v) = <<v % Base, q>>
  BY <1>3 DEF WriteU16, q
<1>5. (v % Base) + Base * q = v
  <2> DEFINE r == v % Base
  <2>1. r \in Int /\ q \in Int
    BY <1>1, <1>2 DEF Bytes
  <2> HIDE DEF r
  <2>2. v = Base * q + r
    BY <1>2 DEF r
  <2> QED BY <1>1, <2>1, <2>2 DEF r
<1> QED BY <1>2, <1>4, <1>5

-----------------------------------------------------------------------------

(* The bytes of two pieces, one behind the other, and the numbers read     *)
(* from them.                                                              *)
LEMMA BytesOfPieces ==
  ASSUME NEW x \in Seq(Bytes), NEW y \in Seq(Bytes)
  PROVE  /\ x \o y \in Seq(Bytes) /\ Len(x \o y) = Len(x) + Len(y)
         /\ \A i \in 1 .. Len(x) : Byte(x \o y, i) = Byte(x, i)
         /\ \A i \in Nat \ {0} : Byte(x \o y, Len(x) + i) = Byte(y, i)
<1> DEFINE z == x \o y
<1>1. /\ z \in Seq(Bytes) /\ Len(z) = Len(x) + Len(y)
      /\ \A i \in 1 .. Len(x) + Len(y) : z[i] = IF i <= Len(x) THEN x[i] ELSE y[i - Len(x)]
  BY ConcatProperties
<1>2. /\ Len(x) \in Nat /\ Len(y) \in Nat /\ DOMAIN x = 1 .. Len(x)
      /\ DOMAIN y = 1 .. Len(y) /\ DOMAIN z = 1 .. Len(x) + Len(y)
  BY <1>1
<1> HIDE DEF z
<1>3. ASSUME NEW i \in 1 .. Len(x) PROVE Byte(z, i) = Byte(x, i)
  BY <1>1, <1>2 DEF Byte
<1>4. ASSUME NEW i \in Nat \ {0} PROVE Byte(z, Len(x) + i) = Byte(y, i)
  <2> DEFINE k == Len(x) + i
  <2>1. k \in Nat /\ ~(k <= Len(x)) /\ k - Len(x) = i /\ (k \in DOMAIN z <=> i \in DOMAIN y)
    BY <1>2
  <2> HIDE DEF k
  <2>2. k \in DOMAIN z => z[k] = y[i]
    BY <1>1, <1>2, <2>1
  <2>3. Byte(z, k) = Byte(y, i)
    BY <2>1, <2>2 DEF Byte
  <2> QED BY <2>3 DEF k
<1> QED BY <1>1, <1>3, <1>4 DEF z

LEMMA NumbersOfPieces ==
  ASSUME NEW x \in Seq(Bytes), NEW y \in Seq(Bytes)
  PROVE  /\ \A i \in 1 .. Len(x) - 3 : ReadNtohU32(x \o y, i) = ReadNtohU32(x, i)
         /\ \A i \in 1 .. Len(x) - 1 : ReadU16(x \o y, i) = ReadU16(x, i)
         /\ \A i \in Nat \ {0} : ReadNtohU32(x \o y, Len(x) + i) = ReadNtohU32(y, i)
         /\ \A i \in Nat \ {0} : ReadU16(x \o y, Len(x) + i) = ReadU16(y, i)
<1> DEFINE z == x \o y
           l == Len(x)
<1>1. /\ l \in Nat
      /\ \A i \in 1 .. l : Byte(z, i) = Byte(x, i)
      /\ \A i \in Nat \ {0} : Byte(z, l + i) = Byte(y, i)
  BY BytesOfPieces
<1> HIDE DEF z, l
<1>2. ASSUME NEW i \in 1 .. l - 3 PROVE ReadNtohU32(z, i) = ReadNtohU32(x, i)
  <2>1. i \in 1 .. l /\ i + 1 \in 1 .. l /\ i + 2 \in 1 .. l /\ i + 3 \in 1 .. l
    BY <1>1
  <2> QED BY <1>1, <2>1 DEF ReadNtohU32
<1>3. ASSUME NEW i \in 1 .. l - 1 PROVE ReadU16(z, i) = ReadU16(x, i)
  <2>1. i \in 1 .. l /\ i + 1 \in 1 .. l
    BY <1>1
  <2> QED BY <1>1, <2>1 DEF ReadU16
<1>4. ASSUME NEW i \in Nat \ {0}
      PROVE  ReadNtohU32(z, l + i) = ReadNtohU32(y, i) /\ ReadU16(z, l + i) = ReadU16(y, i)
  <2>1. /\ i + 1 \in Nat \ {0} /\ i + 2 \in Nat \ {0} /\ i + 3 \in Nat \ {0}
        /\ (l + i) + 1 = l + (i + 1) /\ (l + i) + 2 = l + (i + 2) /\ (l + i) + 3 = l + (i + 3)
    BY <1>1
  <2> QED BY <1>1, <2>1 DEF ReadNtohU32, ReadU16
<1> QED BY <1>2, <1>3, <1>4 DEF z, l

(* What is written is read.                                                *)
LEMMA WrittenU32 ==
  ASSUME NEW v \in U32
  PROVE  /\ WriteHtonU32(v) \in Seq(Bytes) /\ Len(WriteHtonU32(v)) = 4
         /\ ReadNtohU32(WriteHtonU32(v), 1) = v
<1>1. PICK b1, b2, b3, b4 \in Bytes :
        /\ WriteHtonU32(v) = <<b1, b2, b3, b4>>
        /\ ((b1 * Base + b2) * Base + b3) * Base + b4 = v
  BY FourBytes
<1> DEFINE s == <<b1, b2, b3, b4>>
<1>2. s \in Seq(Bytes) /\ Len(s) = 4
  OBVIOUS
<1>3. Byte(s, 1) = b1 /\ Byte(s, 1 + 1) = b2 /\ Byte(s, 1 + 2) = b3 /\ Byte(s, 1 + 3) = b4
  BY DEF Byte
<1> HIDE DEF s
<1>4. ReadNtohU32(s, 1) = v
  BY <1>1, <1>3 DEF ReadNtohU32
<1> QED BY <1>1, <1>2, <1>4 DEF s

LEMMA WrittenU16 ==
  ASSUME NEW v \in Nat, v < Base * Base
  PROVE  /\ WriteU16(v) \in Seq(Bytes) /\ Len(WriteU16(v)) = 2
         /\ ReadU16(WriteU16(v), 1) = v
<1>1. PICK b1, b2 \in Bytes : WriteU16(v) = <<b1, b2>> /\ b1 + Base * b2 = v
  BY TwoBytes
<1> DEFINE s == <<b1, b2>>
<1>2. s \in Seq(Bytes) /\ Len(s) = 2
  OBVIOUS
<1>3. Byte(s, 1) = b1 /\ Byte(s, 1 + 1) = b2
  BY DEF Byte
<1> HIDE DEF s
<1>4. ReadU16(s, 1) = v
  BY <1>1, <1>3 DEF ReadU16
<1> QED BY <1>1, <1>2, <1>4 DEF s

LEMMA WrittenU8 ==
  ASSUME NEW v \in Bytes
  PROVE  WriteU8(v) \in Seq(Bytes) /\ Len(WriteU8(v)) = 1 /\ Byte(WriteU8(v), 1) = v
BY DEF WriteU8, Byte

(* A pair takes eight bytes.                                               *)
LEMMA WrittenPair ==
  ASSUME NEW p \in Pairs
  PROVE  /\ SerializePair(p) \in Seq(Bytes) /\ Len(SerializePair(p)) = 8
         /\ DeserializePair(SerializePair(p), 1) = p
<1> DEFINE x == WriteHtonU32(p.addr)
           y == WriteHtonU32(p.cost)
<1>1. p.addr \in U32 /\ p.cost \in U32 /\ p = [addr |-> p.addr, cost |-> p.cost]
  BY DEF Pairs
<1>2. /\ x \in Seq(Bytes) /\ Len(x) = 4 /\ ReadNtohU32(x, 1) = p.addr
      /\ y \in Seq(Bytes) /\ Len(y) = 4 /\ ReadNtohU32(y, 1) = p.cost
  BY <1>1, WrittenU32
<1> HIDE DEF x, y
<1>3. x \o y \in Seq(Bytes) /\ Len(x \o y) = Len(x) + Len(y)
  BY <1>2, BytesOfPieces, Zenon
<1>4. \A i \in 1 .. Len(x) - 3 : ReadNtohU32(x \o y, i) = ReadNtohU32(x, i)
  BY <1>2, NumbersOfPieces, Zenon
<1>5. \A i \in Nat \ {0} : ReadNtohU32(x \o y, Len(x) + i) = ReadNtohU32(y, i)
  BY <1>2, NumbersOfPieces, Zenon
<1>6. 1 + 4 = 4 + 1
  OBVIOUS
<1>7. DeserializePair(x \o y, 1) = [addr |-> p.addr, cost |-> p.cost]
  BY <1>2, <1>4, <1>5, <1>6 DEF DeserializePair
<1>8. Len(x \o y) = 8
  BY <1>2, <1>3
<1>9. SerializePair(p) = x \o y
  BY DEF SerializePair, x, y
<1> QED BY <1>1, <1>3, <1>7, <1>8, <1>9

(* Pieces of eight bytes, one behind the other: FlattenSeq.                *)
Blocks(ss, S) ==
  /\ ss \in Seq(Seq(S))
  /\ \A k \in 1 .. Len(ss) : Len(ss[k]) = 8

FlattenBody(ss, f) ==
  [i \in 1 .. Len(ss) |-> IF i = 1 THEN ss[i] ELSE f[i - 1] \o ss[i]]

LEMMA FlattenExists ==
  ASSUME NEW S, NEW ss, Blocks(ss, S)
  PROVE  \E f : f = FlattenBody(ss, f)
<1> DEFINE At(j) == ss[((j - 1) \div 8) + 1][((j - 1) % 8) + 1]
           Upto(i) == [j \in 1 .. 8 * i |-> At(j)]
           f == [i \in 1 .. Len(ss) |-> Upto(i)]
<1>1. Len(ss) \in Nat /\ \A k \in 1 .. Len(ss) : ss[k] \in Seq(S) /\ Len(ss[k]) = 8
  BY DEF Blocks
<1>2. ASSUME NEW i \in 1 .. Len(ss), NEW j \in 8 * (i - 1) + 1 .. 8 * i
      PROVE  At(j) = ss[i][j - 8 * (i - 1)]
  <2>1. i \in Nat /\ ((j - 1) \div 8) + 1 = i /\ ((j - 1) % 8) + 1 = j - 8 * (i - 1)
    BY <1>1
  <2> QED BY <2>1
<1>3. ASSUME NEW i \in 1 .. Len(ss), NEW j \in 1 .. 8 * i PROVE At(j) \in S
  <2> DEFINE k == ((j - 1) \div 8) + 1
             m == ((j - 1) % 8) + 1
  <2>1. k \in 1 .. Len(ss) /\ m \in 1 .. 8
    BY <1>1
  <2> HIDE DEF k, m
  <2>2. ss[k][m] \in S
    BY <1>1, <2>1
  <2> QED BY <2>2 DEF k, m
<1> HIDE DEF At
<1>4. \A i \in 1 .. Len(ss) : Upto(i) \in Seq(S) /\ Len(Upto(i)) = 8 * i
  <2> TAKE i \in 1 .. Len(ss)
  <2>1. 8 * i \in Nat
    BY <1>1
  <2> QED BY <1>3, <2>1
<1>5. ASSUME NEW i \in 1 .. Len(ss) PROVE f[i] = FlattenBody(ss, f)[i]
  <2>1. CASE i = 1
    <3>1. ss[1] \in Seq(S) /\ Len(ss[1]) = 8
      BY <2>1, <1>1
    <3>2. Upto(1) \in Seq(S) /\ Len(Upto(1)) = 8
      BY <1>4, <2>1
    <3>3. \A j \in 1 .. 8 : Upto(1)[j] = ss[1][j]
      <4> TAKE j \in 1 .. 8
      <4>1. j \in 8 * (1 - 1) + 1 .. 8 * 1 /\ j - 8 * (1 - 1) = j
        OBVIOUS
      <4>2. At(j) = ss[1][j - 8 * (1 - 1)]
        BY <1>2, <2>1, <4>1
      <4> QED BY <4>1, <4>2
    <3>4. Upto(1) = ss[1]
      BY <3>1, <3>2, <3>3, SeqEqual
    <3> QED BY <2>1, <3>4 DEF FlattenBody
  <2>2. CASE i # 1
    <3> DEFINE u == Upto(i)
               v == Upto(i - 1)
               w == ss[i]
    <3>1. i - 1 \in 1 .. Len(ss) /\ i \in Nat
      BY <1>1, <2>2
    <3>2. /\ u \in Seq(S) /\ Len(u) = 8 * i
          /\ v \in Seq(S) /\ Len(v) = 8 * (i - 1)
          /\ w \in Seq(S) /\ Len(w) = 8
      BY <1>1, <1>4, <3>1
    <3>3. ASSUME NEW j \in 1 .. 8 * i
          PROVE u[j] = IF j <= Len(v) THEN v[j] ELSE w[j - Len(v)]
      <4>1. CASE j <= 8 * (i - 1)
        BY <3>1, <3>2, <4>1
      <4>2. CASE ~(j <= 8 * (i - 1))
        <5>1. j \in 8 * (i - 1) + 1 .. 8 * i
          BY <3>1, <4>2
        <5>2. At(j) = ss[i][j - 8 * (i - 1)]
          BY <1>2, <5>1
        <5> QED BY <5>2, <3>2, <4>2
      <4> QED BY <4>1, <4>2
    <3> HIDE DEF u, v, w
    <3>4. v \o w \in Seq(S) /\ Len(v \o w) = 8 * i
          /\ \A j \in 1 .. 8 * i : (v \o w)[j] = IF j <= Len(v) THEN v[j] ELSE w[j - Len(v)]
      <4>1. /\ v \o w \in Seq(S) /\ Len(v \o w) = Len(v) + Len(w)
            /\ \A j \in 1 .. Len(v) + Len(w) :
                 (v \o w)[j] = IF j <= Len(v) THEN v[j] ELSE w[j - Len(v)]
        BY <3>2, ConcatProperties
      <4>2. Len(v) + Len(w) = 8 * i
        BY <3>1, <3>2
      <4> QED BY <4>1, <4>2
    <3>5. u = v \o w
      BY <3>2, <3>3, <3>4, SeqEqual
    <3> QED BY <2>2, <3>1, <3>5 DEF FlattenBody, u, v, w
  <2> QED BY <2>1, <2>2
<1>6. f = FlattenBody(ss, f)
  BY <1>5 DEF FlattenBody
<1> QED BY <1>6

LEMMA FlattenBlocks ==
  ASSUME NEW S, NEW ss, Blocks(ss, S)
  PROVE  /\ FlattenSeq(ss) \in Seq(S)
         /\ Len(FlattenSeq(ss)) = 8 * Len(ss)
         /\ \A k \in 1 .. Len(ss) : \A j \in 1 .. 8 :
              FlattenSeq(ss)[8 * (k - 1) + j] = ss[k][j]
<1> DEFINE f == CHOOSE g : g = FlattenBody(ss, g)
           n == Len(ss)
<1>1. n \in Nat /\ \A k \in 1 .. n : ss[k] \in Seq(S) /\ Len(ss[k]) = 8
  BY DEF Blocks
<1>2. f = FlattenBody(ss, f)
  BY FlattenExists
<1>3. CASE n = 0
  <2>1. FlattenSeq(ss) = ss /\ ss = <<>>
    BY <1>3, EmptySeq DEF FlattenSeq, Blocks
  <2> QED BY <2>1, <1>3
<1>4. CASE n # 0
  <2>1. FlattenSeq(ss) = f[n]
    BY <1>4 DEF FlattenSeq, FlattenBody
  <2> HIDE DEF f
  <2>2. f[1] = ss[1] /\ \A i \in 1 .. n : i # 1 => f[i] = f[i - 1] \o ss[i]
    <3>1. \A i \in 1 .. n : f[i] = IF i = 1 THEN ss[i] ELSE f[i - 1] \o ss[i]
      BY <1>2 DEF FlattenBody
    <3>2. 1 \in 1 .. n
      BY <1>1, <1>4
    <3> HIDE DEF n
    <3>3. f[1] = ss[1]
      BY <3>1, <3>2
    <3> QED BY <3>1, <3>3
  <2> DEFINE Good(i) == /\ f[i] \in Seq(S) /\ Len(f[i]) = 8 * i
                        /\ \A k \in 1 .. i : \A j \in 1 .. 8 : f[i][8 * (k - 1) + j] = ss[k][j]
             T == {i \in Nat : i + 1 \in 1 .. n => Good(i + 1)}
  <2>3. 0 \in T
    <3>1. Good(1)
      <4>1. f[1] \in Seq(S) /\ Len(f[1]) = 8
        BY <1>1, <1>4, <2>2
      <4>2. ASSUME NEW k \in 1 .. 1, NEW j \in 1 .. 8 PROVE f[1][8 * (k - 1) + j] = ss[k][j]
        <5>1. k = 1 /\ 8 * (k - 1) + j = j
          OBVIOUS
        <5> QED BY <5>1, <2>2
      <4> QED BY <4>1, <4>2
    <3> QED BY <3>1
  <2>4. ASSUME NEW i \in Nat, i \in T PROVE i + 1 \in T
    <3> SUFFICES ASSUME (i + 1) + 1 \in 1 .. n PROVE Good((i + 1) + 1)
      OBVIOUS
    <3> DEFINE m == i + 1
               v == f[m]
               w == ss[m + 1]
    <3>1. m \in Nat /\ m \in 1 .. n /\ m + 1 \in 1 .. n /\ (m + 1) - 1 = m /\ m + 1 # 1
      BY <1>1
    <3>2. Good(m)
      BY <2>4, <3>1
    <3> HIDE DEF m
    <3>3. f[m + 1] = v \o w
      BY <2>2, <3>1
    <3>4. /\ v \in Seq(S) /\ Len(v) = 8 * m /\ w \in Seq(S) /\ Len(w) = 8
      BY <1>1, <3>1, <3>2
    <3>5. /\ v \o w \in Seq(S) /\ Len(v \o w) = Len(v) + Len(w)
          /\ \A j \in 1 .. Len(v) + Len(w) :
               (v \o w)[j] = IF j <= Len(v) THEN v[j] ELSE w[j - Len(v)]
      <4> HIDE DEF v, w
      <4> QED BY <3>4, ConcatProperties
    <3>6. ASSUME NEW k \in 1 .. m + 1, NEW j \in 1 .. 8
          PROVE  f[m + 1][8 * (k - 1) + j] = ss[k][j]
      <4>1. CASE k <= m
        <5>1. k \in 1 .. m /\ 8 * (k - 1) + j \in 1 .. 8 * m + 8 /\ 8 * (k - 1) + j <= 8 * m
          BY <3>1, <4>1
        <5>2. v[8 * (k - 1) + j] = ss[k][j]
          BY <3>2, <5>1
        <5> HIDE DEF v, w
        <5> QED BY <3>3, <3>4, <3>5, <5>1, <5>2
      <4>2. CASE k = m + 1
        <5> DEFINE x == 8 * (k - 1) + j
        <5>1. x \in 1 .. 8 * m + 8 /\ ~(x <= 8 * m) /\ x - 8 * m = j
          BY <3>1, <4>2
        <5> HIDE DEF v, w, x
        <5>2. (v \o w)[x] = w[x - 8 * m]
          BY <3>4, <3>5, <5>1
        <5> QED BY <3>3, <5>1, <5>2, <4>2 DEF x, w
      <4> QED BY <3>1, <4>1, <4>2
    <3>7. f[m + 1] \in Seq(S) /\ Len(f[m + 1]) = 8 * (m + 1)
      <4> HIDE DEF v, w
      <4> QED BY <3>1, <3>3, <3>4, <3>5
    <3> QED BY <3>6, <3>7 DEF m
  <2> HIDE DEF T
  <2>5. n - 1 \in T
    BY <1>1, <1>4, <2>3, <2>4, SetInduction
  <2>6. Good(n)
    <3>1. (n - 1) + 1 = n /\ n \in 1 .. n
      BY <1>1, <1>4
    <3>2. (n - 1) + 1 \in 1 .. n => Good((n - 1) + 1)
      BY <2>5 DEF T
    <3> QED BY <3>1, <3>2
  <2> QED BY <2>1, <2>6
<1> QED BY <1>3, <1>4

-----------------------------------------------------------------------------

(* The messages that the protocols and the application make: the fields    *)
(* that a class or a type lacks are as the constructor leaves them, and    *)
(* the lengths fit the length fields.                                      *)
WellFormed(m) ==
  /\ m \in Messages
  /\ Len(m.text) < Base * Base /\ Len(m.table) < Base * Base
  /\ IsTable(m) => ~IsApp(m) /\ m.dest = 0 /\ m.text = <<>>
  /\ ~IsTable(m) => m.table = <<>>
  /\ IsApp(m) => m.ttl = 0 /\ m.orig = 0 /\ m.dest = 0

LEMMA Fields ==
  ASSUME NEW m \in Messages
  PROVE  /\ m.class \in {"ls", "dv", "app"} /\ m.type \in 0 .. 4 /\ m.type \in Bytes
         /\ m.id \in U32 /\ m.ttl \in Bytes /\ m.orig \in U32 /\ m.dest \in U32
         /\ m.text \in Seq(Bytes) /\ m.table \in Seq(Pairs)
         /\ m = [class |-> m.class, type |-> m.type, id |-> m.id, ttl |-> m.ttl,
                 orig |-> m.orig, dest |-> m.dest, text |-> m.text, table |-> m.table]
<1>1. /\ m.class \in {"ls", "dv", "app"} /\ m.type \in 0 .. 4
      /\ m.id \in U32 /\ m.ttl \in Bytes /\ m.orig \in U32 /\ m.dest \in U32
      /\ m.text \in Seq(Bytes) /\ m.table \in Seq(Pairs)
      /\ m = [class |-> m.class, type |-> m.type, id |-> m.id, ttl |-> m.ttl,
              orig |-> m.orig, dest |-> m.dest, text |-> m.text, table |-> m.table]
  BY DEF Messages
<1>2. \A t \in 0 .. 4 : t \in Bytes
  BY BaseNat DEF Bytes
<1> QED BY <1>1, <1>2

(* A byte and a 32-bit number, as both halves of a header are.             *)
LEMMA HalfHeader ==
  ASSUME NEW t \in Bytes, NEW n \in U32
  PROVE  LET u == WriteU8(t) \o WriteHtonU32(n)
         IN  u \in Seq(Bytes) /\ Len(u) = 5 /\ Byte(u, 1) = t /\ ReadNtohU32(u, 2) = n
<1> DEFINE x == WriteU8(t)
           y == WriteHtonU32(n)
<1>1. /\ x \in Seq(Bytes) /\ Len(x) = 1 /\ Byte(x, 1) = t
      /\ y \in Seq(Bytes) /\ Len(y) = 4 /\ ReadNtohU32(y, 1) = n
  BY WrittenU8, WrittenU32
<1> HIDE DEF x, y
<1>2. /\ x \o y \in Seq(Bytes) /\ Len(x \o y) = Len(x) + Len(y)
      /\ \A i \in 1 .. Len(x) : Byte(x \o y, i) = Byte(x, i)
  BY <1>1, BytesOfPieces, Zenon
<1>3. \A i \in Nat \ {0} : ReadNtohU32(x \o y, Len(x) + i) = ReadNtohU32(y, i)
  BY <1>1, NumbersOfPieces, Zenon
<1>4. 1 \in 1 .. Len(x) /\ Len(x) + 1 = 2 /\ Len(x) + Len(y) = 5 /\ 1 \in Nat \ {0}
  BY <1>1
<1>5. ReadNtohU32(x \o y, 2) = n
  BY <1>1, <1>3, <1>4
<1>6. Byte(x \o y, 1) = t
  BY <1>1, <1>2, <1>4
<1> QED BY <1>2, <1>4, <1>5, <1>6 DEF x, y

LEMMA HeaderBytes ==
  ASSUME NEW m \in Messages
  PROVE  LET h == SerializeHeader(m)
         IN  /\ h \in Seq(Bytes) /\ Len(h) = HeaderSize(m.class)
             /\ Byte(h, 1) = m.type /\ ReadNtohU32(h, 2) = m.id
             /\ ~IsApp(m) => Byte(h, 6) = m.ttl /\ ReadNtohU32(h, 7) = m.orig
<1> DEFINE h == SerializeHeader(m)
           x == WriteU8(m.type) \o WriteHtonU32(m.id)
           y == WriteU8(m.ttl) \o WriteHtonU32(m.orig)
<1>1. /\ x \in Seq(Bytes) /\ Len(x) = 5 /\ Byte(x, 1) = m.type /\ ReadNtohU32(x, 2) = m.id
  <2>1. m.type \in Bytes /\ m.id \in U32
    BY Fields
  <2> QED BY <2>1, HalfHeader
<1>2. /\ y \in Seq(Bytes) /\ Len(y) = 5 /\ Byte(y, 1) = m.ttl /\ ReadNtohU32(y, 2) = m.orig
  <2>1. m.ttl \in Bytes /\ m.orig \in U32
    BY Fields
  <2> QED BY <2>1, HalfHeader
<1>3. h = x \o (IF IsApp(m) THEN <<>> ELSE y)
  BY DEF SerializeHeader
<1> HIDE DEF h, x, y
<1>4. CASE IsApp(m)
  <2>1. h = x
    BY <1>1, <1>3, <1>4, ConcatEmptySeq
  <2>2. HeaderSize(m.class) = 5
    BY <1>4 DEF HeaderSize, IsApp
  <2> QED BY <1>1, <1>4, <2>1, <2>2 DEF h
<1>5. CASE ~IsApp(m)
  <2>1. h = x \o y
    BY <1>3, <1>5
  <2>2. HeaderSize(m.class) = 10
    BY <1>5 DEF HeaderSize, IsApp
  <2>3. /\ x \o y \in Seq(Bytes) /\ Len(x \o y) = Len(x) + Len(y)
        /\ \A i \in 1 .. Len(x) : Byte(x \o y, i) = Byte(x, i)
        /\ \A i \in Nat \ {0} : Byte(x \o y, Len(x) + i) = Byte(y, i)
    BY <1>1, <1>2, BytesOfPieces, Zenon
  <2>4. /\ \A i \in 1 .. Len(x) - 3 : ReadNtohU32(x \o y, i) = ReadNtohU32(x, i)
        /\ \A i \in Nat \ {0} : ReadNtohU32(x \o y, Len(x) + i) = ReadNtohU32(y, i)
    BY <1>1, <1>2, NumbersOfPieces, Zenon
  <2>5. /\ 1 \in 1 .. Len(x) /\ 2 \in 1 .. Len(x) - 3 /\ 1 \in Nat \ {0} /\ 2 \in Nat \ {0}
        /\ Len(x) + 1 = 6 /\ Len(x) + 2 = 7 /\ Len(x) + Len(y) = 10
    BY <1>1, <1>2
  <2>6. Byte(h, 1) = m.type /\ Byte(h, 6) = m.ttl
    BY <1>1, <1>2, <2>1, <2>3, <2>5
  <2>7. ReadNtohU32(h, 2) = m.id /\ ReadNtohU32(h, 7) = m.orig
    BY <1>1, <1>2, <2>1, <2>4, <2>5
  <2>8. h \in Seq(Bytes) /\ Len(h) = 10
    BY <2>1, <2>3, <2>5
  <2> QED BY <2>2, <2>6, <2>7, <2>8 DEF h
<1> QED BY <1>4, <1>5

(* The payload of a ping or a hello.                                       *)
LEMMA TextBytes ==
  ASSUME NEW m, WellFormed(m), ~IsTable(m)
  PROVE  LET p == SerializePayload(m)
             a == AddressSize(m.class)
         IN  /\ p \in Seq(Bytes) /\ Len(p) = PayloadSize(m)
             /\ ~IsApp(m) => ReadNtohU32(p, 1) = m.dest
             /\ ReadU16(p, a + 1) = Len(m.text)
             /\ \A k \in 1 .. Len(m.text) : Byte(p, a + 2 + k) = m.text[k]
<1> DEFINE p == SerializePayload(m)
           a == AddressSize(m.class)
           d == IF IsApp(m) THEN <<>> ELSE WriteHtonU32(m.dest)
           l == WriteU16(Len(m.text))
           t == m.text
<1>1. t \in Seq(Bytes) /\ Len(t) \in Nat /\ Len(t) < Base * Base /\ m.dest \in U32
  BY Fields DEF WellFormed
<1>2. l \in Seq(Bytes) /\ Len(l) = 2 /\ ReadU16(l, 1) = Len(t)
  BY <1>1, WrittenU16
<1>3. d \in Seq(Bytes) /\ Len(d) = a /\ a \in Nat /\ (~IsApp(m) => a = 4 /\ ReadNtohU32(d, 1) = m.dest)
  <2>1. CASE IsApp(m)
    BY <2>1 DEF IsApp, AddressSize
  <2>2. CASE ~IsApp(m)
    BY <1>1, <2>2, WrittenU32 DEF IsApp, AddressSize
  <2> QED BY <2>1, <2>2
<1>4. p = (d \o l) \o t /\ PayloadSize(m) = a + 2 + Len(t)
  BY DEF SerializePayload, PayloadSize
<1> DEFINE q == d \o l
<1> HIDE DEF p, a, d, l, t
<1>5. /\ q \in Seq(Bytes) /\ Len(q) = Len(d) + Len(l)
  BY <1>2, <1>3, BytesOfPieces, Zenon
<1>6. /\ \A i \in 1 .. Len(d) - 3 : ReadNtohU32(q, i) = ReadNtohU32(d, i)
      /\ \A i \in Nat \ {0} : ReadU16(q, Len(d) + i) = ReadU16(l, i)
  BY <1>2, <1>3, NumbersOfPieces, Zenon
<1>7. Len(q) = a + 2
  BY <1>2, <1>3, <1>5
<1>8. /\ q \o t \in Seq(Bytes) /\ Len(q \o t) = Len(q) + Len(t)
      /\ \A i \in Nat \ {0} : Byte(q \o t, Len(q) + i) = Byte(t, i)
  <2> HIDE DEF q
  <2> QED BY <1>1, <1>5, BytesOfPieces, Zenon
<1>9. /\ \A i \in 1 .. Len(q) - 3 : ReadNtohU32(q \o t, i) = ReadNtohU32(q, i)
      /\ \A i \in 1 .. Len(q) - 1 : ReadU16(q \o t, i) = ReadU16(q, i)
  <2> HIDE DEF q
  <2> QED BY <1>1, <1>5, NumbersOfPieces, Zenon
<1> HIDE DEF q
<1>10. p \in Seq(Bytes) /\ Len(p) = PayloadSize(m)
  BY <1>1, <1>3, <1>4, <1>7, <1>8 DEF q
<1>11. p = q \o t
  BY <1>4 DEF q
<1>12. ASSUME ~IsApp(m) PROVE ReadNtohU32(p, 1) = m.dest
  <2>1. 1 \in 1 .. Len(d) - 3 /\ 1 \in 1 .. Len(q) - 3
    BY <1>3, <1>7, <1>12
  <2> QED BY <1>3, <1>6, <1>9, <1>11, <1>12, <2>1
<1>13. ReadU16(p, a + 1) = Len(t)
  <2>1. a + 1 \in 1 .. Len(q) - 1 /\ Len(d) + 1 = a + 1 /\ 1 \in Nat \ {0}
    BY <1>3, <1>7
  <2>2. ReadU16(p, a + 1) = ReadU16(q, a + 1)
    BY <1>9, <1>11, <2>1
  <2>3. ReadU16(q, a + 1) = ReadU16(l, 1)
    BY <1>6, <2>1
  <2> QED BY <1>2, <2>2, <2>3
<1>14. ASSUME NEW k \in 1 .. Len(t) PROVE Byte(p, a + 2 + k) = t[k]
  <2>1. k \in Nat \ {0} /\ k \in DOMAIN t
    BY <1>1
  <2>2. Byte(p, a + 2 + k) = Byte(t, k)
    BY <1>7, <1>8, <1>11, <2>1
  <2> QED BY <2>1, <2>2 DEF Byte
<1> QED BY <1>10, <1>12, <1>13, <1>14 DEF p, a, t

(* The payload of a table message.                                         *)
LEMMA TableBytes ==
  ASSUME NEW m, WellFormed(m), IsTable(m)
  PROVE  LET p == SerializePayload(m)
         IN  /\ p \in Seq(Bytes) /\ Len(p) = PayloadSize(m)
             /\ ReadU16(p, 1) = Len(m.table)
             /\ \A k \in 1 .. Len(m.table) : \A j \in 1 .. 8 :
                  Byte(p, 2 + 8 * (k - 1) + j) = Byte(SerializePair(m.table[k]), j)
<1> DEFINE p == SerializePayload(m)
           l == WriteU16(Len(m.table))
           t == m.table
           ss == [k \in DOMAIN m.table |-> SerializePair(m.table[k])]
           q == FlattenSeq(ss)
<1>1. t \in Seq(Pairs) /\ Len(t) \in Nat /\ Len(t) < Base * Base /\ DOMAIN t = 1 .. Len(t)
  BY Fields DEF WellFormed
<1>2. l \in Seq(Bytes) /\ Len(l) = 2 /\ ReadU16(l, 1) = Len(t)
  BY <1>1, WrittenU16
<1>3. \A k \in 1 .. Len(t) : t[k] \in Pairs
  BY <1>1
<1>4. /\ ss \in Seq(Seq(Bytes)) /\ Len(ss) = Len(t)
      /\ \A k \in 1 .. Len(t) : ss[k] = SerializePair(t[k]) /\ Len(ss[k]) = 8 /\ ss[k] \in Seq(Bytes)
  BY <1>1, <1>3, WrittenPair
<1>5. p = l \o q /\ PayloadSize(m) = 2 + 8 * Len(t)
  BY DEF SerializePayload, PayloadSize
<1> HIDE DEF p, l, t, ss
<1>6. Blocks(ss, Bytes)
  BY <1>4 DEF Blocks
<1>7. /\ q \in Seq(Bytes) /\ Len(q) = 8 * Len(ss)
      /\ \A k \in 1 .. Len(ss) : \A j \in 1 .. 8 : q[8 * (k - 1) + j] = ss[k][j]
  BY <1>6, FlattenBlocks
<1> HIDE DEF q
<1>8. /\ l \o q \in Seq(Bytes) /\ Len(l \o q) = Len(l) + Len(q)
      /\ \A i \in Nat \ {0} : Byte(l \o q, Len(l) + i) = Byte(q, i)
  BY <1>2, <1>7, BytesOfPieces, Zenon
<1>9. \A i \in 1 .. Len(l) - 1 : ReadU16(l \o q, i) = ReadU16(l, i)
  BY <1>2, <1>7, NumbersOfPieces, Zenon
<1>10. p \in Seq(Bytes) /\ Len(p) = PayloadSize(m)
  BY <1>1, <1>2, <1>4, <1>5, <1>7, <1>8
<1>11. ReadU16(p, 1) = Len(t)
  <2>1. 1 \in 1 .. Len(l) - 1
    BY <1>2
  <2> QED BY <1>2, <1>5, <1>9, <2>1
<1>12. ASSUME NEW k \in 1 .. Len(t), NEW j \in 1 .. 8
       PROVE  Byte(p, 2 + 8 * (k - 1) + j) = Byte(SerializePair(t[k]), j)
  <2> DEFINE i == 8 * (k - 1) + j
  <2>1. i \in Nat \ {0} /\ i \in 1 .. 8 * Len(t) /\ 2 + 8 * (k - 1) + j = Len(l) + i
    BY <1>1, <1>2
  <2>2. q[i] = ss[k][j]
    BY <1>4, <1>7
  <2> HIDE DEF i
  <2>3. i \in DOMAIN q /\ j \in DOMAIN ss[k]
    <3>1. DOMAIN q = 1 .. 8 * Len(t)
      BY <1>4, <1>7
    <3>2. DOMAIN ss[k] = 1 .. 8
      BY <1>4
    <3> QED BY <2>1, <3>1, <3>2
  <2>4. Byte(p, 2 + 8 * (k - 1) + j) = Byte(q, i)
    BY <1>5, <1>8, <2>1
  <2>5. Byte(q, i) = Byte(ss[k], j)
    BY <2>2, <2>3 DEF Byte
  <2> QED BY <1>4, <2>4, <2>5
<1> QED BY <1>10, <1>11, <1>12 DEF p, t

(* The bytes of a whole message: as many as GetSerializedSize() says.      *)
LEMMA MessageBytes ==
  ASSUME NEW m, WellFormed(m)
  PROVE  LET b == Serialize(m)
             n == HeaderSize(m.class)
             p == SerializePayload(m)
         IN  /\ b \in Seq(Bytes) /\ Len(b) = GetSerializedSize(m)
             /\ AddHeader(m) = b
             /\ n \in {5, 10} /\ Len(p) = PayloadSize(m) /\ PayloadSize(m) \in Nat
             /\ Byte(b, 1) = m.type /\ ReadNtohU32(b, 2) = m.id
             /\ ~IsApp(m) => Byte(b, 6) = m.ttl /\ ReadNtohU32(b, 7) = m.orig
             /\ \A i \in Nat \ {0} : /\ Byte(b, n + i) = Byte(p, i)
                                     /\ ReadU16(b, n + i) = ReadU16(p, i)
                                     /\ ReadNtohU32(b, n + i) = ReadNtohU32(p, i)
<1> DEFINE h == SerializeHeader(m)
           p == SerializePayload(m)
           b == h \o p
           n == HeaderSize(m.class)
<1>1. m \in Messages
  BY DEF WellFormed
<1>2. /\ h \in Seq(Bytes) /\ Len(h) = n
      /\ Byte(h, 1) = m.type /\ ReadNtohU32(h, 2) = m.id
      /\ ~IsApp(m) => Byte(h, 6) = m.ttl /\ ReadNtohU32(h, 7) = m.orig
  BY <1>1, HeaderBytes
<1>3. p \in Seq(Bytes) /\ Len(p) = PayloadSize(m)
  BY TextBytes, TableBytes
<1>4. n \in {5, 10} /\ (~IsApp(m) => n = 10)
  BY DEF HeaderSize, IsApp
<1>5. Serialize(m) = b /\ GetSerializedSize(m) = n + PayloadSize(m)
  BY DEF Serialize, GetSerializedSize
<1> HIDE DEF h, p, n
<1>6. /\ b \in Seq(Bytes) /\ Len(b) = Len(h) + Len(p)
      /\ \A i \in 1 .. Len(h) : Byte(b, i) = Byte(h, i)
      /\ \A i \in Nat \ {0} : Byte(b, Len(h) + i) = Byte(p, i)
  BY <1>2, <1>3, BytesOfPieces, Zenon
<1>7. /\ \A i \in 1 .. Len(h) - 3 : ReadNtohU32(b, i) = ReadNtohU32(h, i)
      /\ \A i \in Nat \ {0} : ReadNtohU32(b, Len(h) + i) = ReadNtohU32(p, i)
      /\ \A i \in Nat \ {0} : ReadU16(b, Len(h) + i) = ReadU16(p, i)
  BY <1>2, <1>3, NumbersOfPieces, Zenon
<1> HIDE DEF b
<1>8. 1 \in 1 .. Len(h) /\ 2 \in 1 .. Len(h) - 3
  BY <1>2, <1>4
<1>9. ~IsApp(m) => 6 \in 1 .. Len(h) /\ 7 \in 1 .. Len(h) - 3
  BY <1>2, <1>4
<1>10. Byte(b, 1) = m.type /\ ReadNtohU32(b, 2) = m.id
  BY <1>2, <1>6, <1>7, <1>8
<1>11. ~IsApp(m) => Byte(b, 6) = m.ttl /\ ReadNtohU32(b, 7) = m.orig
  BY <1>2, <1>6, <1>7, <1>9
<1>12. \A i \in Nat \ {0} : /\ Byte(b, n + i) = Byte(p, i)
                            /\ ReadU16(b, n + i) = ReadU16(p, i)
                            /\ ReadNtohU32(b, n + i) = ReadNtohU32(p, i)
  BY <1>2, <1>6, <1>7
<1>13. Len(b) = GetSerializedSize(m) /\ PayloadSize(m) \in Nat
  BY <1>2, <1>3, <1>5, <1>6
<1>14. AddHeader(m) = b
  <2>1. AddHeader(m) = [i \in 1 .. Len(b) |-> Byte(b, i)]
    BY <1>5, <1>13 DEF AddHeader
  <2>2. b = [i \in 1 .. Len(b) |-> b[i]] /\ \A i \in 1 .. Len(b) : i \in DOMAIN b
    BY <1>6
  <2>3. \A i \in 1 .. Len(b) : Byte(b, i) = b[i]
    BY <2>2 DEF Byte
  <2> QED BY <2>1, <2>2, <2>3
<1> QED BY <1>3, <1>4, <1>5, <1>6, <1>10, <1>11, <1>12, <1>13, <1>14 DEF n, p

(* A table entry is read from wherever its eight bytes stand.              *)
LEMMA PairAt ==
  ASSUME NEW p \in Pairs, NEW b, NEW i \in Nat,
         \A j \in 1 .. 8 : Byte(b, i + j) = Byte(SerializePair(p), j)
  PROVE  DeserializePair(b, i + 1) = p
<1> DEFINE c == SerializePair(p)
<1>1. DeserializePair(c, 1) = p
  BY WrittenPair
<1> HIDE DEF c
<1>2. \A j \in 1 .. 8 : Byte(b, i + j) = Byte(c, j)
  BY DEF c
<1>3. ReadNtohU32(b, i + 1) = ReadNtohU32(c, 1)
  <2>1. (i + 1) + 1 = i + 2 /\ (i + 1) + 2 = i + 3 /\ (i + 1) + 3 = i + 4
    OBVIOUS
  <2> QED BY <1>2, <2>1 DEF ReadNtohU32
<1>4. ReadNtohU32(b, (i + 1) + 4) = ReadNtohU32(c, 1 + 4)
  <2>1. /\ (i + 1) + 4 = i + 5 /\ (i + 5) + 1 = i + 6
        /\ (i + 5) + 2 = i + 7 /\ (i + 5) + 3 = i + 8 /\ 1 + 4 = 5
    OBVIOUS
  <2> QED BY <1>2, <2>1 DEF ReadNtohU32
<1> QED BY <1>1, <1>3, <1>4 DEF DeserializePair

(* Deserialize is the inverse of Serialize.                                *)
THEOREM ReadsWhatWasWritten ==
  ASSUME NEW m, WellFormed(m)
  PROVE  Deserialize(Blank(m.class), Serialize(m)) = m
<1> DEFINE b == Serialize(m)
           n == HeaderSize(m.class)
           p == SerializePayload(m)
           g == DeserializeHeader(Blank(m.class), b)
<1>1. /\ n \in {5, 10}
      /\ Byte(b, 1) = m.type /\ ReadNtohU32(b, 2) = m.id
      /\ ~IsApp(m) => Byte(b, 6) = m.ttl /\ ReadNtohU32(b, 7) = m.orig
      /\ \A i \in Nat \ {0} : /\ Byte(b, n + i) = Byte(p, i)
                              /\ ReadU16(b, n + i) = ReadU16(p, i)
                              /\ ReadNtohU32(b, n + i) = ReadNtohU32(p, i)
  BY MessageBytes
<1>2. /\ m \in Messages /\ m.text \in Seq(Bytes) /\ m.table \in Seq(Pairs)
      /\ m = [class |-> m.class, type |-> m.type, id |-> m.id, ttl |-> m.ttl,
              orig |-> m.orig, dest |-> m.dest, text |-> m.text, table |-> m.table]
  BY Fields DEF WellFormed
<1> HIDE DEF b, p, n
<1>3. g = [class |-> m.class, type |-> m.type, id |-> m.id, ttl |-> m.ttl,
           orig |-> m.orig, dest |-> 0, text |-> <<>>, table |-> <<>>]
  <2> DEFINE z == Blank(m.class)
             ttl == IF IsApp(z) THEN z.ttl ELSE Byte(b, 6)
             orig == IF IsApp(z) THEN z.orig ELSE ReadNtohU32(b, 7)
  <2>1. z = [class |-> m.class, type |-> 0, id |-> 0, ttl |-> 0, orig |-> 0,
             dest |-> 0, text |-> <<>>, table |-> <<>>]
    BY DEF Blank
  <2>2. (IsApp(z) <=> IsApp(m)) /\ z.ttl = 0 /\ z.orig = 0
    BY <2>1 DEF IsApp
  <2>3. g = [z EXCEPT !.type = m.type, !.id = m.id, !.ttl = ttl, !.orig = orig]
    <3> HIDE DEF z
    <3> QED BY <1>1 DEF DeserializeHeader, z
  <2>4. IsApp(m) => m.ttl = 0 /\ m.orig = 0
    BY DEF WellFormed
  <2> HIDE DEF g, z
  <2>5. ttl = m.ttl /\ orig = m.orig
    BY <1>1, <2>2, <2>4
  <2> HIDE DEF ttl, orig
  <2> QED BY <2>1, <2>3, <2>5
<1>4. /\ (IsApp(g) <=> IsApp(m)) /\ (IsTable(g) <=> IsTable(m)) /\ g.class = m.class
  BY <1>3 DEF IsApp, IsTable
<1>5. Deserialize(Blank(m.class), b) = DeserializePayload(g, b)
  BY DEF Deserialize
<1>6. CASE IsTable(m)
  <2> DEFINE s == [k \in 1 .. ReadU16(b, n + 1) |-> DeserializePair(b, n + 1 + 2 + 8 * (k - 1))]
  <2>1. DeserializePayload(g, b) = [g EXCEPT !.table = @ \o s]
    BY <1>4, <1>6 DEF DeserializePayload, n
  <2>2. /\ ReadU16(p, 1) = Len(m.table)
        /\ \A k \in 1 .. Len(m.table) : \A j \in 1 .. 8 :
             Byte(p, 2 + 8 * (k - 1) + j) = Byte(SerializePair(m.table[k]), j)
    BY <1>6, TableBytes DEF p
  <2>3. ReadU16(b, n + 1) = Len(m.table)
    <3>1. 1 \in Nat \ {0}
      OBVIOUS
    <3> QED BY <1>1, <2>2, <3>1
  <2>4. ASSUME NEW k \in 1 .. Len(m.table)
        PROVE  DeserializePair(b, n + 1 + 2 + 8 * (k - 1)) = m.table[k]
    <3> DEFINE i == n + 2 + 8 * (k - 1)
    <3>1. i \in Nat /\ n + 1 + 2 + 8 * (k - 1) = i + 1 /\ m.table[k] \in Pairs
      BY <1>1, <1>2
    <3>2. ASSUME NEW j \in 1 .. 8 PROVE Byte(b, i + j) = Byte(SerializePair(m.table[k]), j)
      <4> DEFINE x == 2 + 8 * (k - 1) + j
      <4>1. x \in Nat \ {0} /\ i + j = n + x
        <5>1. n \in Nat /\ k \in Nat /\ k >= 1 /\ j \in Nat /\ j >= 1
          BY <1>1, <1>2
        <5> QED BY <5>1
      <4>2. Byte(p, x) = Byte(SerializePair(m.table[k]), j)
        BY <2>2
      <4> HIDE DEF x
      <4> QED BY <1>1, <4>1, <4>2
    <3> HIDE DEF i
    <3>3. DeserializePair(b, i + 1) = m.table[k]
      <4> DEFINE c == m.table[k]
      <4>1. c \in Pairs /\ \A j \in 1 .. 8 : Byte(b, i + j) = Byte(SerializePair(c), j)
        BY <3>1, <3>2
      <4> HIDE DEF c
      <4>2. DeserializePair(b, i + 1) = c
        BY <3>1, <4>1, PairAt
      <4> QED BY <4>2 DEF c
    <3> QED BY <3>1, <3>3
  <2>5. s = m.table
    <3>1. s = [k \in 1 .. Len(m.table) |-> m.table[k]]
      BY <2>3, <2>4
    <3>2. m.table = [k \in 1 .. Len(m.table) |-> m.table[k]]
      BY <1>2
    <3> QED BY <3>1, <3>2
  <2> HIDE DEF s
  <2>6. <<>> \o s = m.table
    BY <1>2, <2>5, ConcatEmptySeq
  <2>7. m.dest = 0 /\ m.text = <<>>
    BY <1>6 DEF WellFormed
  <2>8. [g EXCEPT !.table = @ \o s] = m
    <3>1. [g EXCEPT !.table = @ \o s] =
            [class |-> m.class, type |-> m.type, id |-> m.id, ttl |-> m.ttl,
             orig |-> m.orig, dest |-> 0, text |-> <<>>, table |-> <<>> \o s]
      <4> HIDE DEF g
      <4> QED BY <1>3
    <3> QED BY <1>2, <2>6, <2>7, <3>1
  <2> QED BY <1>5, <2>1, <2>8 DEF b
<1>7. CASE ~IsTable(m)
  <2> DEFINE a == AddressSize(m.class)
             s == [k \in 1 .. ReadU16(b, n + 1 + a) |-> Byte(b, n + 1 + a + 2 + k - 1)]
             d == IF IsApp(m) THEN 0 ELSE ReadNtohU32(b, n + 1)
  <2>1. DeserializePayload(g, b) = [g EXCEPT !.dest = IF IsApp(m) THEN @ ELSE ReadNtohU32(b, n + 1),
                                             !.text = s]
    BY <1>4, <1>7 DEF DeserializePayload, n
  <2>2. /\ ~IsApp(m) => ReadNtohU32(p, 1) = m.dest
        /\ ReadU16(p, a + 1) = Len(m.text)
        /\ \A k \in 1 .. Len(m.text) : Byte(p, a + 2 + k) = m.text[k]
    BY <1>7, TextBytes DEF p
  <2>3. a \in Nat
    BY DEF AddressSize
  <2>4. d = m.dest
    <3>1. IsApp(m) => m.dest = 0
      BY DEF WellFormed
    <3>2. 1 \in Nat \ {0}
      OBVIOUS
    <3> QED BY <1>1, <2>2, <3>1, <3>2
  <2> HIDE DEF a
  <2>5. ReadU16(b, n + 1 + a) = Len(m.text)
    <3>1. a + 1 \in Nat \ {0} /\ n + 1 + a = n + (a + 1)
      BY <1>1, <2>3
    <3> QED BY <1>1, <2>2, <3>1
  <2>6. ASSUME NEW k \in 1 .. Len(m.text) PROVE Byte(b, n + 1 + a + 2 + k - 1) = m.text[k]
    <3> DEFINE x == a + 2 + k
    <3>1. x \in Nat \ {0} /\ n + 1 + a + 2 + k - 1 = n + x
      BY <1>1, <1>2, <2>3
    <3>2. Byte(p, x) = m.text[k]
      BY <2>2
    <3> HIDE DEF x
    <3> QED BY <1>1, <3>1, <3>2
  <2>7. s = m.text
    <3>1. s = [k \in 1 .. Len(m.text) |-> m.text[k]]
      BY <2>5, <2>6
    <3>2. m.text = [k \in 1 .. Len(m.text) |-> m.text[k]]
      BY <1>2
    <3> QED BY <3>1, <3>2
  <2> HIDE DEF s
  <2>8. m.table = <<>>
    BY <1>7 DEF WellFormed
  <2>9. DeserializePayload(g, b) =
          [class |-> m.class, type |-> m.type, id |-> m.id, ttl |-> m.ttl,
           orig |-> m.orig, dest |-> d, text |-> s, table |-> <<>>]
    <3> HIDE DEF g
    <3> QED BY <1>3, <2>1
  <2> QED BY <1>2, <1>5, <2>4, <2>7, <2>8, <2>9 DEF b
<1> QED BY <1>6, <1>7

-----------------------------------------------------------------------------

(* What message m has kept of the first one.                               *)
Keeps(m) ==
  /\ m.id = origin.id /\ m.text = origin.text /\ m.table = origin.table
  /\ m.type # PING_RSP => m.orig = origin.orig
  /\ m.type = PING_RSP /\ ~IsApp(m) => m.dest = origin.orig

(* The inductive invariant: the message in the packet is well formed and   *)
(* has kept its content, and the packet holds its bytes.                   *)
FormatInv ==
  /\ WellFormed(origin) /\ WellFormed(message)
  /\ received \in Messages
  /\ hops \in 0 .. MaxHops
  /\ packet \in {<<>>, Serialize(message)}
  /\ Keeps(message)
  /\ hops > 0 => Keeps(received)

(* The values of a field that a message lacks, and a TTL of 1.             *)
LEMMA ZeroFits == 0 < Base * Base /\ 0 \in U32 /\ 0 \in Bytes /\ 1 \in Bytes
<1> DEFINE b == Base * Base
<1>1. Base \in Nat /\ Base > 4 /\ 0 \in Bytes /\ 1 \in Bytes
  BY BaseNat DEF Bytes
<1>2. b \in Nat /\ b > 0 /\ Base * Base * Base * Base = b * b
  BY <1>1
<1> HIDE DEF b
<1>3. b * b \in Nat /\ b * b > 0
  BY <1>2
<1> QED BY <1>1, <1>2, <1>3 DEF U32, b

(* The messages that start a journey are well formed.                      *)
LEMMA OriginsWellFormed ==
  ASSUME NEW o \in Origins
  PROVE  WellFormed(o) /\ o.type # PING_RSP
<1>1. /\ 0 < Base * Base /\ 0 \in U32 /\ 0 \in Bytes /\ 1 \in Bytes
      /\ MaxTTL \in Bytes /\ Ids \subseteq U32 /\ Addresses \subseteq U32
      /\ Texts \subseteq Seq(Bytes) /\ Tables \subseteq Seq(Pairs)
      /\ \A t \in Texts : Len(t) < Base * Base
      /\ \A t \in Tables : Len(t) < Base * Base
  BY ZeroFits, FormatAssumption
<1>2. o \in Messages
  <2> DEFINE e == <<>>
  <2>1. /\ e \in Seq(Bytes) /\ e \in Seq(Pairs)
        /\ PING_REQ \in 0 .. 4 /\ HELLO_REQ \in 0 .. 4 /\ TABLE_MSG \in 0 .. 4
    BY DEF PING_REQ, HELLO_REQ, TABLE_MSG
  <2>2. \E k \in {"ls", "dv", "app"}, y \in {PING_REQ, HELLO_REQ, TABLE_MSG},
            l \in {MaxTTL, 1, 0}, a \in Addresses \cup {0}, d \in Addresses \cup {0},
            t \in Texts \cup {e}, tb \in Tables \cup {e}, i \in Ids :
          o = [class |-> k, type |-> y, id |-> i, ttl |-> l, orig |-> a, dest |-> d,
               text |-> t, table |-> tb]
    BY DEF Origins
  <2> HIDE DEF e
  <2> QED BY <1>1, <2>1, <2>2 DEF Messages
<1>3. Len(o.text) < Base * Base /\ Len(o.table) < Base * Base
  BY <1>1 DEF Origins
<1> QED BY <1>2, <1>3
     DEF Origins, WellFormed, IsApp, IsTable, PING_REQ, PING_RSP, HELLO_REQ, TABLE_MSG

(* What a handler passes on is well formed and has the same content.       *)
LEMMA PassedOnWellFormed ==
  ASSUME NEW m, WellFormed(m), Keeps(m), NEW address \in Addresses,
         NEW r \in PassedOn(m, address)
  PROVE  WellFormed(r) /\ Keeps(r)
<1>1. /\ m \in Messages
      /\ m = [class |-> m.class, type |-> m.type, id |-> m.id, ttl |-> m.ttl,
              orig |-> m.orig, dest |-> m.dest, text |-> m.text, table |-> m.table]
      /\ m.class \in {"ls", "dv", "app"} /\ m.type \in 0 .. 4 /\ m.type \in Bytes
      /\ m.id \in U32 /\ m.ttl \in Bytes /\ m.orig \in U32 /\ m.dest \in U32
      /\ m.text \in Seq(Bytes) /\ m.table \in Seq(Pairs)
  BY Fields DEF WellFormed
<1>2. CASE m.class = "ls" /\ IsTable(m)
  <2>1. NextTTL(m.ttl) \in Bytes
    BY <1>1, BaseNat DEF NextTTL, Bytes
  <2>2. r = [m EXCEPT !.ttl = NextTTL(m.ttl)]
    BY <1>2 DEF PassedOn
  <2>3. r = [class |-> m.class, type |-> m.type, id |-> m.id, ttl |-> NextTTL(m.ttl),
             orig |-> m.orig, dest |-> m.dest, text |-> m.text, table |-> m.table]
    BY <1>1, <2>2
  <2> QED BY <1>1, <1>2, <2>1, <2>3 DEF WellFormed, Keeps, Messages, IsApp, IsTable
<1>3. CASE ~(m.class = "ls" /\ IsTable(m)) /\ m.type = PING_REQ /\ IsApp(m)
  <2>1. r = [m EXCEPT !.type = PING_RSP]
    BY <1>3 DEF PassedOn
  <2>2. r = [class |-> m.class, type |-> PING_RSP, id |-> m.id, ttl |-> m.ttl,
             orig |-> m.orig, dest |-> m.dest, text |-> m.text, table |-> m.table]
    BY <1>1, <2>1
  <2> QED BY <1>1, <1>3, <2>2
       DEF WellFormed, Keeps, Messages, IsApp, IsTable, PING_REQ, PING_RSP, TABLE_MSG
<1>4. CASE ~(m.class = "ls" /\ IsTable(m)) /\ m.type = PING_REQ /\ ~IsApp(m)
  <2>1. r = [m EXCEPT !.type = PING_RSP, !.ttl = MaxTTL, !.orig = address, !.dest = m.orig]
    BY <1>4 DEF PassedOn
  <2>2. r = [class |-> m.class, type |-> PING_RSP, id |-> m.id, ttl |-> MaxTTL,
             orig |-> address, dest |-> m.orig, text |-> m.text, table |-> m.table]
    BY <1>1, <2>1
  <2>3. MaxTTL \in Bytes /\ address \in U32
    BY FormatAssumption
  <2> QED BY <1>1, <1>4, <2>2, <2>3
       DEF WellFormed, Keeps, Messages, IsApp, IsTable, PING_REQ, PING_RSP, TABLE_MSG
<1>5. (m.class = "ls" /\ IsTable(m)) \/ m.type = PING_REQ
  BY DEF PassedOn
<1> QED BY <1>2, <1>3, <1>4, <1>5

LEMMA BlankIsMessage ==
  ASSUME NEW c \in {"ls", "dv", "app"}
  PROVE  Blank(c) \in Messages
BY ZeroFits DEF Blank, Messages

LEMMA FormatInvInit == Init => FormatInv
<1> SUFFICES ASSUME Init PROVE FormatInv
  OBVIOUS
<1>1. WellFormed(origin) /\ origin.type # PING_RSP /\ message = origin
  BY OriginsWellFormed DEF Init
<1>2. AddHeader(origin) = Serialize(origin)
  BY <1>1, MessageBytes
<1>3. origin.class \in {"ls", "dv", "app"}
  BY <1>1, Fields DEF WellFormed
<1>4. received \in Messages
  BY <1>3, BlankIsMessage DEF Init
<1>5. MaxHops \in Nat
  BY FormatAssumption
<1> QED BY <1>1, <1>2, <1>4, <1>5 DEF Init, FormatInv, Keeps

(* What Receive reads is the message that was sent.                        *)
LEMMA FormatInvNext == FormatInv /\ [Receive]_vars => FormatInv'
<1> SUFFICES ASSUME FormatInv, [Receive]_vars PROVE FormatInv'
  OBVIOUS
<1>1. CASE UNCHANGED vars
  BY <1>1 DEF FormatInv, Keeps, vars
<1>2. CASE Receive
  <2>1. PICK address \in Addresses :
          /\ hops < MaxHops /\ packet # <<>>
          /\ received' = Deserialize(NewObject(message.class), packet)
          /\ hops' = hops + 1
          /\ origin' = origin
          /\ \/ \E m \in PassedOn(received', address) : Send(m)
             \/ packet' = <<>> /\ message' = message
    BY <1>2 DEF Receive
  <2>2. packet = Serialize(message) /\ WellFormed(message) /\ Keeps(message) /\ hops \in 0 .. MaxHops
    BY <2>1 DEF FormatInv
  <2>3. received' = message
    BY <2>1, <2>2, ReadsWhatWasWritten DEF NewObject
  <2>4. WellFormed(origin)' /\ received' \in Messages /\ hops' \in 0 .. MaxHops
    <3>1. WellFormed(origin)
      BY DEF FormatInv
    <3>2. WellFormed(origin')
      BY <2>1, <3>1
    <3>3. received' \in Messages
      BY <2>2, <2>3 DEF WellFormed
    <3>4. hops' \in 0 .. MaxHops
      BY <2>1, <2>2, FormatAssumption
    <3> QED BY <3>2, <3>3, <3>4
  <2>5. Keeps(received)'
    BY <2>1, <2>2, <2>3 DEF Keeps
  <2>6. CASE \E m \in PassedOn(received', address) : Send(m)
    <3>1. PICK m \in PassedOn(message, address) : Send(m)
      BY <2>3, <2>6
    <3>2. WellFormed(m) /\ Keeps(m)
      BY <2>2, <3>1, PassedOnWellFormed
    <3>3. message' = m /\ packet' = Serialize(m)
      BY <3>1, <3>2, MessageBytes DEF Send
    <3>4. WellFormed(message)' /\ Keeps(message)'
      BY <2>1, <3>2, <3>3 DEF Keeps
    <3> QED BY <2>4, <2>5, <3>3, <3>4 DEF FormatInv
  <2>7. CASE packet' = <<>> /\ message' = message
    <3>1. WellFormed(message)' /\ Keeps(message)'
      BY <2>1, <2>2, <2>7 DEF Keeps
    <3> QED BY <2>4, <2>5, <2>7, <3>1 DEF FormatInv
  <2> QED BY <2>1, <2>6, <2>7
<1> QED BY <1>1, <1>2

LEMMA FormatInvHolds == Spec => []FormatInv
BY FormatInvInit, FormatInvNext, PTL DEF Spec

(* Every field of every message, sent or received, fits its width: also    *)
(* the TTL, which ProcessLSTableMessage lets wrap around, and the bytes of *)
(* the packet.                                                             *)
THEOREM FormatTypes == Spec => []TypeOK
<1>1. FormatInv => TypeOK
  <2> SUFFICES ASSUME FormatInv PROVE TypeOK
    OBVIOUS
  <2>1. <<>> \in Seq(Bytes) /\ Serialize(message) \in Seq(Bytes)
    BY MessageBytes DEF FormatInv
  <2>2. packet \in Seq(Bytes)
    BY <2>1 DEF FormatInv
  <2> QED BY <2>2 DEF FormatInv, WellFormed, TypeOK
<1> QED BY <1>1, FormatInvHolds, PTL

(* Whatever is in a packet, Deserialize reads the message it was made of:  *)
(* for every base, number, text and table that fits its width.             *)
THEOREM Reading == Spec => []RoundTrip
<1>1. FormatInv => RoundTrip
  BY ReadsWhatWasWritten DEF FormatInv, RoundTrip, NewObject
<1> QED BY <1>1, FormatInvHolds, PTL

(* GetSerializedSize() is the number of bytes Serialize() writes, and      *)
(* RemoveHeader() takes no more than that from the packet.                 *)
THEOREM Sizes == Spec => []SpaceSuffices
<1>1. FormatInv => SpaceSuffices
  <2> SUFFICES ASSUME FormatInv, packet # <<>>
               PROVE  packet = Serialize(message) /\ Consumed(message) <= Len(packet)
    BY DEF SpaceSuffices
  <2>1. packet = Serialize(message) /\ WellFormed(message)
    BY DEF FormatInv
  <2>2. /\ Len(packet) = GetSerializedSize(message)
        /\ HeaderSize(message.class) \in {5, 10} /\ PayloadSize(message) \in Nat
    BY <2>1, MessageBytes
  <2>3. Consumed(message) <= GetSerializedSize(message)
    BY <2>2 DEF Consumed, GetSerializedSize
  <2> QED BY <2>1, <2>2, <2>3
<1> QED BY <1>1, FormatInvHolds, PTL

(* A message that is flooded on, or answered, keeps its number, its text   *)
(* or its table, and the address of the node it came from.                 *)
THEOREM Contents == Spec => []ContentSurvives
<1>1. FormatInv => ContentSurvives
  BY DEF FormatInv, Keeps, ContentSurvives
<1> QED BY <1>1, FormatInvHolds, PTL
=============================================================================
