--------------------------- MODULE ChecksumProofs ---------------------------
(***************************************************************************)
(* Theorems about the checksum of a record, for every set of records,      *)
(* every chunk size and every burst of up to eight places.                 *)
(*                                                                         *)
(* A byte is taken apart into a word of bits.  There XOR is addition and a *)
(* step of the division by the polynomial is linear; calc_crc8(), which    *)
(* looks up eight steps at once, is the division.  So the remainder of     *)
(* what is read differs from that of what was stored by the remainder of   *)
(* the bits that rotted, and that one is not zero.                         *)
(***************************************************************************)
EXTENDS Checksum, FiniteSetTheorems, SequenceTheorems, WellFoundedInduction, TLAPS

-----------------------------------------------------------------------------
LEMMA LeastNumber ==
  ASSUME NEW S, S \subseteq Nat, S # {}
  PROVE  \E n \in S : \A m \in S : n <= m
<1>. DEFINE R == OpToRel(<, Nat)
<1>1. IsWellFoundedOn(R, Nat)
  BY NatLessThanWellFounded
<1>2. \A m, n \in Nat : m < n => <<m, n>> \in R
  BY DEF OpToRel
<1>. HIDE DEF R
<1>3. PICK n \in S : \A m \in S : <<m, n>> \notin R
  BY <1>1, WFMin
<1>4. \A m, k \in Nat : ~(m < k) => k <= m
  OBVIOUS
<1>. QED BY <1>2, <1>3, <1>4

(* A byte, bit by bit *)
Bit == {0, 1}
Word == [0..7 -> Bit]
Value(a) ==
  128 * a[7] + 64 * a[6] + 32 * a[5] + 16 * a[4] + 8 * a[3] + 4 * a[2] + 2 * a[1] + a[0]

(* ... and bits that are added *)
Plus(a, b) == (a + b) % 2
Sum8(a, b) == [k \in 0..7 |-> Plus(a[k], b[k])]

LEMMA PlusLaws ==
  ASSUME NEW a \in Bit, NEW b \in Bit, NEW c \in Bit
  PROVE  /\ Plus(a, b) \in Bit /\ Plus(a, b) = Plus(b, a)
         /\ Plus(Plus(a, b), c) = Plus(a, Plus(b, c))
         /\ Plus(a, 0) = a /\ Plus(a, a) = 0
BY DEF Plus, Bit

(* A word has eight bits, ... *)
LEMMA WordIs ==
  ASSUME NEW a \in Word
  PROVE  /\ a[7] \in Bit /\ a[6] \in Bit /\ a[5] \in Bit /\ a[4] \in Bit
         /\ a[3] \in Bit /\ a[2] \in Bit /\ a[1] \in Bit /\ a[0] \in Bit
BY DEF Word

LEMMA HighBit ==
  /\ \A v \in 0..255 : \E a \in Bit, r \in 0..127 : v = 128 * a + r
  /\ \A v \in 0..127 : \E a \in Bit, r \in 0..63 : v = 64 * a + r
  /\ \A v \in 0..63 : \E a \in Bit, r \in 0..31 : v = 32 * a + r
  /\ \A v \in 0..31 : \E a \in Bit, r \in 0..15 : v = 16 * a + r
  /\ \A v \in 0..15 : \E a \in Bit, r \in 0..7 : v = 8 * a + r
  /\ \A v \in 0..7 : \E a \in Bit, r \in 0..3 : v = 4 * a + r
  /\ \A v \in 0..3 : \E a \in Bit, r \in Bit : v = 2 * a + r
<1>1. ASSUME NEW n \in Nat, NEW v \in 0..(2 * n - 1)
      PROVE  \E a \in Bit, r \in 0..(n - 1) : v = n * a + r
  <2>1. CASE v < n
    <3>1. v \in 0..(n - 1) /\ 0 \in Bit /\ v = n * 0 + v
      BY <2>1 DEF Bit
    <3>. QED BY <3>1
  <2>2. CASE ~(v < n)
    <3>1. v - n \in 0..(n - 1) /\ 1 \in Bit /\ v = n * 1 + (v - n)
      BY <2>2 DEF Bit
    <3>. QED BY <3>1
  <2>. QED BY <2>1, <2>2
<1>2. /\ 2 * 128 - 1 = 255 /\ 2 * 64 - 1 = 127 /\ 2 * 32 - 1 = 63 /\ 2 * 16 - 1 = 31
      /\ 2 * 8 - 1 = 15 /\ 2 * 4 - 1 = 7 /\ 2 * 2 - 1 = 3 /\ 2 - 1 = 1 /\ 4 - 1 = 3
      /\ 128 - 1 = 127 /\ 64 - 1 = 63 /\ 32 - 1 = 31 /\ 16 - 1 = 15 /\ 8 - 1 = 7 /\ Bit = 0..1
  BY DEF Bit
<1>3. \A n \in Nat : \A v \in 0..(2 * n - 1) : \E a \in Bit, r \in 0..(n - 1) : v = n * a + r
  BY <1>1
<1>. QED BY <1>2, <1>3

(* Every byte is the value of a word. *)
LEMMA ByteIsValue ==
  ASSUME NEW v \in Byte
  PROVE  \E a \in Word : v = Value(a)
<1>1. PICK a7 \in Bit, r7 \in 0..127 : v = 128 * a7 + r7
  BY HighBit DEF Byte, Bit
<1>2. PICK a6 \in Bit, r6 \in 0..63 : r7 = 64 * a6 + r6
  BY HighBit DEF Bit
<1>3. PICK a5 \in Bit, r5 \in 0..31 : r6 = 32 * a5 + r5
  BY HighBit DEF Bit
<1>4. PICK a4 \in Bit, r4 \in 0..15 : r5 = 16 * a4 + r4
  BY HighBit DEF Bit
<1>5. PICK a3 \in Bit, r3 \in 0..7 : r4 = 8 * a3 + r3
  BY HighBit DEF Bit
<1>6. PICK a2 \in Bit, r2 \in 0..3 : r3 = 4 * a2 + r2
  BY HighBit DEF Bit
<1>7. PICK a1 \in Bit, a0 \in Bit : r2 = 2 * a1 + a0
  BY HighBit DEF Bit
<1>. DEFINE a == [k \in 0..7 |-> IF k = 7 THEN a7 ELSE IF k = 6 THEN a6 ELSE IF k = 5 THEN a5
                              ELSE IF k = 4 THEN a4 ELSE IF k = 3 THEN a3 ELSE IF k = 2 THEN a2
                              ELSE IF k = 1 THEN a1 ELSE a0]
<1>8. /\ a \in Word /\ a[7] = a7 /\ a[6] = a6 /\ a[5] = a5 /\ a[4] = a4
      /\ a[3] = a3 /\ a[2] = a2 /\ a[1] = a1 /\ a[0] = a0
  BY DEF Word
<1>. HIDE DEF a
<1>9. v = Value(a)
  BY <1>1, <1>2, <1>3, <1>4, <1>5, <1>6, <1>7, <1>8 DEF Value, Bit
<1>. QED BY <1>8, <1>9

(* The ^ of two bytes adds them bit by bit. *)
LEMMA XorWords ==
  ASSUME NEW x \in Word, NEW y \in Word
  PROVE  XorByte(Value(x), Value(y)) = Value(Sum8(x, y))
<1>20. PICK a7 \in Bit, a6 \in Bit, a5 \in Bit, a4 \in Bit, a3 \in Bit, a2 \in Bit, a1 \in Bit, a0 \in Bit :
        a7 = x[7] /\ a6 = x[6] /\ a5 = x[5] /\ a4 = x[4] /\ a3 = x[3] /\ a2 = x[2] /\ a1 = x[1] /\ a0 = x[0]
  BY WordIs
<1>21. PICK b7 \in Bit, b6 \in Bit, b5 \in Bit, b4 \in Bit, b3 \in Bit, b2 \in Bit, b1 \in Bit, b0 \in Bit :
        b7 = y[7] /\ b6 = y[6] /\ b5 = y[5] /\ b4 = y[4] /\ b3 = y[3] /\ b2 = y[2] /\ b1 = y[1] /\ b0 = y[0]
  BY WordIs
<1>1. PICK a : a = Value(x) /\ a = 128 * a7 + 64 * a6 + 32 * a5 + 16 * a4 + 8 * a3 + 4 * a2 + 2 * a1 + a0
  BY <1>20 DEF Value
<1>2. PICK b : b = Value(y) /\ b = 128 * b7 + 64 * b6 + 32 * b5 + 16 * b4 + 8 * b3 + 4 * b2 + 2 * b1 + b0
  BY <1>21 DEF Value
<1>3. /\ a \div 128 = a7 /\ a \div 64 = 2 * a7 + a6 /\ a \div 32 = 4 * a7 + 2 * a6 + a5
      /\ a \div 16 = 8 * a7 + 4 * a6 + 2 * a5 + a4
      /\ a \div 8 = 16 * a7 + 8 * a6 + 4 * a5 + 2 * a4 + a3
      /\ a \div 4 = 32 * a7 + 16 * a6 + 8 * a5 + 4 * a4 + 2 * a3 + a2
      /\ a \div 2 = 64 * a7 + 32 * a6 + 16 * a5 + 8 * a4 + 4 * a3 + 2 * a2 + a1
      /\ a \div 1 = a
  BY <1>1, SMTT(60) DEF Bit
<1>4. /\ b \div 128 = b7 /\ b \div 64 = 2 * b7 + b6 /\ b \div 32 = 4 * b7 + 2 * b6 + b5
      /\ b \div 16 = 8 * b7 + 4 * b6 + 2 * b5 + b4
      /\ b \div 8 = 16 * b7 + 8 * b6 + 4 * b5 + 2 * b4 + b3
      /\ b \div 4 = 32 * b7 + 16 * b6 + 8 * b5 + 4 * b4 + 2 * b3 + b2
      /\ b \div 2 = 64 * b7 + 32 * b6 + 16 * b5 + 8 * b4 + 4 * b3 + 2 * b2 + b1
      /\ b \div 1 = b
  BY <1>2, SMTT(60) DEF Bit
<1>5. 2^0 = 1 /\ 2^1 = 2 /\ 2^2 = 4 /\ 2^3 = 8 /\ 2^4 = 16 /\ 2^5 = 32 /\ 2^6 = 64 /\ 2^7 = 128
  OBVIOUS
<1>7. (a \div 128 + b \div 128) % 2 = Plus(a7, b7)
  BY <1>3, <1>4 DEF Plus
<1>13. (a \div 64 + b \div 64) % 2 = Plus(a6, b6)
  BY <1>3, <1>4 DEF Plus, Bit
<1>14. (a \div 32 + b \div 32) % 2 = Plus(a5, b5)
  BY <1>3, <1>4 DEF Plus, Bit
<1>15. (a \div 16 + b \div 16) % 2 = Plus(a4, b4)
  BY <1>3, <1>4 DEF Plus, Bit
<1>8. (a \div 8 + b \div 8) % 2 = Plus(a3, b3)
  BY <1>3, <1>4 DEF Plus, Bit
<1>9. (a \div 4 + b \div 4) % 2 = Plus(a2, b2)
  BY <1>3, <1>4 DEF Plus, Bit
<1>10. (a \div 2 + b \div 2) % 2 = Plus(a1, b1)
  BY <1>3, <1>4 DEF Plus, Bit
<1>11. (a \div 1 + b \div 1) % 2 = Plus(a0, b0)
  BY <1>1, <1>2, <1>3, <1>4 DEF Plus, Bit
<1>12. XorByte(a, b) = 128 * Plus(a7, b7) + 64 * Plus(a6, b6) + 32 * Plus(a5, b5) + 16 * Plus(a4, b4)
                   + 8 * Plus(a3, b3) + 4 * Plus(a2, b2) + 2 * Plus(a1, b1) + Plus(a0, b0)
  <2>1. /\ Plus(a7, b7) \in Bit /\ Plus(a6, b6) \in Bit /\ Plus(a5, b5) \in Bit /\ Plus(a4, b4) \in Bit
        /\ Plus(a3, b3) \in Bit /\ Plus(a2, b2) \in Bit /\ Plus(a1, b1) \in Bit /\ Plus(a0, b0) \in Bit
    BY PlusLaws
  <2>2. \A z \in Bit : z \in Int
    BY DEF Bit
  <2>. QED BY <1>5, <1>7, <1>8, <1>9, <1>10, <1>11, <1>13, <1>14, <1>15, <2>1, <2>2 DEF XorByte
<1>16. /\ Sum8(x, y)[7] = Plus(a7, b7) /\ Sum8(x, y)[6] = Plus(a6, b6) /\ Sum8(x, y)[5] = Plus(a5, b5)
       /\ Sum8(x, y)[4] = Plus(a4, b4) /\ Sum8(x, y)[3] = Plus(a3, b3) /\ Sum8(x, y)[2] = Plus(a2, b2)
       /\ Sum8(x, y)[1] = Plus(a1, b1) /\ Sum8(x, y)[0] = Plus(a0, b0)
  BY <1>20, <1>21 DEF Sum8
<1>17. Value(Sum8(x, y)) = 128 * Plus(a7, b7) + 64 * Plus(a6, b6) + 32 * Plus(a5, b5) + 16 * Plus(a4, b4)
                   + 8 * Plus(a3, b3) + 4 * Plus(a2, b2) + 2 * Plus(a1, b1) + Plus(a0, b0)
  BY <1>16 DEF Value
<1>. QED BY <1>1, <1>2, <1>12, <1>17

LEMMA ValueTyped ==
  ASSUME NEW a \in Word
  PROVE  Value(a) \in Byte
BY WordIs DEF Value, Bit, Byte

LEMMA SumTyped ==
  ASSUME NEW a \in Word, NEW b \in Word
  PROVE  Sum8(a, b) \in Word
BY PlusLaws DEF Sum8, Word

LEMMA XorLaws ==
  ASSUME NEW u \in Byte, NEW v \in Byte, NEW w \in Byte
  PROVE  /\ XorByte(u, v) \in Byte /\ XorByte(u, v) = XorByte(v, u)
         /\ XorByte(XorByte(u, v), w) = XorByte(u, XorByte(v, w))
         /\ XorByte(u, 0) = u /\ XorByte(u, u) = 0
<1>1. PICK a \in Word : u = Value(a)
  BY ByteIsValue
<1>2. PICK b \in Word : v = Value(b)
  BY ByteIsValue
<1>3. PICK c \in Word : w = Value(c)
  BY ByteIsValue
<1>. DEFINE z == [k \in 0..7 |-> 0]
<1>4. z \in Word /\ Value(z) = 0
  BY DEF Word, Bit, Value
<1>5. /\ Sum8(a, b) \in Word /\ Sum8(b, c) \in Word /\ Sum8(a, b) = Sum8(b, a)
      /\ Sum8(a, z) = a /\ Sum8(a, a) = z /\ Sum8(Sum8(a, b), c) = Sum8(a, Sum8(b, c))
  <2>1. \A k \in 0..7 : a[k] \in Bit /\ b[k] \in Bit /\ c[k] \in Bit
    BY DEF Word
  <2>2. Sum8(a, b) \in Word /\ Sum8(b, c) \in Word
    BY SumTyped
  <2>3. Sum8(a, b) = Sum8(b, a)
    BY <2>1, PlusLaws DEF Sum8
  <2>4. Sum8(a, z) = a /\ Sum8(a, a) = z
    BY <2>1, PlusLaws DEF Sum8, Word
  <2>5. Sum8(Sum8(a, b), c) = Sum8(a, Sum8(b, c))
    <3>1. \A k \in 0..7 : Plus(Plus(a[k], b[k]), c[k]) = Plus(a[k], Plus(b[k], c[k]))
      <4>1. \A x, y, t \in Bit : Plus(Plus(x, y), t) = Plus(x, Plus(y, t))
        BY PlusLaws
      <4>. QED BY <2>1, <4>1
    <3>. QED BY <3>1 DEF Sum8
  <2>. QED BY <2>2, <2>3, <2>4, <2>5
<1>. HIDE DEF z
<1>6. XorByte(u, v) \in Byte /\ XorByte(u, v) = XorByte(v, u)
  BY <1>1, <1>2, <1>5, XorWords, ValueTyped
<1>7. XorByte(u, 0) = u /\ XorByte(u, u) = 0
  BY <1>1, <1>4, <1>5, XorWords
<1>8. XorByte(XorByte(u, v), w) = XorByte(u, XorByte(v, w))
  BY <1>1, <1>2, <1>3, <1>5, XorWords
<1>. QED BY <1>6, <1>7, <1>8

-----------------------------------------------------------------------------
(* One bit more of the message: a step of the division. *)
Shl(r, b) == LET v == 2 * r + b IN IF v < 256 THEN v ELSE XorByte(v - 256, Polynomial - 256)

ShlWord(a, b) ==
  [k \in 0..7 |-> IF k = 0 THEN Plus(b, a[7])
                  ELSE IF k \in {1, 2} THEN Plus(a[k - 1], a[7]) ELSE a[k - 1]]

LEMMA ShlIsWord ==
  ASSUME NEW a \in Word, NEW b \in Bit
  PROVE  ShlWord(a, b) \in Word /\ Shl(Value(a), b) = Value(ShlWord(a, b))
<1>. DEFINE c == [k \in 0..7 |-> IF k = 0 THEN b ELSE a[k - 1]]
            p == [k \in 0..7 |-> IF k \in {0, 1, 2} THEN 1 ELSE 0]
            s == ShlWord(a, b)
<1>1. \A k \in 0..7 : a[k] \in Bit
  BY DEF Word
<1>2. c \in Word /\ p \in Word
  BY <1>1 DEF Word, Bit
<1>3. s \in Word
  BY <1>1, PlusLaws DEF ShlWord, Word
<1>4. /\ c[7] = a[6] /\ c[6] = a[5] /\ c[5] = a[4] /\ c[4] = a[3]
      /\ c[3] = a[2] /\ c[2] = a[1] /\ c[1] = a[0] /\ c[0] = b
  OBVIOUS
<1>5. Value(p) = 7 /\ Polynomial - 256 = 7
  <2>1. /\ p[7] = 0 /\ p[6] = 0 /\ p[5] = 0 /\ p[4] = 0 /\ p[3] = 0 /\ p[2] = 1 /\ p[1] = 1 /\ p[0] = 1
    OBVIOUS
  <2>. HIDE DEF p
  <2>2. 2^8 = 256 /\ 2^2 = 4 /\ 2^1 = 2
    OBVIOUS
  <2>. QED BY <2>1, <2>2 DEF Value, Polynomial
<1>. HIDE DEF c
<1>6. Value(c) = 2 * Value(a) + b - 256 * a[7] /\ Value(c) \in 0..255
  <2>1. Value(c) = 128 * a[6] + 64 * a[5] + 32 * a[4] + 16 * a[3] + 8 * a[2] + 4 * a[1] + 2 * a[0] + b
    BY <1>4 DEF Value
  <2>2. /\ a[7] \in Int /\ a[6] \in Int /\ a[5] \in Int /\ a[4] \in Int
        /\ a[3] \in Int /\ a[2] \in Int /\ a[1] \in Int /\ a[0] \in Int /\ b \in Int
    BY WordIs DEF Bit
  <2>3. Value(c) = 2 * Value(a) + b - 256 * a[7]
    <3>1. PICK a7 \in Int, a6 \in Int, a5 \in Int, a4 \in Int, a3 \in Int, a2 \in Int, a1 \in Int, a0 \in Int :
            a7 = a[7] /\ a6 = a[6] /\ a5 = a[5] /\ a4 = a[4] /\ a3 = a[3] /\ a2 = a[2] /\ a1 = a[1] /\ a0 = a[0]
      BY <2>2
    <3>2. Value(a) = 128 * a7 + 64 * a6 + 32 * a5 + 16 * a4 + 8 * a3 + 4 * a2 + 2 * a1 + a0
      BY <3>1 DEF Value
    <3>3. Value(c) = 128 * a6 + 64 * a5 + 32 * a4 + 16 * a3 + 8 * a2 + 4 * a1 + 2 * a0 + b
      BY <2>1, <3>1
    <3>4. \A v, w, d \in Int : /\ v = 128 * a7 + 64 * a6 + 32 * a5 + 16 * a4 + 8 * a3 + 4 * a2 + 2 * a1 + a0
                             /\ w = 128 * a6 + 64 * a5 + 32 * a4 + 16 * a3 + 8 * a2 + 4 * a1 + 2 * a0 + d
                             => w = 2 * v + d - 256 * a7
      OBVIOUS
    <3>5. Value(a) \in Int /\ Value(c) \in Int
      BY <1>2, ValueTyped DEF Byte
    <3>. QED BY <2>2, <3>1, <3>2, <3>3, <3>4, <3>5
  <2>. QED BY <1>2, <2>3, ValueTyped DEF Byte
<1>7. CASE a[7] = 0
  <2>1. s = c
    <3>1. \A k \in 0..7 : s[k] = c[k]
      BY <1>1, <1>7, PlusLaws DEF ShlWord, c
    <3>. QED BY <1>2, <1>3, <3>1 DEF Word
  <2>. HIDE DEF s
  <2>2. Shl(Value(a), b) = Value(c)
    <3>1. Value(a) \in Int /\ b \in Int
      BY ValueTyped DEF Byte, Bit
    <3>. QED BY <1>6, <1>7, <3>1 DEF Shl
  <2>. QED BY <1>3, <2>1, <2>2 DEF s
<1>8. CASE a[7] = 1
  <2>1. s = Sum8(c, p)
    <3>1. \A k \in 0..7 : s[k] = Sum8(c, p)[k]
      <4>1. s[0] = Plus(b, 1) /\ s[1] = Plus(a[0], 1) /\ s[2] = Plus(a[1], 1)
        BY <1>8 DEF ShlWord
      <4>2. \A k \in 3..7 : s[k] = a[k - 1]
        BY DEF ShlWord
      <4>3. Sum8(c, p)[0] = Plus(b, 1) /\ Sum8(c, p)[1] = Plus(a[0], 1) /\ Sum8(c, p)[2] = Plus(a[1], 1)
        BY <1>4 DEF Sum8
      <4>4. \A k \in 3..7 : Sum8(c, p)[k] = Plus(a[k - 1], 0)
        BY DEF Sum8, c
      <4>5. \A k \in 3..7 : Plus(a[k - 1], 0) = a[k - 1]
        BY <1>1, PlusLaws
      <4>6. \A k \in 0..7 : k = 0 \/ k = 1 \/ k = 2 \/ k \in 3..7
        OBVIOUS
      <4>. HIDE DEF s, p
      <4>. QED BY <4>1, <4>2, <4>3, <4>4, <4>5, <4>6
    <3>2. Sum8(c, p) \in Word
      BY <1>2, SumTyped
    <3>. HIDE DEF s, p
    <3>. QED BY <1>3, <3>1, <3>2 DEF Word
  <2>. HIDE DEF s, p
  <2>2. Shl(Value(a), b) = XorByte(Value(c), 7)
    <3>1. Value(a) \in Int /\ b \in Int
      BY ValueTyped DEF Byte, Bit
    <3>. QED BY <1>5, <1>6, <1>8, <3>1 DEF Shl
  <2>3. XorByte(Value(c), Value(p)) = Value(Sum8(c, p))
    BY <1>2, XorWords
  <2>. QED BY <1>3, <1>5, <2>1, <2>2, <2>3 DEF s
<1>. QED BY <1>1, <1>7, <1>8 DEF Bit

(* The division is linear. *)
LEMMA ShlLinear ==
  ASSUME NEW u \in Byte, NEW v \in Byte, NEW b \in Bit, NEW c \in Bit
  PROVE  /\ Shl(u, b) \in Byte
         /\ Shl(XorByte(u, v), Plus(b, c)) = XorByte(Shl(u, b), Shl(v, c))
<1>1. PICK x \in Word : u = Value(x)
  BY ByteIsValue
<1>2. PICK y \in Word : v = Value(y)
  BY ByteIsValue
<1>3. /\ ShlWord(x, b) \in Word /\ Shl(u, b) = Value(ShlWord(x, b))
      /\ ShlWord(y, c) \in Word /\ Shl(v, c) = Value(ShlWord(y, c))
  BY <1>1, <1>2, ShlIsWord
<1>4. XorByte(u, v) = Value(Sum8(x, y)) /\ Sum8(x, y) \in Word
  BY <1>1, <1>2, XorWords, SumTyped
<1>5. Plus(b, c) \in Bit
  BY PlusLaws
<1>6. ShlWord(Sum8(x, y), Plus(b, c)) = Sum8(ShlWord(x, b), ShlWord(y, c))
  <2>1. \A k \in 0..7 : x[k] \in Bit /\ y[k] \in Bit
    BY DEF Word
  <2>2. \A i, j, m, n \in Bit : Plus(Plus(i, j), Plus(m, n)) = Plus(Plus(i, m), Plus(j, n))
    BY DEF Plus, Bit
  <2>3. \A k \in 0..7 : ShlWord(Sum8(x, y), Plus(b, c))[k] = Sum8(ShlWord(x, b), ShlWord(y, c))[k]
    <3>1. /\ Plus(Plus(b, c), Plus(x[7], y[7])) = Plus(Plus(b, x[7]), Plus(c, y[7]))
          /\ Plus(Plus(x[0], y[0]), Plus(x[7], y[7])) = Plus(Plus(x[0], x[7]), Plus(y[0], y[7]))
          /\ Plus(Plus(x[1], y[1]), Plus(x[7], y[7])) = Plus(Plus(x[1], x[7]), Plus(y[1], y[7]))
      <4>1. /\ x[7] \in Bit /\ x[0] \in Bit /\ x[1] \in Bit
            /\ y[7] \in Bit /\ y[0] \in Bit /\ y[1] \in Bit
        BY <2>1
      <4>. QED BY <2>2, <4>1
    <3>. QED BY <3>1 DEF ShlWord, Sum8
  <2>4. ShlWord(Sum8(x, y), Plus(b, c)) \in Word /\ Sum8(ShlWord(x, b), ShlWord(y, c)) \in Word
    BY <1>3, <1>4, <1>5, ShlIsWord, SumTyped
  <2>. QED BY <2>3, <2>4 DEF Word
<1>7. Shl(XorByte(u, v), Plus(b, c)) = Value(ShlWord(Sum8(x, y), Plus(b, c)))
  BY <1>4, <1>5, ShlIsWord
<1>8. XorByte(Shl(u, b), Shl(v, c)) = Value(Sum8(ShlWord(x, b), ShlWord(y, c)))
  BY <1>3, XorWords
<1>. QED BY <1>3, <1>6, <1>7, <1>8, ValueTyped

LEMMA XorSeven ==
  ASSUME NEW w \in Byte
  PROVE  XorByte(w, 7) = w + 7 - 2 * (w % 8)
<1>1. PICK x \in Word : w = Value(x)
  BY ByteIsValue
<1>. DEFINE p == [k \in 0..7 |-> IF k \in {0, 1, 2} THEN 1 ELSE 0]
            s == Sum8(x, p)
<1>2. p \in Word
  BY DEF Word, Bit
<1>3. Value(p) = 7
  <2>1. /\ p[7] = 0 /\ p[6] = 0 /\ p[5] = 0 /\ p[4] = 0 /\ p[3] = 0 /\ p[2] = 1 /\ p[1] = 1 /\ p[0] = 1
    OBVIOUS
  <2>. HIDE DEF p
  <2>. QED BY <2>1 DEF Value
<1>4. PICK a7 \in Bit, a6 \in Bit, a5 \in Bit, a4 \in Bit, a3 \in Bit, a2 \in Bit, a1 \in Bit, a0 \in Bit :
        a7 = x[7] /\ a6 = x[6] /\ a5 = x[5] /\ a4 = x[4] /\ a3 = x[3] /\ a2 = x[2] /\ a1 = x[1] /\ a0 = x[0]
  BY WordIs
<1>5. w = 128 * a7 + 64 * a6 + 32 * a5 + 16 * a4 + 8 * a3 + 4 * a2 + 2 * a1 + a0
  BY <1>1, <1>4 DEF Value
<1>6. w % 8 = 4 * a2 + 2 * a1 + a0
  BY <1>5, SMTT(60) DEF Bit
<1>7. /\ s[7] = a7 /\ s[6] = a6 /\ s[5] = a5 /\ s[4] = a4 /\ s[3] = a3
      /\ s[2] = 1 - a2 /\ s[1] = 1 - a1 /\ s[0] = 1 - a0
  <2>1. \A a \in Bit : Plus(a, 0) = a /\ Plus(a, 1) = 1 - a
    BY DEF Plus, Bit
  <2>2. /\ s[7] = Plus(a7, 0) /\ s[6] = Plus(a6, 0) /\ s[5] = Plus(a5, 0) /\ s[4] = Plus(a4, 0)
        /\ s[3] = Plus(a3, 0) /\ s[2] = Plus(a2, 1) /\ s[1] = Plus(a1, 1) /\ s[0] = Plus(a0, 1)
    BY <1>4 DEF Sum8
  <2>. HIDE DEF s
  <2>. QED BY <2>1, <2>2
<1>8. XorByte(w, 7) = Value(s)
  BY <1>1, <1>2, <1>3, XorWords
<1>. HIDE DEF s
<1>9. Value(s) = 128 * a7 + 64 * a6 + 32 * a5 + 16 * a4 + 8 * a3 + 4 * (1 - a2) + 2 * (1 - a1) + (1 - a0)
  BY <1>7 DEF Value
<1>. QED BY <1>5, <1>6, <1>8, <1>9 DEF Bit

(* Shl, in numbers *)
LEMMA ShlIs ==
  ASSUME NEW r \in Byte, NEW b \in Bit
  PROVE  /\ r < 128 => Shl(r, b) = 2 * r + b
         /\ r >= 128 => LET w == 2 * r + b - 256 IN w \in Byte /\ Shl(r, b) = w + 7 - 2 * (w % 8)
<1>1. Polynomial - 256 = 7
  <2>1. 2^8 = 256 /\ 2^2 = 4 /\ 2^1 = 2
    OBVIOUS
  <2>. QED BY <2>1 DEF Polynomial
<1>2. CASE r < 128
  BY <1>2 DEF Shl, Byte, Bit
<1>3. CASE r >= 128
  <2>. DEFINE w == 2 * r + b - 256
  <2>1. w \in Byte /\ ~(2 * r + b < 256)
    BY <1>3 DEF Byte, Bit
  <2>2. Shl(r, b) = XorByte(w, 7)
    <3>1. Shl(r, b) = XorByte(2 * r + b - 256, Polynomial - 256)
      BY <2>1 DEF Shl, Byte, Bit
    <3>. QED BY <1>1, <3>1
  <2>. HIDE DEF w
  <2>3. Shl(r, b) = w + 7 - 2 * (w % 8)
    BY <2>1, <2>2, XorSeven
  <2>. QED BY <1>3, <2>1, <2>3 DEF w, Byte
<1>. QED BY <1>2, <1>3 DEF Byte

(* A bit of nothing *)
Dbl(r) == Shl(r, 0)

LEMMA DblLaws ==
  ASSUME NEW u \in Byte, NEW v \in Byte, NEW b \in Bit
  PROVE  /\ Dbl(u) \in Byte
         /\ Dbl(XorByte(u, v)) = XorByte(Dbl(u), Dbl(v))
         /\ Shl(XorByte(u, v), b) = XorByte(Dbl(u), Shl(v, b))
         /\ u # 0 => Dbl(u) # 0
<1>1. 0 \in Bit /\ 1 \in Bit /\ Plus(0, 0) = 0 /\ Plus(0, b) = b
  BY DEF Plus, Bit
<1>2. /\ Dbl(u) \in Byte
      /\ Dbl(XorByte(u, v)) = XorByte(Dbl(u), Dbl(v))
      /\ Shl(XorByte(u, v), b) = XorByte(Dbl(u), Shl(v, b))
  BY <1>1, ShlLinear DEF Dbl
<1>3. ASSUME u # 0 PROVE Dbl(u) # 0
  <2>1. CASE u < 128
    BY <1>1, <1>3, <2>1, ShlIs DEF Dbl, Byte
  <2>2. CASE u >= 128
    <3>. DEFINE w == 2 * u + 0 - 256
    <3>1. w \in Byte /\ Dbl(u) = w + 7 - 2 * (w % 8) /\ w = 2 * (u - 128)
      <4>1. w \in Byte /\ Shl(u, 0) = w + 7 - 2 * (w % 8)
        BY <1>1, <2>2, ShlIs
      <4>2. w = 2 * (u - 128)
        BY DEF Byte
      <4>. QED BY <4>1, <4>2 DEF Dbl
    <3>. HIDE DEF w
    <3>2. \A x \in 0..127 : (2 * x) + 7 - 2 * ((2 * x) % 8) # 0
      OBVIOUS
    <3>3. u - 128 \in 0..127
      BY <2>2 DEF Byte
    <3>. QED BY <3>1, <3>2, <3>3
  <2>. QED BY <2>1, <2>2 DEF Byte
<1>. QED BY <1>2, <1>3

-----------------------------------------------------------------------------
(* The table *)
Dbl8(r) == Dbl(Dbl(Dbl(Dbl(Dbl(Dbl(Dbl(Dbl(r))))))))

LEMMA TableDoubles ==
  /\ CRC8_LUT[1] = 0 /\ CRC8_LUT[2] = 7
  /\ \A v \in Byte : CRC8_LUT[v + 1] \in Byte
  /\ \A v \in 0..127 : /\ CRC8_LUT[2 * v + 1] = Dbl(CRC8_LUT[v + 1])
                       /\ CRC8_LUT[2 * v + 2] = XorByte(CRC8_LUT[2 * v + 1], 7)
<1>1. CRC8_LUT[1] = 0 /\ CRC8_LUT[2] = 7
  BY DEF CRC8_LUT
<1>2. \A v \in 0..255 : CRC8_LUT[v + 1] \in 0..255
  BY DEF CRC8_LUT
<1>3. \A v \in 0..127 :
        CRC8_LUT[2 * v + 1] = IF CRC8_LUT[v + 1] < 128 THEN 2 * CRC8_LUT[v + 1]
                              ELSE LET w == 2 * CRC8_LUT[v + 1] - 256 IN w + 7 - 2 * (w % 8)
  BY DEF CRC8_LUT
<1>4. \A v \in 0..127 :
        CRC8_LUT[2 * v + 2] = CRC8_LUT[2 * v + 1] + 7 - 2 * (CRC8_LUT[2 * v + 1] % 8)
  BY DEF CRC8_LUT
<1>5. ASSUME NEW v \in 0..127
      PROVE  /\ CRC8_LUT[2 * v + 1] = Dbl(CRC8_LUT[v + 1])
             /\ CRC8_LUT[2 * v + 2] = XorByte(CRC8_LUT[2 * v + 1], 7)
  <2>6. CRC8_LUT[v + 1] \in Byte /\ CRC8_LUT[2 * v + 1] \in Byte
    <3>1. v \in 0..255 /\ 2 * v \in 0..255
      OBVIOUS
    <3>. QED BY <1>2, <3>1 DEF Byte
  <2>1. PICK r \in Byte : r = CRC8_LUT[v + 1]
    BY <2>6
  <2>2. PICK d \in Byte : d = CRC8_LUT[2 * v + 1]
    BY <2>6
  <2>3. d = IF r < 128 THEN 2 * r ELSE LET w == 2 * r - 256 IN w + 7 - 2 * (w % 8)
    BY <1>3, <2>1, <2>2
  <2>4. Dbl(r) = IF r < 128 THEN 2 * r ELSE LET w == 2 * r - 256 IN w + 7 - 2 * (w % 8)
    BY ShlIs DEF Dbl, Byte, Bit
  <2>5. CRC8_LUT[2 * v + 2] = XorByte(d, 7)
    BY <1>4, <2>2, XorSeven
  <2>. QED BY <2>1, <2>2, <2>3, <2>4, <2>5
<1>. QED BY <1>1, <1>2, <1>5 DEF Byte

LEMMA TableIs ==
  ASSUME NEW v \in Byte
  PROVE  Dbl8(v) = CRC8_LUT[v + 1]
<1>. DEFINE S == {x \in Byte : Dbl8(x) # CRC8_LUT[x + 1]}
<1>1. Dbl8(0) = 0 /\ Dbl8(1) = 7
  <2>1. \A x \in 0..127 : Dbl(x) = 2 * x
    BY ShlIs DEF Dbl, Byte, Bit
  <2>2. Dbl(0) = 0
    BY <2>1
  <2>3. Dbl(1) = 2 /\ Dbl(2) = 4 /\ Dbl(4) = 8 /\ Dbl(8) = 16 /\ Dbl(16) = 32 /\ Dbl(32) = 64 /\ Dbl(64) = 128
    BY <2>1
  <2>4. Dbl(128) = 7
    <3>1. 128 \in Byte /\ 0 \in Bit /\ 128 >= 128 /\ 2 * 128 + 0 - 256 = 0 /\ 0 + 7 - 2 * (0 % 8) = 7
      BY DEF Byte, Bit
    <3>. QED BY <3>1, ShlIs DEF Dbl
  <2>. QED BY <2>2, <2>3, <2>4 DEF Dbl8
<1>2. ASSUME NEW x \in 0..127, 2 * x \in Byte, 2 * x + 1 \in Byte
      PROVE  Dbl8(2 * x) = Dbl(Dbl8(x)) /\ Dbl8(2 * x + 1) = XorByte(Dbl8(2 * x), 7)
  <2>1. Dbl(x) = 2 * x
    BY ShlIs DEF Dbl, Byte, Bit
  <2>2. XorByte(2 * x, 1) = 2 * x + 1
    <3>1. 1 \in Bit /\ x \in Byte /\ 0 \in Byte /\ Shl(x, 1) = 2 * x + 1 /\ Shl(0, 1) = 1 /\ XorByte(x, 0) = x
      <4>1. 1 \in Bit /\ x \in Byte /\ 0 \in Byte
        BY DEF Byte, Bit
      <4>2. Shl(x, 1) = 2 * x + 1 /\ Shl(0, 1) = 2 * 0 + 1
        BY <4>1, ShlIs
      <4>3. XorByte(x, 0) = x
        BY <4>1, XorLaws
      <4>. QED BY <4>1, <4>2, <4>3
    <3>2. Shl(XorByte(x, 0), 1) = XorByte(Dbl(x), Shl(0, 1))
      BY <3>1, DblLaws
    <3>. QED BY <2>1, <3>1, <3>2
  <2>3. ASSUME NEW y \in Byte, NEW z \in Byte
        PROVE  Dbl8(XorByte(y, z)) = XorByte(Dbl8(y), Dbl8(z))
    <3>1. 0 \in Bit /\ \A i, j \in Byte : Dbl(i) \in Byte /\ Dbl(XorByte(i, j)) = XorByte(Dbl(i), Dbl(j))
      BY DblLaws DEF Bit
    <3>2. ASSUME NEW i \in Byte, NEW j \in Byte
          PROVE  /\ Dbl(Dbl(i)) \in Byte
                 /\ Dbl(Dbl(XorByte(i, j))) = XorByte(Dbl(Dbl(i)), Dbl(Dbl(j)))
      BY <3>1
    <3>. DEFINE D4(i) == Dbl(Dbl(Dbl(Dbl(i))))
    <3>3. ASSUME NEW i \in Byte, NEW j \in Byte
          PROVE  D4(i) \in Byte /\ D4(XorByte(i, j)) = XorByte(D4(i), D4(j))
      <4>1. Dbl(Dbl(i)) \in Byte /\ Dbl(Dbl(j)) \in Byte
        BY <3>2
      <4>2. /\ D4(i) \in Byte
            /\ Dbl(Dbl(XorByte(Dbl(Dbl(i)), Dbl(Dbl(j))))) = XorByte(D4(i), D4(j))
        BY <3>2, <4>1
      <4>. QED BY <3>2, <4>2
    <3>4. \A i : Dbl8(i) = D4(D4(i))
      BY DEF Dbl8
    <3>. HIDE DEF D4
    <3>5. D4(y) \in Byte /\ D4(z) \in Byte /\ D4(XorByte(y, z)) = XorByte(D4(y), D4(z))
      BY <3>3
    <3>6. D4(XorByte(D4(y), D4(z))) = XorByte(D4(D4(y)), D4(D4(z)))
      BY <3>3, <3>5
    <3>. QED BY <3>4, <3>5, <3>6
  <2>4. Dbl8(2 * x) = Dbl(Dbl8(x))
    BY <2>1 DEF Dbl8
  <2>5. Dbl8(2 * x + 1) = XorByte(Dbl8(2 * x), Dbl8(1))
    <3>1. 1 \in Byte
      BY DEF Byte
    <3>2. Dbl8(XorByte(2 * x, 1)) = XorByte(Dbl8(2 * x), Dbl8(1))
      BY <1>2, <2>3, <3>1
    <3>. QED BY <2>2, <3>2
  <2>. QED BY <1>1, <2>4, <2>5
<1>3. SUFFICES ASSUME S # {} PROVE FALSE
  OBVIOUS
<1>4. PICK x \in S : \A y \in S : x <= y
  <2>1. S \subseteq Nat
    BY DEF Byte
  <2>. HIDE DEF S
  <2>. QED BY <1>3, <2>1, LeastNumber
<1>5. x # 0
  BY <1>1, TableDoubles
<1>6. PICK h \in 0..127, b \in Bit : x = 2 * h + b
  <2>1. \A n \in 0..255 : \E h \in 0..127 : n = 2 * h + 0 \/ n = 2 * h + 1
    OBVIOUS
  <2>2. x \in 0..255 /\ 0 \in Bit /\ 1 \in Bit
    BY DEF Byte, Bit
  <2>. HIDE DEF S
  <2>. QED BY <2>1, <2>2
<1>7. CASE h = x
  <2>1. x = 0
    BY <1>6, <1>7 DEF Bit
  <2>. QED BY <1>5, <2>1
<1>8. CASE h # x
  <2>1. h \in Byte /\ ~(x <= h) /\ 2 * h \in Byte /\ 2 * h + 1 \in Byte
    BY <1>5, <1>6, <1>8 DEF Bit, Byte
  <2>2. Dbl8(h) = CRC8_LUT[h + 1]
    BY <1>4, <2>1
  <2>3. Dbl8(2 * h) = CRC8_LUT[2 * h + 1] /\ Dbl8(2 * h + 1) = CRC8_LUT[2 * h + 2]
    BY <1>2, <2>1, <2>2, TableDoubles
  <2>4. Dbl8(x) = CRC8_LUT[x + 1]
    BY <1>6, <2>3 DEF Bit
  <2>. QED BY <2>4
<1>. QED BY <1>7, <1>8

-----------------------------------------------------------------------------
(* Loops *)

LEMMA Induct ==
  ASSUME NEW N \in Nat, NEW S, 0 \in S, \A n \in 0..(N - 1) : n \in S => n + 1 \in S
  PROVE  \A n \in 0..N : n \in S
<1>. DEFINE T == {n \in 0..N : n \notin S}
<1>1. SUFFICES ASSUME T # {} PROVE FALSE
  OBVIOUS
<1>2. PICK n \in T : \A m \in T : n <= m
  <2>1. T \subseteq Nat
    OBVIOUS
  <2>. HIDE DEF T
  <2>. QED BY <1>1, <2>1, LeastNumber
<1>3. n \in 1..N /\ n - 1 \in 0..(N - 1) /\ (n - 1) + 1 = n
  OBVIOUS
<1>4. n - 1 \in S
  BY <1>2, <1>3
<1>. QED BY <1>3, <1>4

(* f is what a loop computes that starts with e and steps by G. *)
IsLoop(f, N, e, G) == f[0] = e /\ \A n \in 1..N : f[n] = G[<<f[n - 1], n>>]

LEMMA LoopExists ==
  ASSUME NEW S, NEW N \in Nat, NEW e \in S, NEW G \in [S \X (1..N) -> S]
  PROVE  \E f \in [0..N -> S] : IsLoop(f, N, e, G)
<1>. DEFINE T == {n \in Nat : n <= N => \E f \in [0..n -> S] : IsLoop(f, n, e, G)}
<1>1. 0 \in T
  <2>. DEFINE f == [n \in 0..0 |-> e]
  <2>1. f \in [0..0 -> S] /\ IsLoop(f, 0, e, G)
    BY DEF IsLoop
  <2>. HIDE DEF f
  <2>. QED BY <2>1
<1>2. ASSUME NEW n \in 0..(N - 1), n \in T
      PROVE  n + 1 \in T
  <2>1. PICK f \in [0..n -> S] : IsLoop(f, n, e, G)
    BY <1>2
  <2>. DEFINE g == [i \in 0..(n + 1) |-> IF i <= n THEN f[i] ELSE G[<<f[n], n + 1>>]]
  <2>2. f[n] \in S /\ n + 1 \in 1..N
    BY <1>2
  <2>3. g \in [0..(n + 1) -> S]
    BY <1>2, <2>2
  <2>4. g[0] = e /\ \A i \in 0..n : g[i] = f[i]
    BY <1>2, <2>1 DEF IsLoop
  <2>5. g[n + 1] = G[<<f[n], n + 1>>]
    BY <1>2
  <2>. HIDE DEF g, T
  <2>6. ASSUME NEW i \in 1..(n + 1) PROVE g[i] = G[<<g[i - 1], i>>]
    <3>1. CASE i <= n
      BY <1>2, <2>1, <2>4, <3>1 DEF IsLoop
    <3>2. CASE i = n + 1
      BY <1>2, <2>4, <2>5, <3>2
    <3>. QED BY <1>2, <3>1, <3>2
  <2>. USE DEF T
  <2>. QED BY <1>2, <2>3, <2>4, <2>6 DEF IsLoop
<1>. HIDE DEF T
<1>3. N \in T
  BY <1>1, <1>2, Induct
<1>. QED BY <1>3 DEF T

(* What the division leaves after each of N bits. *)
Rests(N, bits) ==
  CHOOSE rest : rest =
    [n \in 0..N |->
      IF n = 0 THEN 0
      ELSE LET r == 2 * rest[n - 1] + bits[n] IN IF r < 256 THEN r ELSE XorByte(r - 256, Polynomial - 256)]

LEMMA RestsAre ==
  ASSUME NEW N \in Nat, NEW bits, \A n \in 1..N : bits[n] \in Bit
  PROVE  /\ Rests(N, bits) \in [0..N -> Byte]
         /\ Rests(N, bits)[0] = 0
         /\ \A n \in 1..N : Rests(N, bits)[n] = Shl(Rests(N, bits)[n - 1], bits[n])
<1>. DEFINE G == [x \in Byte \X (1..N) |-> Shl(x[1], bits[x[2]])]
            P(g) == g = [n \in 0..N |-> IF n = 0 THEN 0 ELSE Shl(g[n - 1], bits[n])]
            h == Rests(N, bits)
<1>1. G \in [Byte \X (1..N) -> Byte]
  <2>1. ASSUME NEW x \in Byte \X (1..N) PROVE Shl(x[1], bits[x[2]]) \in Byte
    BY ShlLinear
  <2>. QED BY <2>1
<1>2. 0 \in Byte
  BY DEF Byte
<1>3. \A c \in Byte, n \in 1..N : G[<<c, n>>] = Shl(c, bits[n])
  OBVIOUS
<1>. HIDE DEF G
<1>4. PICK f \in [0..N -> Byte] : IsLoop(f, N, 0, G)
  BY <1>1, <1>2, LoopExists
<1>5. P(f)
  <2>1. ASSUME NEW n \in 1..N PROVE f[n] = Shl(f[n - 1], bits[n])
    <3>1. f[n - 1] \in Byte
      OBVIOUS
    <3>. QED BY <1>3, <1>4, <3>1 DEF IsLoop
  <2>2. \A n \in 0..N : f[n] = IF n = 0 THEN 0 ELSE Shl(f[n - 1], bits[n])
    BY <1>4, <2>1 DEF IsLoop
  <2>. QED BY <2>2
<1>6. h = CHOOSE g : P(g)
  BY DEF Rests, Shl
<1>. HIDE DEF h, P
<1>7. P(h)
  BY <1>5, <1>6
<1>8. h[0] = 0 /\ \A n \in 1..N : h[n] = Shl(h[n - 1], bits[n])
  BY <1>7 DEF P
<1>9. \A n \in 0..N : h[n] \in Byte
  <2>. DEFINE T == {n \in 0..N : h[n] \in Byte}
  <2>1. 0 \in T
    BY <1>2, <1>8
  <2>2. ASSUME NEW n \in 0..(N - 1), n \in T PROVE n + 1 \in T
    <3>1. n + 1 \in 1..N /\ (n + 1) - 1 = n
      OBVIOUS
    <3>2. h[n + 1] = Shl(h[n], bits[n + 1])
      BY <1>8, <3>1
    <3>. QED BY <2>2, <3>1, <3>2, ShlLinear
  <2>. HIDE DEF T
  <2>3. \A n \in 0..N : n \in T
    BY <2>1, <2>2, Induct
  <2>. QED BY <2>3 DEF T
<1>10. h \in [0..N -> Byte]
  BY <1>7, <1>9 DEF P
<1>. QED BY <1>8, <1>10 DEF h

(* What the table gives after each byte. *)
Crcs(init, data) ==
  CHOOSE crc8 : crc8 =
    [n \in 0..Len(data) |-> IF n = 0 THEN init ELSE CRC8_LUT[XorByte(crc8[n - 1], data[n]) + 1]]

LEMMA CrcsAre ==
  ASSUME NEW init \in Byte, NEW data \in Seq(Byte)
  PROVE  /\ Crcs(init, data) \in [0..Len(data) -> Byte]
         /\ Crcs(init, data)[0] = init
         /\ \A n \in 1..Len(data) :
              Crcs(init, data)[n] = CRC8_LUT[XorByte(Crcs(init, data)[n - 1], data[n]) + 1]
         /\ CalcCrc8(init, data) = Crcs(init, data)[Len(data)]
<1>. DEFINE N == Len(data)
            G == [x \in Byte \X (1..N) |-> CRC8_LUT[XorByte(x[1], data[x[2]]) + 1]]
            P(g) == g = [n \in 0..N |-> IF n = 0 THEN init ELSE CRC8_LUT[XorByte(g[n - 1], data[n]) + 1]]
            h == Crcs(init, data)
<1>1. N \in Nat /\ \A n \in 1..N : data[n] \in Byte
  OBVIOUS
<1>2. ASSUME NEW c \in Byte, NEW n \in 1..N PROVE CRC8_LUT[XorByte(c, data[n]) + 1] \in Byte
  <2>1. XorByte(c, data[n]) \in Byte
    BY <1>1, XorLaws
  <2>. QED BY <2>1, TableDoubles
<1>3. G \in [Byte \X (1..N) -> Byte]
  <2>1. ASSUME NEW x \in Byte \X (1..N) PROVE CRC8_LUT[XorByte(x[1], data[x[2]]) + 1] \in Byte
    BY <1>2
  <2>. QED BY <2>1
<1>4. \A c \in Byte, n \in 1..N : G[<<c, n>>] = CRC8_LUT[XorByte(c, data[n]) + 1]
  OBVIOUS
<1>. HIDE DEF G
<1>5. PICK f \in [0..N -> Byte] : IsLoop(f, N, init, G)
  BY <1>1, <1>3, LoopExists
<1>6. P(f)
  <2>1. ASSUME NEW n \in 1..N PROVE f[n] = CRC8_LUT[XorByte(f[n - 1], data[n]) + 1]
    <3>1. f[n - 1] \in Byte
      BY <1>1
    <3>. QED BY <1>4, <1>5, <3>1 DEF IsLoop
  <2>2. \A n \in 0..N : f[n] = IF n = 0 THEN init ELSE CRC8_LUT[XorByte(f[n - 1], data[n]) + 1]
    BY <1>1, <1>5, <2>1 DEF IsLoop
  <2>. QED BY <2>2
<1>7. h = CHOOSE g : P(g)
  BY DEF Crcs
<1>8. CalcCrc8(init, data) = h[N]
  BY DEF Crcs, CalcCrc8
<1>. HIDE DEF h, P
<1>9. P(h)
  BY <1>6, <1>7
<1>10. h[0] = init /\ \A n \in 1..N : h[n] = CRC8_LUT[XorByte(h[n - 1], data[n]) + 1]
  BY <1>1, <1>9 DEF P
<1>11. \A n \in 0..N : h[n] \in Byte
  <2>. DEFINE T == {n \in 0..N : h[n] \in Byte}
  <2>1. 0 \in T
    BY <1>1, <1>10
  <2>2. ASSUME NEW n \in 0..(N - 1), n \in T PROVE n + 1 \in T
    <3>1. n + 1 \in 1..N /\ (n + 1) - 1 = n
      BY <1>1
    <3>2. h[n + 1] = CRC8_LUT[XorByte(h[n], data[n + 1]) + 1]
      BY <1>10, <3>1
    <3>. QED BY <1>1, <1>2, <2>2, <3>1, <3>2
  <2>. HIDE DEF T
  <2>3. \A n \in 0..N : n \in T
    BY <1>1, <2>1, <2>2, Induct
  <2>. QED BY <2>3 DEF T
<1>12. h \in [0..N -> Byte]
  BY <1>9, <1>11 DEF P
<1>. QED BY <1>8, <1>10, <1>12 DEF h

LEMMA CrcLaws ==
  ASSUME NEW init \in Byte, NEW a \in Seq(Byte), NEW b \in Seq(Byte)
  PROVE  /\ CalcCrc8(init, a) \in Byte
         /\ CalcCrc8(init, <<>>) = init
         /\ CalcCrc8(init, a \o b) = CalcCrc8(CalcCrc8(init, a), b)
<1>. DEFINE c == a \o b
            m == CalcCrc8(init, a)
            N == Len(a)
<1>1. c \in Seq(Byte) /\ N \in Nat /\ Len(b) \in Nat /\ Len(c) = N + Len(b)
  BY ConcatProperties
<1>2. /\ \A n \in 1..N : c[n] = a[n]
      /\ \A n \in 1..Len(b) : c[N + n] = b[n]
  BY ConcatProperties
<1>3. m \in Byte
  <2>1. N \in 0..N
    BY <1>1
  <2>2. m = Crcs(init, a)[N]
    BY CrcsAre
  <2>3. \A n \in 0..N : Crcs(init, a)[n] \in Byte
    BY CrcsAre
  <2>. HIDE DEF m, N
  <2>. QED BY <2>1, <2>2, <2>3
<1>4. CalcCrc8(init, <<>>) = init
  <2>1. <<>> \in Seq(Byte) /\ Len(<<>>) = 0
    OBVIOUS
  <2>2. Crcs(init, <<>>)[0] = init /\ CalcCrc8(init, <<>>) = Crcs(init, <<>>)[Len(<<>>)]
    BY <2>1, CrcsAre
  <2>. QED BY <2>1, <2>2
<1>. DEFINE f == Crcs(init, a)
            g == Crcs(m, b)
            h == Crcs(init, c)
<1>. HIDE DEF c
<1>5. f[0] = init /\ (\A n \in 1..N : f[n] = CRC8_LUT[XorByte(f[n - 1], a[n]) + 1]) /\ m = f[N]
  BY CrcsAre
<1>6. /\ h[0] = init /\ (\A n \in 1..Len(c) : h[n] = CRC8_LUT[XorByte(h[n - 1], c[n]) + 1])
      /\ CalcCrc8(init, c) = h[Len(c)]
  BY <1>1, CrcsAre
<1>. HIDE DEF m
<1>7. /\ g[0] = m /\ (\A n \in 1..Len(b) : g[n] = CRC8_LUT[XorByte(g[n - 1], b[n]) + 1])
      /\ CalcCrc8(m, b) = g[Len(b)]
  BY <1>3, CrcsAre
<1>. HIDE DEF f, g, h, N
<1>8. \A n \in 0..N : h[n] = f[n]
  <2>. DEFINE T == {n \in 0..N : h[n] = f[n]}
  <2>1. 0 \in T
    BY <1>1, <1>5, <1>6
  <2>2. ASSUME NEW n \in 0..(N - 1), n \in T PROVE n + 1 \in T
    <3>1. n + 1 \in 1..N /\ n + 1 \in 1..Len(c) /\ (n + 1) - 1 = n /\ n + 1 \in 0..N
      BY <1>1
    <3>2. h[n + 1] = CRC8_LUT[XorByte(h[n], c[n + 1]) + 1]
      BY <1>6, <3>1
    <3>3. f[n + 1] = CRC8_LUT[XorByte(f[n], a[n + 1]) + 1]
      BY <1>5, <3>1
    <3>4. c[n + 1] = a[n + 1]
      BY <1>2, <3>1
    <3>. QED BY <2>2, <3>1, <3>2, <3>3, <3>4
  <2>. HIDE DEF T
  <2>3. \A n \in 0..N : n \in T
    BY <1>1, <2>1, <2>2, Induct
  <2>. QED BY <2>3 DEF T
<1>9. \A n \in 0..Len(b) : h[N + n] = g[n]
  <2>. DEFINE T == {n \in 0..Len(b) : h[N + n] = g[n]}
  <2>1. 0 \in T
    BY <1>1, <1>5, <1>7, <1>8
  <2>2. ASSUME NEW n \in 0..(Len(b) - 1), n \in T PROVE n + 1 \in T
    <3>1. /\ n + 1 \in 1..Len(b) /\ N + (n + 1) \in 1..Len(c) /\ (n + 1) - 1 = n
          /\ (N + (n + 1)) - 1 = N + n /\ n + 1 \in 0..Len(b)
      BY <1>1
    <3>2. h[N + (n + 1)] = CRC8_LUT[XorByte(h[N + n], c[N + (n + 1)]) + 1]
      BY <1>6, <3>1
    <3>3. g[n + 1] = CRC8_LUT[XorByte(g[n], b[n + 1]) + 1]
      BY <1>7, <3>1
    <3>4. c[N + (n + 1)] = b[n + 1]
      BY <1>2, <3>1
    <3>. QED BY <2>2, <3>1, <3>2, <3>3, <3>4
  <2>. HIDE DEF T
  <2>3. \A n \in 0..Len(b) : n \in T
    BY <1>1, <2>1, <2>2, Induct
  <2>. QED BY <2>3 DEF T
<1>10. CalcCrc8(init, c) = CalcCrc8(m, b)
  BY <1>1, <1>6, <1>7, <1>9
<1>. QED BY <1>3, <1>4, <1>10 DEF c, m

-----------------------------------------------------------------------------
(* Eight bits are a byte. *)
LEMMA BitOfValue ==
  ASSUME NEW a \in Word
  PROVE  \A j \in 0..7 : (Value(a) \div 2^j) % 2 = a[j]
<1>1. PICK a7 \in Bit, a6 \in Bit, a5 \in Bit, a4 \in Bit, a3 \in Bit, a2 \in Bit, a1 \in Bit, a0 \in Bit :
        a7 = a[7] /\ a6 = a[6] /\ a5 = a[5] /\ a4 = a[4] /\ a3 = a[3] /\ a2 = a[2] /\ a1 = a[1] /\ a0 = a[0]
  BY WordIs
<1>2. PICK v : v = Value(a) /\ v = 128 * a7 + 64 * a6 + 32 * a5 + 16 * a4 + 8 * a3 + 4 * a2 + 2 * a1 + a0
  BY <1>1 DEF Value
<1>3. /\ v \div 128 = a7 /\ v \div 64 = 2 * a7 + a6 /\ v \div 32 = 4 * a7 + 2 * a6 + a5
      /\ v \div 16 = 8 * a7 + 4 * a6 + 2 * a5 + a4
      /\ v \div 8 = 16 * a7 + 8 * a6 + 4 * a5 + 2 * a4 + a3
      /\ v \div 4 = 32 * a7 + 16 * a6 + 8 * a5 + 4 * a4 + 2 * a3 + a2
      /\ v \div 2 = 64 * a7 + 32 * a6 + 16 * a5 + 8 * a4 + 4 * a3 + 2 * a2 + a1
      /\ v \div 1 = v
  BY <1>2, SMTT(60) DEF Bit
<1>4. 2^0 = 1 /\ 2^1 = 2 /\ 2^2 = 4 /\ 2^3 = 8 /\ 2^4 = 16 /\ 2^5 = 32 /\ 2^6 = 64 /\ 2^7 = 128
  OBVIOUS
<1>5. /\ (v \div 128) % 2 = a7 /\ (v \div 64) % 2 = a6 /\ (v \div 32) % 2 = a5 /\ (v \div 16) % 2 = a4
  BY <1>3 DEF Bit
<1>6. /\ (v \div 8) % 2 = a3 /\ (v \div 4) % 2 = a2 /\ (v \div 2) % 2 = a1
  BY <1>3 DEF Bit
<1>7. (v \div 1) % 2 = a0
  BY <1>2, <1>3 DEF Bit
<1>8. \A j \in 0..7 : j = 0 \/ j = 1 \/ j = 2 \/ j = 3 \/ j = 4 \/ j = 5 \/ j = 6 \/ j = 7
  OBVIOUS
<1>10. /\ (v \div 2^7) % 2 = a[7] /\ (v \div 2^6) % 2 = a[6] /\ (v \div 2^5) % 2 = a[5]
       /\ (v \div 2^4) % 2 = a[4] /\ (v \div 2^3) % 2 = a[3] /\ (v \div 2^2) % 2 = a[2]
       /\ (v \div 2^1) % 2 = a[1] /\ (v \div 2^0) % 2 = a[0]
  BY <1>1, <1>4, <1>5, <1>6, <1>7, Zenon
<1>9. ASSUME NEW j \in 0..7 PROVE (v \div 2^j) % 2 = a[j]
  BY <1>8, <1>10, Zenon
<1>. QED BY <1>2, <1>9

LEMMA BitsAre ==
  ASSUME NEW bytes \in Seq(Byte)
  PROVE  /\ Len(Bits(bytes)) = 8 * Len(bytes)
         /\ Bits(bytes) \in [1..(8 * Len(bytes)) -> Bit]
         /\ \A k \in 1..Len(bytes), j \in 0..7 :
              Bits(bytes)[8 * (k - 1) + j + 1] = (bytes[k] \div 2^(7 - j)) % 2
<1>1. Len(bytes) \in Nat
  OBVIOUS
<1>2. 8 * Len(bytes) \in Nat
  BY <1>1
<1>3. Len(Bits(bytes)) = 8 * Len(bytes)
  BY <1>2 DEF Bits
<1>4. ASSUME NEW i \in 1..(8 * Len(bytes)) PROVE Bits(bytes)[i] \in Bit
  <2>1. (i - 1) \div 8 + 1 \in 1..Len(bytes) /\ 7 - ((i - 1) % 8) \in 0..7
    BY <1>1
  <2>2. PICK a \in Word : bytes[(i - 1) \div 8 + 1] = Value(a)
    BY <2>1, ByteIsValue
  <2>3. Bits(bytes)[i] = a[7 - ((i - 1) % 8)]
    BY <2>1, <2>2, BitOfValue DEF Bits
  <2>. QED BY <2>1, <2>3 DEF Word
<1>5. ASSUME NEW k \in 1..Len(bytes), NEW j \in 0..7
      PROVE  Bits(bytes)[8 * (k - 1) + j + 1] = (bytes[k] \div 2^(7 - j)) % 2
  <2>. DEFINE i == 8 * (k - 1) + j + 1
  <2>1. i \in 1..(8 * Len(bytes)) /\ (i - 1) \div 8 + 1 = k /\ (i - 1) % 8 = j
    BY <1>1
  <2>. HIDE DEF i
  <2>2. Bits(bytes)[i] = (bytes[(i - 1) \div 8 + 1] \div 2^(7 - ((i - 1) % 8))) % 2
    BY <2>1 DEF Bits
  <2>3. Bits(bytes)[i] = (bytes[k] \div 2^(7 - j)) % 2
    BY <2>1, <2>2
  <2>. QED BY <2>3 DEF i
<1>6. Bits(bytes) \in [1..(8 * Len(bytes)) -> Bit]
  BY <1>4 DEF Bits
<1>. QED BY <1>3, <1>5, <1>6

(* The division of eight more bits is one look at the table. *)
LEMMA EightSteps ==
  ASSUME NEW r \in Byte, NEW a \in Word
  PROVE  Shl(Shl(Shl(Shl(Shl(Shl(Shl(Shl(r, a[7]), a[6]), a[5]), a[4]), a[3]), a[2]), a[1]), a[0])
           = XorByte(CRC8_LUT[r + 1], Value(a))
<1>. DEFINE v1 == a[7]
            v2 == 2 * v1 + a[6]
            v3 == 2 * v2 + a[5]
            v4 == 2 * v3 + a[4]
            v5 == 2 * v4 + a[3]
            v6 == 2 * v5 + a[2]
            v7 == 2 * v6 + a[1]
            v8 == 2 * v7 + a[0]
            d1 == Dbl(r)
            d2 == Dbl(d1)
            d3 == Dbl(d2)
            d4 == Dbl(d3)
            d5 == Dbl(d4)
            d6 == Dbl(d5)
            d7 == Dbl(d6)
            d8 == Dbl(d7)
<1>1. /\ a[7] \in Bit /\ a[6] \in Bit /\ a[5] \in Bit /\ a[4] \in Bit
      /\ a[3] \in Bit /\ a[2] \in Bit /\ a[1] \in Bit /\ a[0] \in Bit
  BY WordIs
<1>2. v8 = Value(a) /\ d8 = CRC8_LUT[r + 1]
  <2>1. v8 = Value(a)
    BY <1>1 DEF Value, Bit
  <2>. QED BY <2>1, TableIs DEF Dbl8
<1>3. ASSUME NEW u \in Byte, NEW v \in 0..127, NEW b \in Bit
      PROVE  Shl(XorByte(u, v), b) = XorByte(Dbl(u), 2 * v + b) /\ Dbl(u) \in Byte
  <2>1. v \in Byte /\ v < 128
    BY DEF Byte
  <2>2. Shl(v, b) = 2 * v + b
    BY <2>1, ShlIs
  <2>. QED BY <2>1, <2>2, DblLaws
<1>12. /\ v1 \in 0..127 /\ v2 \in 0..127 /\ v3 \in 0..127 /\ v4 \in 0..127
       /\ v5 \in 0..127 /\ v6 \in 0..127 /\ v7 \in 0..127
  BY <1>1 DEF Bit
<1>4. d1 \in Byte /\ Shl(r, a[7]) = XorByte(d1, v1)
  <2>1. 0 \in Byte /\ Shl(0, a[7]) = 2 * 0 + a[7] /\ XorByte(r, 0) = r
    <3>1. 0 \in Byte /\ 0 < 128
      BY DEF Byte
    <3>. QED BY <1>1, <3>1, ShlIs, XorLaws
  <2>2. Shl(XorByte(r, 0), a[7]) = XorByte(Dbl(r), Shl(0, a[7])) /\ Dbl(r) \in Byte
    BY <1>1, <2>1, DblLaws
  <2>3. 2 * 0 + a[7] = v1
    BY <1>1 DEF Bit
  <2>. QED BY <2>1, <2>2, <2>3
<1>. HIDE DEF v1, d1
<1>5. d2 \in Byte /\ Shl(XorByte(d1, v1), a[6]) = XorByte(d2, v2)
  BY <1>1, <1>3, <1>4, <1>12
<1>. HIDE DEF v2, d2
<1>6. d3 \in Byte /\ Shl(XorByte(d2, v2), a[5]) = XorByte(d3, v3)
  BY <1>1, <1>3, <1>5, <1>12
<1>. HIDE DEF v3, d3
<1>7. d4 \in Byte /\ Shl(XorByte(d3, v3), a[4]) = XorByte(d4, v4)
  BY <1>1, <1>3, <1>6, <1>12
<1>. HIDE DEF v4, d4
<1>8. d5 \in Byte /\ Shl(XorByte(d4, v4), a[3]) = XorByte(d5, v5)
  BY <1>1, <1>3, <1>7, <1>12
<1>. HIDE DEF v5, d5
<1>9. d6 \in Byte /\ Shl(XorByte(d5, v5), a[2]) = XorByte(d6, v6)
  BY <1>1, <1>3, <1>8, <1>12
<1>. HIDE DEF v6, d6
<1>10. d7 \in Byte /\ Shl(XorByte(d6, v6), a[1]) = XorByte(d7, v7)
  BY <1>1, <1>3, <1>9, <1>12
<1>. HIDE DEF v7, d7
<1>11. d8 \in Byte /\ Shl(XorByte(d7, v7), a[0]) = XorByte(d8, v8)
  BY <1>1, <1>3, <1>10, <1>12
<1>. HIDE DEF v8, d8
<1>. QED BY <1>2, <1>4, <1>5, <1>6, <1>7, <1>8, <1>9, <1>10, <1>11

(* The bits of bytes, divided *)
RestOf(bytes) == Rests(8 * Len(bytes), Bits(bytes))

LEMMA RestOfBytes ==
  ASSUME NEW bytes \in Seq(Byte)
  PROVE  /\ RestOf(bytes) \in [0..(8 * Len(bytes)) -> Byte]
         /\ RestOf(bytes)[0] = 0
         /\ \A k \in 1..Len(bytes) :
              RestOf(bytes)[8 * k] = XorByte(CRC8_LUT[RestOf(bytes)[8 * (k - 1)] + 1], bytes[k])
<1>. DEFINE N == 8 * Len(bytes)
            b == Bits(bytes)
            R == RestOf(bytes)
<1>1. N \in Nat /\ Len(bytes) \in Nat
  OBVIOUS
<1>2. \A n \in 1..N : b[n] \in Bit
  BY BitsAre
<1>3. \A k \in 1..Len(bytes), j \in 0..7 : b[8 * (k - 1) + j + 1] = (bytes[k] \div 2^(7 - j)) % 2
  BY BitsAre
<1>. HIDE DEF b, N
<1>4. R \in [0..N -> Byte] /\ R[0] = 0 /\ \A n \in 1..N : R[n] = Shl(R[n - 1], b[n])
  BY <1>1, <1>2, RestsAre DEF RestOf, b, N
<1>5. ASSUME NEW k \in 1..Len(bytes)
      PROVE  R[8 * k] = XorByte(CRC8_LUT[R[8 * (k - 1)] + 1], bytes[k])
  <2>1. PICK a \in Word : bytes[k] = Value(a)
    BY ByteIsValue
  <2>2. ASSUME NEW j \in 0..7
        PROVE  R[8 * (k - 1) + (j + 1)] = Shl(R[8 * (k - 1) + j], a[7 - j])
    <3>. DEFINE n == 8 * (k - 1) + (j + 1)
    <3>1. n \in 1..N /\ n - 1 = 8 * (k - 1) + j /\ n = 8 * (k - 1) + j + 1 /\ 7 - j \in 0..7
      BY <1>1 DEF N
    <3>. HIDE DEF n
    <3>2. b[n] = a[7 - j]
      BY <1>3, <2>1, <3>1, BitOfValue
    <3>3. R[n] = Shl(R[n - 1], b[n])
      BY <1>4, <3>1
    <3>4. R[n] = Shl(R[8 * (k - 1) + j], a[7 - j])
      BY <3>1, <3>2, <3>3
    <3>. QED BY <3>4 DEF n
  <2>. DEFINE m == 8 * (k - 1)
  <2>3. /\ m \in 0..N /\ m + 0 = m /\ m + 8 = 8 * k /\ m \in Int
        /\ 0 + 1 = 1 /\ 1 + 1 = 2 /\ 2 + 1 = 3 /\ 3 + 1 = 4 /\ 4 + 1 = 5 /\ 5 + 1 = 6 /\ 6 + 1 = 7 /\ 7 + 1 = 8
        /\ 7 - 0 = 7 /\ 7 - 1 = 6 /\ 7 - 2 = 5 /\ 7 - 3 = 4 /\ 7 - 4 = 3 /\ 7 - 5 = 2 /\ 7 - 6 = 1 /\ 7 - 7 = 0
    BY <1>1 DEF N
  <2>. HIDE DEF m, R
  <2>4. \A j \in 0..7 : R[m + (j + 1)] = Shl(R[m + j], a[7 - j])
    BY <2>2 DEF m
  <2>5. /\ R[m + 1] = Shl(R[m], a[7]) /\ R[m + 2] = Shl(R[m + 1], a[6])
        /\ R[m + 3] = Shl(R[m + 2], a[5]) /\ R[m + 4] = Shl(R[m + 3], a[4])
        /\ R[m + 5] = Shl(R[m + 4], a[3]) /\ R[m + 6] = Shl(R[m + 5], a[2])
        /\ R[m + 7] = Shl(R[m + 6], a[1]) /\ R[8 * k] = Shl(R[m + 7], a[0])
    <3>1. 0 \in 0..7 /\ 1 \in 0..7 /\ 2 \in 0..7 /\ 3 \in 0..7 /\ 4 \in 0..7 /\ 5 \in 0..7 /\ 6 \in 0..7 /\ 7 \in 0..7
      OBVIOUS
    <3>. QED BY <2>3, <2>4, <3>1
  <2>6. R[8 * k] = XorByte(CRC8_LUT[R[m] + 1], Value(a))
    <3>1. R[m] \in Byte
      BY <1>4, <2>3
    <3>. QED BY <2>5, <3>1, EightSteps
  <2>. QED BY <2>1, <2>6 DEF m
<1>. QED BY <1>4, <1>5 DEF N

(* What is left of bytes, the last of which are their checksum. *)
LEMMA RestIsChecksum ==
  ASSUME NEW data \in Seq(Byte), NEW c \in Byte
  PROVE  /\ data \o <<c>> \in Seq(Byte) /\ Len(data \o <<c>>) = Len(data) + 1
         /\ RestOf(data \o <<c>>)[8 * Len(data \o <<c>>)] = XorByte(CalcCrc8(0, data), c)
<1>. DEFINE M == data \o <<c>>
            N == Len(data)
            f == Crcs(0, data)
            R == RestOf(M)
<1>1. M \in Seq(Byte) /\ N \in Nat /\ Len(M) = N + 1 /\ M[N + 1] = c /\ \A n \in 1..N : M[n] = data[n]
  OBVIOUS
<1>2. f \in [0..N -> Byte] /\ f[0] = 0 /\ (\A n \in 1..N : f[n] = CRC8_LUT[XorByte(f[n - 1], data[n]) + 1])
      /\ CalcCrc8(0, data) = f[N]
  <2>1. 0 \in Byte
    BY DEF Byte
  <2>. QED BY <2>1, CrcsAre
<1>. HIDE DEF M, N, f
<1>3. R[0] = 0 /\ \A k \in 1..(N + 1) : R[8 * k] = XorByte(CRC8_LUT[R[8 * (k - 1)] + 1], M[k])
  BY <1>1, RestOfBytes
<1>. HIDE DEF R
<1>4. \A n \in 0..N : R[8 * (n + 1)] = XorByte(f[n], M[n + 1])
  <2>. DEFINE T == {n \in 0..N : R[8 * (n + 1)] = XorByte(f[n], M[n + 1])}
  <2>1. 0 \in T
    <3>1. 1 \in 1..(N + 1) /\ 8 * (1 - 1) = 0 /\ 8 * (0 + 1) = 8 * 1 /\ 0 + 1 = 1 /\ 0 \in 0..N
      BY <1>1
    <3>2. R[8 * 1] = XorByte(CRC8_LUT[R[0] + 1], M[1])
      BY <1>3, <3>1
    <3>. QED BY <1>2, <1>3, <3>1, <3>2, TableDoubles
  <2>2. ASSUME NEW n \in 0..(N - 1), n \in T PROVE n + 1 \in T
    <3>1. /\ n + 2 \in 1..(N + 1) /\ 8 * ((n + 2) - 1) = 8 * (n + 1) /\ (n + 1) + 1 = n + 2
          /\ n + 1 \in 1..N /\ (n + 1) - 1 = n /\ n + 1 \in 0..N
      BY <1>1
    <3>2. R[8 * (n + 2)] = XorByte(CRC8_LUT[R[8 * (n + 1)] + 1], M[n + 2])
      BY <1>3, <3>1
    <3>3. f[n + 1] = CRC8_LUT[XorByte(f[n], M[n + 1]) + 1]
      BY <1>1, <1>2, <3>1
    <3>. QED BY <2>2, <3>1, <3>2, <3>3
  <2>. HIDE DEF T
  <2>3. \A n \in 0..N : n \in T
    BY <1>1, <2>1, <2>2, Induct
  <2>. QED BY <2>3 DEF T
<1>5. R[8 * Len(M)] = XorByte(CalcCrc8(0, data), c)
  BY <1>1, <1>2, <1>4
<1>. QED BY <1>1, <1>5 DEF M, N, R

(* The checksum by the table is the remainder. *)
LEMMA RemainderIs ==
  ASSUME NEW data \in Seq(Byte)
  PROVE  Remainder(data) = CalcCrc8(0, data)
<1>. DEFINE M == data \o <<0>>
<1>1. 0 \in Byte
  BY DEF Byte
<1>2. /\ M \in Seq(Byte) /\ RestOf(M)[8 * Len(M)] = XorByte(CalcCrc8(0, data), 0)
  BY <1>1, RestIsChecksum
<1>3. CalcCrc8(0, data) \in Byte
  BY <1>1, CrcLaws
<1>4. XorByte(CalcCrc8(0, data), 0) = CalcCrc8(0, data)
  BY <1>1, <1>3, XorLaws
<1>5. Remainder(data) = Rests(Len(Bits(M)), Bits(M))[Len(Bits(M))]
  BY DEF Remainder, Rests
<1>6. Len(Bits(M)) = 8 * Len(M)
  BY <1>2, BitsAre
<1>. QED BY <1>2, <1>4, <1>5, <1>6 DEF RestOf

-----------------------------------------------------------------------------
(* Bits that are added *)

LEMMA RestsAdd ==
  ASSUME NEW N \in Nat, NEW a \in [1..N -> Bit], NEW b \in [1..N -> Bit],
         NEW c \in [1..N -> Bit], \A n \in 1..N : c[n] = Plus(a[n], b[n])
  PROVE  \A n \in 0..N : Rests(N, c)[n] = XorByte(Rests(N, a)[n], Rests(N, b)[n])
<1>. DEFINE f == Rests(N, a)
            g == Rests(N, b)
            h == Rests(N, c)
            T == {n \in 0..N : h[n] = XorByte(f[n], g[n])}
<1>1. f \in [0..N -> Byte] /\ f[0] = 0 /\ \A n \in 1..N : f[n] = Shl(f[n - 1], a[n])
  BY RestsAre
<1>2. g \in [0..N -> Byte] /\ g[0] = 0 /\ \A n \in 1..N : g[n] = Shl(g[n - 1], b[n])
  BY RestsAre
<1>3. h[0] = 0 /\ \A n \in 1..N : h[n] = Shl(h[n - 1], c[n])
  <2>1. \A n \in 1..N : c[n] \in Bit
    BY PlusLaws
  <2>. QED BY <2>1, RestsAre
<1>. HIDE DEF f, g, h
<1>4. 0 \in T
  <2>1. XorByte(0, 0) = 0
    <3>1. 0 \in Byte
      BY DEF Byte
    <3>. QED BY <3>1, XorLaws
  <2>. QED BY <1>1, <1>2, <1>3, <2>1
<1>5. ASSUME NEW n \in 0..(N - 1), n \in T PROVE n + 1 \in T
  <2>1. n + 1 \in 1..N /\ (n + 1) - 1 = n /\ n + 1 \in 0..N /\ n \in 0..N
    OBVIOUS
  <2>2. f[n] \in Byte /\ g[n] \in Byte /\ a[n + 1] \in Bit /\ b[n + 1] \in Bit
    BY <1>1, <1>2, <2>1
  <2>3. h[n + 1] = Shl(XorByte(f[n], g[n]), Plus(a[n + 1], b[n + 1]))
    BY <1>3, <1>5, <2>1
  <2>4. h[n + 1] = XorByte(Shl(f[n], a[n + 1]), Shl(g[n], b[n + 1]))
    BY <2>2, <2>3, ShlLinear
  <2>. QED BY <1>1, <1>2, <2>1, <2>4
<1>. HIDE DEF T
<1>6. \A n \in 0..N : n \in T
  BY <1>4, <1>5, Induct
<1>. QED BY <1>6 DEF T, f, g, h

(* A one at each of these places *)
Ones(N, places) == [n \in 1..N |-> IF n - 1 \in places THEN 1 ELSE 0]

LEMMA OnesAre ==
  ASSUME NEW N \in Nat, NEW places
  PROVE  Ones(N, places) \in [1..N -> Bit]
BY DEF Ones, Bit

LEMMA OnesAdd ==
  ASSUME NEW N \in Nat, NEW places, NEW p \in Nat, p \notin places
  PROVE  \A n \in 1..N : Ones(N, places \cup {p})[n] = Plus(Ones(N, places)[n], Ones(N, {p})[n])
<1>1. Plus(0, 0) = 0 /\ Plus(1, 0) = 1 /\ Plus(0, 1) = 1
  BY DEF Plus
<1>2. ASSUME NEW n \in 1..N PROVE Ones(N, places \cup {p})[n] = Plus(Ones(N, places)[n], Ones(N, {p})[n])
  <2>1. CASE n - 1 = p
    BY <1>1, <2>1 DEF Ones
  <2>2. CASE n - 1 # p
    BY <1>1, <2>2 DEF Ones
  <2>. QED BY <2>1, <2>2
<1>. QED BY <1>2

LEMMA NoOnes ==
  ASSUME NEW N \in Nat
  PROVE  \A n \in 0..N : Rests(N, Ones(N, {}))[n] = 0
<1>. DEFINE f == Rests(N, Ones(N, {}))
            T == {n \in 0..N : f[n] = 0}
<1>1. f[0] = 0 /\ \A n \in 1..N : f[n] = Shl(f[n - 1], 0)
  <2>1. \A n \in 1..N : Ones(N, {})[n] = 0
    BY DEF Ones
  <2>. QED BY <2>1, OnesAre, RestsAre
<1>2. Shl(0, 0) = 0
  BY ShlIs DEF Byte, Bit
<1>. HIDE DEF f
<1>3. 0 \in T
  BY <1>1
<1>4. ASSUME NEW n \in 0..(N - 1), n \in T PROVE n + 1 \in T
  <2>1. n + 1 \in 1..N /\ (n + 1) - 1 = n /\ n + 1 \in 0..N
    OBVIOUS
  <2>. QED BY <1>1, <1>2, <1>4, <2>1
<1>. HIDE DEF T
<1>5. \A n \in 0..N : n \in T
  BY <1>3, <1>4, Induct
<1>. QED BY <1>5 DEF T, f

(* A bit that flips *)
LEMMA FlippedBits ==
  ASSUME NEW v \in Byte, NEW p \in Nat
  PROVE  /\ Flipped(v, p) \in Byte
         /\ \A j \in 0..7 :
              (Flipped(v, p) \div 2^(7 - j)) % 2
                = Plus((v \div 2^(7 - j)) % 2, IF j = p % 8 THEN 1 ELSE 0)
<1>. DEFINE i == 7 - (p % 8)
            u == [k \in 0..7 |-> IF k = i THEN 1 ELSE 0]
<1>1. i \in 0..7
  OBVIOUS
<1>. HIDE DEF i
<1>2. u \in Word
  BY DEF Word, Bit
<1>3. Value(u) = 2^i
  <2>1. /\ u[7] = (IF i = 7 THEN 1 ELSE 0) /\ u[6] = (IF i = 6 THEN 1 ELSE 0)
        /\ u[5] = (IF i = 5 THEN 1 ELSE 0) /\ u[4] = (IF i = 4 THEN 1 ELSE 0)
        /\ u[3] = (IF i = 3 THEN 1 ELSE 0) /\ u[2] = (IF i = 2 THEN 1 ELSE 0)
        /\ u[1] = (IF i = 1 THEN 1 ELSE 0) /\ u[0] = (IF i = 0 THEN 1 ELSE 0)
    OBVIOUS
  <2>2. 2^0 = 1 /\ 2^1 = 2 /\ 2^2 = 4 /\ 2^3 = 8 /\ 2^4 = 16 /\ 2^5 = 32 /\ 2^6 = 64 /\ 2^7 = 128
    OBVIOUS
  <2>3. i = 0 \/ i = 1 \/ i = 2 \/ i = 3 \/ i = 4 \/ i = 5 \/ i = 6 \/ i = 7
    BY <1>1
  <2>. HIDE DEF u
  <2>5. CASE i = 0 BY <2>1, <2>2, <2>5 DEF Value
  <2>6. CASE i = 1 BY <2>1, <2>2, <2>6 DEF Value
  <2>7. CASE i = 2 BY <2>1, <2>2, <2>7 DEF Value
  <2>8. CASE i = 3 BY <2>1, <2>2, <2>8 DEF Value
  <2>9. CASE i = 4 BY <2>1, <2>2, <2>9 DEF Value
  <2>10. CASE i = 5 BY <2>1, <2>2, <2>10 DEF Value
  <2>11. CASE i = 6 BY <2>1, <2>2, <2>11 DEF Value
  <2>12. CASE i = 7 BY <2>1, <2>2, <2>12 DEF Value
  <2>. QED BY <2>3, <2>5, <2>6, <2>7, <2>8, <2>9, <2>10, <2>11, <2>12
<1>4. PICK a \in Word : v = Value(a)
  BY ByteIsValue
<1>5. Flipped(v, p) = Value(Sum8(a, u)) /\ Sum8(a, u) \in Word
  BY <1>2, <1>3, <1>4, XorWords, SumTyped DEF Flipped, i
<1>6. ASSUME NEW j \in 0..7
      PROVE  (Flipped(v, p) \div 2^(7 - j)) % 2 = Plus((v \div 2^(7 - j)) % 2, IF j = p % 8 THEN 1 ELSE 0)
  <2>1. 7 - j \in 0..7 /\ (7 - j = i <=> j = p % 8)
    BY DEF i
  <2>2. (Flipped(v, p) \div 2^(7 - j)) % 2 = Sum8(a, u)[7 - j]
    BY <1>5, <2>1, BitOfValue
  <2>3. (v \div 2^(7 - j)) % 2 = a[7 - j]
    BY <1>4, <2>1, BitOfValue
  <2>4. Sum8(a, u)[7 - j] = Plus(a[7 - j], IF 7 - j = i THEN 1 ELSE 0)
    BY <2>1 DEF Sum8
  <2>. QED BY <2>1, <2>2, <2>3, <2>4
<1>. QED BY <1>5, <1>6, ValueTyped

(* A bit that flips in one of the bytes adds a one at its place. *)
LEMMA FlipAdds ==
  ASSUME NEW bytes \in Seq(Byte), NEW damaged \in Seq(Byte), Len(damaged) = Len(bytes),
         NEW p \in 0..(8 * Len(bytes) - 1),
         \A k \in 1..Len(bytes) : damaged[k] = IF k = p \div 8 + 1 THEN Flipped(bytes[k], p) ELSE bytes[k]
  PROVE  \A n \in 1..(8 * Len(bytes)) :
           Bits(damaged)[n] = Plus(Bits(bytes)[n], Ones(8 * Len(bytes), {p})[n])
<1>1. SUFFICES ASSUME NEW n \in 1..(8 * Len(bytes))
               PROVE  Bits(damaged)[n] = Plus(Bits(bytes)[n], Ones(8 * Len(bytes), {p})[n])
  OBVIOUS
<1>2. Len(bytes) \in Nat
  OBVIOUS
<1>3. PICK k \in 1..Len(bytes), j \in 0..7 : n = 8 * (k - 1) + j + 1
  <2>1. \A m \in Nat : \E q \in Nat, j \in 0..7 : m = 8 * q + j
    <3>1. ASSUME NEW m \in Nat PROVE \E q \in Nat, j \in 0..7 : m = 8 * q + j
      <4>1. PICK q, j : q = m \div 8 /\ j = m % 8
        OBVIOUS
      <4>2. q \in Nat /\ j \in 0..7 /\ m = 8 * q + j
        BY <4>1
      <4>. QED BY <4>2
    <3>. QED BY <3>1
  <2>2. PICK q \in Nat, j \in 0..7 : n - 1 = 8 * q + j
    <3>1. n - 1 \in Nat
      BY <1>2
    <3>. QED BY <2>1, <3>1
  <2>3. q + 1 \in 1..Len(bytes) /\ n = 8 * ((q + 1) - 1) + j + 1
    BY <1>2, <2>2
  <2>. QED BY <2>3
<1>4. n - 1 = p <=> k = p \div 8 + 1 /\ j = p % 8
  BY <1>2, <1>3
<1>5. /\ Bits(damaged)[n] = (damaged[k] \div 2^(7 - j)) % 2
      /\ Bits(bytes)[n] = (bytes[k] \div 2^(7 - j)) % 2
  BY <1>3, BitsAre
<1>6. Ones(8 * Len(bytes), {p})[n] = IF n - 1 = p THEN 1 ELSE 0
  BY <1>1 DEF Ones
<1>7. bytes[k] \in Byte /\ p \in Nat /\ Bits(bytes)[n] \in Bit
  <2>1. bytes[k] \in Byte
    OBVIOUS
  <2>2. Bits(bytes) \in [1..(8 * Len(bytes)) -> Bit]
    BY BitsAre
  <2>. QED BY <1>1, <1>2, <2>1, <2>2
<1>8. CASE k = p \div 8 + 1
  <2>1. (Flipped(bytes[k], p) \div 2^(7 - j)) % 2
          = Plus((bytes[k] \div 2^(7 - j)) % 2, IF j = p % 8 THEN 1 ELSE 0)
    BY <1>7, FlippedBits
  <2>2. damaged[k] = Flipped(bytes[k], p)
    BY <1>8
  <2>3. (n - 1 = p) <=> (j = p % 8)
    BY <1>4, <1>8
  <2>4. Bits(damaged)[n] = Plus(Bits(bytes)[n], IF j = p % 8 THEN 1 ELSE 0)
    BY <1>5, <2>1, <2>2
  <2>. QED BY <1>6, <2>3, <2>4
<1>9. CASE k # p \div 8 + 1
  <2>1. Plus(Bits(bytes)[n], 0) = Bits(bytes)[n]
    BY <1>7, PlusLaws
  <2>2. Bits(damaged)[n] = Bits(bytes)[n]
    BY <1>5, <1>9
  <2>3. Ones(8 * Len(bytes), {p})[n] = 0
    BY <1>4, <1>6, <1>9
  <2>. QED BY <2>1, <2>2, <2>3
<1>. QED BY <1>8, <1>9

-----------------------------------------------------------------------------
(* What ones leave *)

(* Nothing, before the first of them; ... *)
LEMMA QuietBefore ==
  ASSUME NEW N \in Nat, NEW bits, \A n \in 1..N : bits[n] \in Bit,
         NEW m \in 0..N, \A n \in 1..m : bits[n] = 0
  PROVE  Rests(N, bits)[m] = 0
<1>. DEFINE f == Rests(N, bits)
            T == {n \in 0..m : f[n] = 0}
<1>1. f[0] = 0 /\ \A n \in 1..N : f[n] = Shl(f[n - 1], bits[n])
  BY RestsAre
<1>2. Shl(0, 0) = 0
  BY ShlIs DEF Byte, Bit
<1>. HIDE DEF f
<1>3. 0 \in T
  BY <1>1
<1>4. ASSUME NEW n \in 0..(m - 1), n \in T PROVE n + 1 \in T
  <2>1. n + 1 \in 1..N /\ n + 1 \in 1..m /\ (n + 1) - 1 = n /\ n + 1 \in 0..m
    OBVIOUS
  <2>. QED BY <1>1, <1>2, <1>4, <2>1
<1>5. m \in Nat /\ m \in 0..m
  OBVIOUS
<1>. HIDE DEF T
<1>6. \A n \in 0..m : n \in T
  BY <1>3, <1>4, <1>5, Induct
<1>. QED BY <1>5, <1>6 DEF T, f

(* ... and something at the end, once there was something and no ones are  *)
(* left.                                                                   *)
LEMMA QuietAfter ==
  ASSUME NEW N \in Nat, NEW bits, \A n \in 1..N : bits[n] \in Bit,
         NEW m \in 0..N, \A n \in (m + 1)..N : bits[n] = 0, Rests(N, bits)[m] # 0
  PROVE  Rests(N, bits)[N] # 0
<1>. DEFINE f == Rests(N, bits)
            T == {k \in 0..(N - m) : f[m + k] # 0}
<1>1. f \in [0..N -> Byte] /\ \A n \in 1..N : f[n] = Shl(f[n - 1], bits[n])
  BY RestsAre
<1>2. f[m] # 0
  OBVIOUS
<1>. HIDE DEF f
<1>3. 0 \in T
  BY <1>2
<1>4. ASSUME NEW k \in 0..((N - m) - 1), k \in T PROVE k + 1 \in T
  <2>1. /\ m + (k + 1) \in 1..N /\ m + (k + 1) \in (m + 1)..N /\ (m + (k + 1)) - 1 = m + k
        /\ k + 1 \in 0..(N - m) /\ m + k \in 0..N
    OBVIOUS
  <2>2. f[m + (k + 1)] = Dbl(f[m + k]) /\ f[m + k] \in Byte
    BY <1>1, <2>1 DEF Dbl
  <2>3. 0 \in Bit
    BY DEF Bit
  <2>. QED BY <1>4, <2>1, <2>2, <2>3, DblLaws
<1>5. N - m \in Nat /\ N - m \in 0..(N - m) /\ m + (N - m) = N
  OBVIOUS
<1>. HIDE DEF T
<1>6. \A k \in 0..(N - m) : k \in T
  BY <1>3, <1>4, <1>5, Induct
<1>. QED BY <1>5, <1>6 DEF T, f

(* The first of them *)
LEMMA FirstOne ==
  ASSUME NEW N \in Nat, NEW S \in SUBSET (0..(N - 1)), NEW p \in S, \A q \in S : p <= q
  PROVE  Rests(N, Ones(N, S))[p + 1] = 1
<1>1. \A n \in 1..p : Ones(N, S)[n] = 0
  <2>1. ASSUME NEW n \in 1..p PROVE Ones(N, S)[n] = 0
    <3>1. n \in 1..N /\ ~(p <= n - 1)
      OBVIOUS
    <3>. QED BY <3>1 DEF Ones
  <2>. QED BY <2>1
<1>2. Rests(N, Ones(N, S))[p] = 0
  BY <1>1, OnesAre, QuietBefore
<1>3. p + 1 \in 1..N /\ (p + 1) - 1 = p /\ Ones(N, S)[p + 1] = 1
  BY DEF Ones
<1>4. Rests(N, Ones(N, S))[p + 1] = Shl(0, 1)
  BY <1>2, <1>3, OnesAre, RestsAre
<1>5. Shl(0, 1) = 1
  BY ShlIs DEF Byte, Bit
<1>. QED BY <1>4, <1>5

(* Eight bits in a row do not overflow the byte. *)
LEMMA BurstRemains ==
  ASSUME NEW N \in Nat, NEW S \in SUBSET (0..(N - 1)), S # {},
         \A p, q \in S : p - q < 8
  PROVE  Rests(N, Ones(N, S))[N] # 0
<1>. DEFINE f == Rests(N, Ones(N, S))
<1>1. PICK p \in S : \A q \in S : p <= q
  <2>1. S \subseteq Nat
    OBVIOUS
  <2>. QED BY <2>1, LeastNumber
<1>2. p \in 0..(N - 1)
  BY <1>1
<1>3. f[p + 1] = 1
  BY <1>1, FirstOne
<1>4. f \in [0..N -> Byte] /\ \A n \in 1..N : f[n] = Shl(f[n - 1], Ones(N, S)[n])
  BY OnesAre, RestsAre
<1>. HIDE DEF f
<1>5. ASSUME NEW n \in 1..(N - 1), f[n] \in 1..127
      PROVE  f[n + 1] = 2 * f[n] \/ f[n + 1] = 2 * f[n] + 1
  <2>1. n + 1 \in 1..N /\ (n + 1) - 1 = n
    OBVIOUS
  <2>2. Ones(N, S)[n + 1] \in Bit
    BY <2>1, OnesAre
  <2>3. f[n] \in Byte /\ f[n] < 128
    BY <1>5 DEF Byte
  <2>4. f[n + 1] = 2 * f[n] + Ones(N, S)[n + 1]
    BY <1>4, <2>1, <2>2, <2>3, ShlIs
  <2>. QED BY <1>5, <2>2, <2>4 DEF Bit
<1>6. ASSUME NEW n \in 1..(N - 1)
      PROVE  /\ f[n] \in 1..1 => f[n + 1] \in 1..3
             /\ f[n] \in 1..3 => f[n + 1] \in 1..7
             /\ f[n] \in 1..7 => f[n + 1] \in 1..15
             /\ f[n] \in 1..15 => f[n + 1] \in 1..31
             /\ f[n] \in 1..31 => f[n + 1] \in 1..63
             /\ f[n] \in 1..63 => f[n + 1] \in 1..127
             /\ f[n] \in 1..127 => f[n + 1] \in 1..255
  <2>1. SUFFICES ASSUME NEW x \in 1..127, NEW y, x = f[n], y = f[n + 1]
                 PROVE  /\ x \in 1..1 => y \in 1..3
                        /\ x \in 1..3 => y \in 1..7
                        /\ x \in 1..7 => y \in 1..15
                        /\ x \in 1..15 => y \in 1..31
                        /\ x \in 1..31 => y \in 1..63
                        /\ x \in 1..63 => y \in 1..127
                        /\ x \in 1..127 => y \in 1..255
    <3>2. 1..1 \subseteq 1..127 /\ 1..3 \subseteq 1..127 /\ 1..7 \subseteq 1..127 /\ 1..15 \subseteq 1..127
          /\ 1..31 \subseteq 1..127 /\ 1..63 \subseteq 1..127
      OBVIOUS
    <3>. QED BY <3>2
  <2>2. y = 2 * x \/ y = 2 * x + 1
    BY <1>5, <2>1
  <2>. QED BY <2>2
<1>7. /\ f[p + 1] \in 1..1 /\ p + 1 <= N
      /\ p + 2 <= N => f[p + 2] \in 1..3
      /\ p + 3 <= N => f[p + 3] \in 1..7
      /\ p + 4 <= N => f[p + 4] \in 1..15
      /\ p + 5 <= N => f[p + 5] \in 1..31
      /\ p + 6 <= N => f[p + 6] \in 1..63
      /\ p + 7 <= N => f[p + 7] \in 1..127
      /\ p + 8 <= N => f[p + 8] \in 1..255
  <2>0. /\ p + 1 + 1 = p + 2 /\ p + 2 + 1 = p + 3 /\ p + 3 + 1 = p + 4 /\ p + 4 + 1 = p + 5
        /\ p + 5 + 1 = p + 6 /\ p + 6 + 1 = p + 7 /\ p + 7 + 1 = p + 8 /\ p + 1 <= N
    BY <1>2
  <2>9. \A k \in 1..7 : p + k + 1 <= N => p + k <= N /\ p + k \in 1..(N - 1)
    BY <1>2
  <2>1. f[p + 1] \in 1..1
    BY <1>3
  <2>. HIDE DEF f
  <2>2. p + 2 <= N => f[p + 2] \in 1..3
    BY <1>2, <1>6, <2>1
  <2>3. p + 3 <= N => f[p + 3] \in 1..7
    BY <1>2, <1>6, <2>2
  <2>4. p + 4 <= N => f[p + 4] \in 1..15
    BY <1>2, <1>6, <2>3
  <2>5. p + 5 <= N => f[p + 5] \in 1..31
    BY <1>2, <1>6, <2>4
  <2>6. p + 6 <= N => f[p + 6] \in 1..63
    BY <1>2, <1>6, <2>5
  <2>7. p + 7 <= N => f[p + 7] \in 1..127
    BY <1>2, <1>6, <2>6
  <2>8. p + 8 <= N => f[p + 8] \in 1..255
    BY <1>2, <1>6, <2>7
  <2>. QED BY <2>0, <2>1, <2>2, <2>3, <2>4, <2>5, <2>6, <2>7, <2>8
<1>8. CASE p + 8 <= N
  <2>1. f[p + 8] # 0 /\ p + 8 \in 0..N
    BY <1>2, <1>7, <1>8
  <2>2. \A n \in (p + 8 + 1)..N : Ones(N, S)[n] = 0
    <3>1. ASSUME NEW n \in (p + 8 + 1)..N PROVE Ones(N, S)[n] = 0
      <4>1. n \in 1..N /\ ~((n - 1) - p < 8)
        BY <1>2
      <4>. QED BY <1>1, <4>1 DEF Ones
    <3>. QED BY <3>1
  <2>. QED BY <2>1, <2>2, OnesAre, QuietAfter DEF f
<1>9. CASE ~(p + 8 <= N)
  <2>1. PICK k \in 1..7 : N = p + k
    <3>1. N - p \in 1..7 /\ N = p + (N - p)
      BY <1>2, <1>9
    <3>. QED BY <3>1
  <2>2. f[p + k] # 0
    <3>1. k = 1 \/ k = 2 \/ k = 3 \/ k = 4 \/ k = 5 \/ k = 6 \/ k = 7
      OBVIOUS
    <3>2. \A m \in Nat : 0 \notin 1..m
      OBVIOUS
    <3>3. p + k <= N
      BY <1>2, <2>1
    <3>. QED BY <1>7, <3>1, <3>2, <3>3
  <2>. QED BY <2>1, <2>2 DEF f
<1>. QED BY <1>8, <1>9

(* A one, and so many bits of nothing after it *)
Powers ==
  <<1, 2, 4, 8, 16, 32, 64, 128, 7, 14, 28, 56, 112, 224, 199, 137,
    21, 42, 84, 168, 87, 174, 91, 182, 107, 214, 171, 81, 162, 67, 134, 11,
    22, 44, 88, 176, 103, 206, 155, 49, 98, 196, 143, 25, 50, 100, 200, 151,
    41, 82, 164, 79, 158, 59, 118, 236, 223, 185, 117, 234, 211, 161, 69, 138,
    19, 38, 76, 152, 55, 110, 220, 191, 121, 242, 227, 193, 133, 13, 26, 52,
    104, 208, 167, 73, 146, 35, 70, 140, 31, 62, 124, 248, 247, 233, 213, 173,
    93, 186, 115, 230, 203, 145, 37, 74, 148, 47, 94, 188, 127, 254, 251, 241,
    229, 205, 157, 61, 122, 244, 239, 217, 181, 109, 218, 179, 97, 194, 131>>

LEMMA PowersDouble ==
  /\ Powers[1] = 1 /\ \A k \in 1..127 : Powers[k] \in Byte
  /\ \A k \in 1..126 : Powers[k + 1] = Dbl(Powers[k]) /\ Powers[k + 1] # 1
<1>1. Powers[1] = 1
  BY DEF Powers
<1>2. \A k \in 1..127 : Powers[k] \in 0..255
  BY DEF Powers
<1>3. \A k \in 1..126 : Powers[k + 1] = IF Powers[k] < 128 THEN 2 * Powers[k]
                                       ELSE LET w == 2 * Powers[k] - 256 IN w + 7 - 2 * (w % 8)
  BY DEF Powers
<1>4. \A k \in 2..127 : Powers[k] # 1
  BY DEF Powers
<1>5. ASSUME NEW k \in 1..126 PROVE Powers[k + 1] = Dbl(Powers[k]) /\ Powers[k + 1] # 1
  <2>1. PICK r \in Byte : r = Powers[k]
    <3>1. k \in 1..127
      OBVIOUS
    <3>2. Powers[k] \in Byte
      BY <1>2, <3>1 DEF Byte
    <3>. QED BY <3>2, Zenon
  <2>2. Dbl(r) = IF r < 128 THEN 2 * r ELSE LET w == 2 * r - 256 IN w + 7 - 2 * (w % 8)
    BY ShlIs DEF Dbl, Byte, Bit
  <2>3. k + 1 \in 2..127
    OBVIOUS
  <2>4. Powers[k + 1] = Dbl(r)
    BY <1>3, <2>1, <2>2
  <2>. QED BY <1>4, <2>1, <2>3, <2>4
<1>. QED BY <1>1, <1>2, <1>5 DEF Byte

(* Two bits leave something when they are less than 127 apart, the order   *)
(* of 2 among the bytes.                                                   *)
LEMMA TwoRemain ==
  ASSUME NEW N \in Nat, NEW p \in 0..(N - 1), NEW q \in 0..(N - 1), p < q, q - p < 127
  PROVE  Rests(N, Ones(N, {p, q}))[N] # 0
<1>. DEFINE S == {p, q}
            b == Ones(N, S)
            f == Rests(N, b)
            d == q - p
            T == {k \in 0..(d - 1) : f[p + 1 + k] = Powers[k + 1]}
<1>1. f[p + 1] = 1
  <2>1. S \in SUBSET (0..(N - 1)) /\ p \in S /\ \A x \in S : p <= x
    OBVIOUS
  <2>. HIDE DEF S
  <2>. QED BY <2>1, FirstOne
<1>2. f \in [0..N -> Byte] /\ \A n \in 1..N : f[n] = Shl(f[n - 1], b[n])
  BY OnesAre, RestsAre
<1>3. (\A n \in (p + 2)..q : b[n] = 0) /\ b[q + 1] = 1 /\ \A n \in (q + 2)..N : b[n] = 0
  BY DEF Ones
<1>4. d \in 1..126 /\ q = p + d
  OBVIOUS
<1>. HIDE DEF f, b, d
<1>5. 0 \in T
  <2>1. p + 1 + 0 = p + 1 /\ 0 + 1 = 1 /\ 0 \in 0..(d - 1)
    BY <1>4
  <2>. QED BY <1>1, <2>1, PowersDouble
<1>6. ASSUME NEW k \in 0..((d - 1) - 1), k \in T PROVE k + 1 \in T
  <2>1. /\ p + 1 + (k + 1) \in 1..N /\ (p + 1 + (k + 1)) - 1 = p + 1 + k
        /\ p + 1 + (k + 1) \in (p + 2)..q /\ k + 1 \in 0..(d - 1) /\ k + 1 \in 1..126
    BY <1>4
  <2>2. f[p + 1 + (k + 1)] = Dbl(f[p + 1 + k])
    BY <1>2, <1>3, <2>1 DEF Dbl
  <2>. QED BY <1>6, <2>1, <2>2, PowersDouble
<1>7. d - 1 \in Nat /\ d - 1 \in 0..(d - 1) /\ p + 1 + (d - 1) = q /\ (d - 1) + 1 = d
  BY <1>4
<1>. HIDE DEF T
<1>8. \A k \in 0..(d - 1) : k \in T
  BY <1>5, <1>6, <1>7, Induct
<1>9. f[q] = Powers[d]
  BY <1>7, <1>8 DEF T
<1>10. f[q + 1] = XorByte(Powers[d + 1], 1)
  <2>1. q + 1 \in 1..N /\ (q + 1) - 1 = q
    OBVIOUS
  <2>2. f[q + 1] = Shl(Powers[d], 1)
    BY <1>2, <1>3, <1>9, <2>1
  <2>3. Powers[d] \in Byte /\ Dbl(Powers[d]) = Powers[d + 1]
    BY <1>4, PowersDouble
  <2>4. 0 \in Byte /\ 1 \in Bit
    BY DEF Byte, Bit
  <2>5. Shl(XorByte(Powers[d], 0), 1) = XorByte(Dbl(Powers[d]), Shl(0, 1))
    BY <2>3, <2>4, DblLaws
  <2>6. XorByte(Powers[d], 0) = Powers[d]
    BY <2>3, <2>4, XorLaws
  <2>7. Shl(0, 1) = 1
    BY ShlIs DEF Byte, Bit
  <2>. QED BY <2>2, <2>3, <2>5, <2>6, <2>7
<1>11. f[q + 1] # 0
  <2>1. Powers[d + 1] \in Byte /\ Powers[d + 1] # 1 /\ 1 \in Byte /\ 0 \in Byte
    <3>1. d \in 1..126 /\ d + 1 \in 1..127
      BY <1>4
    <3>2. 1 \in Byte /\ 0 \in Byte
      BY DEF Byte
    <3>3. Powers[d + 1] \in Byte
      BY <3>1, PowersDouble, Zenon
    <3>4. Powers[d + 1] # 1
      BY <3>1, PowersDouble, Zenon
    <3>. QED BY <3>2, <3>3, <3>4
  <2>2. XorByte(XorByte(Powers[d + 1], 1), 1) = XorByte(Powers[d + 1], XorByte(1, 1))
    BY <2>1, XorLaws
  <2>3. XorByte(1, 1) = 0 /\ XorByte(Powers[d + 1], 0) = Powers[d + 1]
    BY <2>1, XorLaws
  <2>4. XorByte(0, 1) = 1
    BY <2>1, XorLaws
  <2>. QED BY <1>10, <2>1, <2>2, <2>3, <2>4
<1>12. q + 1 \in 0..N /\ (q + 1) + 1 = q + 2
  OBVIOUS
<1>. QED BY <1>3, <1>11, <1>12, OnesAre, QuietAfter DEF f, b

(* The polynomial has an even number of terms: the division keeps the      *)
(* parity.                                                                 *)
Odd(a) == (a[7] + a[6] + a[5] + a[4] + a[3] + a[2] + a[1] + a[0]) % 2
Parity(v) == Odd([j \in 0..7 |-> (v \div 2^j) % 2])

LEMMA ParityOfValue ==
  ASSUME NEW a \in Word
  PROVE  Parity(Value(a)) = Odd(a)
<1>1. [j \in 0..7 |-> (Value(a) \div 2^j) % 2] = a
  BY BitOfValue DEF Word
<1>. QED BY <1>1 DEF Parity

LEMMA ShlParity ==
  ASSUME NEW v \in Byte, NEW b \in Bit
  PROVE  Parity(Shl(v, b)) = Plus(Parity(v), b)
<1>1. PICK a \in Word : v = Value(a)
  BY ByteIsValue
<1>. DEFINE s == ShlWord(a, b)
<1>2. s \in Word /\ Shl(v, b) = Value(s)
  BY <1>1, ShlIsWord
<1>3. /\ s[7] = a[6] /\ s[6] = a[5] /\ s[5] = a[4] /\ s[4] = a[3] /\ s[3] = a[2]
      /\ s[2] = (a[1] + a[7]) % 2 /\ s[1] = (a[0] + a[7]) % 2 /\ s[0] = (b + a[7]) % 2
  BY DEF ShlWord, Plus
<1>. HIDE DEF s
<1>4. PICK a7 \in Bit, a6 \in Bit, a5 \in Bit, a4 \in Bit, a3 \in Bit, a2 \in Bit, a1 \in Bit, a0 \in Bit :
        a7 = a[7] /\ a6 = a[6] /\ a5 = a[5] /\ a4 = a[4] /\ a3 = a[3] /\ a2 = a[2] /\ a1 = a[1] /\ a0 = a[0]
  BY WordIs
<1>5. Parity(v) = (a7 + a6 + a5 + a4 + a3 + a2 + a1 + a0) % 2
  BY <1>1, <1>4, ParityOfValue DEF Odd
<1>6. Parity(Shl(v, b)) = (a6 + a5 + a4 + a3 + a2 + ((a1 + a7) % 2) + ((a0 + a7) % 2) + ((b + a7) % 2)) % 2
  <2>1. Parity(Value(s)) = Odd(s)
    BY <1>2, ParityOfValue
  <2>2. s[7] = a6 /\ s[6] = a5 /\ s[5] = a4 /\ s[4] = a3 /\ s[3] = a2
    BY <1>3, <1>4
  <2>3. s[2] = (a1 + a7) % 2 /\ s[1] = (a0 + a7) % 2 /\ s[0] = (b + a7) % 2
    BY <1>3, <1>4
  <2>4. Odd(s) = (a6 + a5 + a4 + a3 + a2 + ((a1 + a7) % 2) + ((a0 + a7) % 2) + ((b + a7) % 2)) % 2
    BY <2>2, <2>3 DEF Odd, Bit
  <2>. QED BY <1>2, <2>1, <2>4
<1>7. \A x \in 0..5 : (x + ((a1 + a7) % 2) + ((a0 + a7) % 2) + ((b + a7) % 2)) % 2
                      = (((a7 + x + a1 + a0) % 2) + b) % 2
  BY DEF Bit
<1>8. a6 + a5 + a4 + a3 + a2 \in 0..5
  BY DEF Bit
<1>9. PICK x \in 0..5 : x = a6 + a5 + a4 + a3 + a2
  BY <1>8
<1>10. Parity(v) = (a7 + x + a1 + a0) % 2
  <2>1. a7 + a6 + a5 + a4 + a3 + a2 + a1 + a0 = a7 + x + a1 + a0
    BY <1>9 DEF Bit
  <2>. QED BY <1>5, <2>1
<1>11. Parity(Shl(v, b)) = (x + ((a1 + a7) % 2) + ((a0 + a7) % 2) + ((b + a7) % 2)) % 2
  BY <1>6, <1>9
<1>. QED BY <1>7, <1>10, <1>11 DEF Plus

LEMMA OddRemain ==
  ASSUME NEW N \in Nat, NEW S \in SUBSET (0..(N - 1)), IsFiniteSet(S), Cardinality(S) % 2 = 1
  PROVE  Rests(N, Ones(N, S))[N] # 0
<1>. DEFINE f == Rests(N, Ones(N, S))
            C(n) == S \cap (0..(n - 1))
            T == {n \in 0..N : /\ IsFiniteSet(C(n)) /\ Cardinality(C(n)) \in Nat
                               /\ Parity(f[n]) = Cardinality(C(n)) % 2}
<1>1. f \in [0..N -> Byte] /\ f[0] = 0 /\ \A n \in 1..N : f[n] = Shl(f[n - 1], Ones(N, S)[n])
  BY OnesAre, RestsAre
<1>. HIDE DEF f
<1>2. Parity(0) = 0
  <2>. DEFINE z == [k \in 0..7 |-> 0]
  <2>1. z \in Word /\ Value(z) = 0
    BY DEF Word, Bit, Value
  <2>2. Odd(z) = 0
    <3>1. z[7] = 0 /\ z[6] = 0 /\ z[5] = 0 /\ z[4] = 0 /\ z[3] = 0 /\ z[2] = 0 /\ z[1] = 0 /\ z[0] = 0
      OBVIOUS
    <3>. HIDE DEF z
    <3>. QED BY <3>1 DEF Odd
  <2>. HIDE DEF z
  <2>3. Parity(Value(z)) = 0
    BY <2>1, <2>2, ParityOfValue
  <2>. QED BY <2>1, <2>3
<1>3. 0 \in T
  <2>1. C(0) = {}
    OBVIOUS
  <2>. QED BY <1>1, <1>2, <2>1, FS_EmptySet
<1>4. ASSUME NEW n \in 0..(N - 1), n \in T PROVE n + 1 \in T
  <2>1. n + 1 \in 1..N /\ (n + 1) - 1 = n /\ n + 1 \in 0..N /\ n \in 0..N
    OBVIOUS
  <2>2. f[n] \in Byte /\ f[n + 1] = Shl(f[n], Ones(N, S)[n + 1])
    BY <1>1, <2>1
  <2>3. Ones(N, S)[n + 1] = IF n \in S THEN 1 ELSE 0
    BY <2>1 DEF Ones
  <2>4. IsFiniteSet(C(n)) /\ Cardinality(C(n)) \in Nat /\ Parity(f[n]) = Cardinality(C(n)) % 2
    BY <1>4
  <2>5. C(n + 1) = (IF n \in S THEN C(n) \cup {n} ELSE C(n)) /\ n \notin C(n)
    BY <2>1
  <2>. HIDE DEF C
  <2>6. CASE n \in S
    <3>1. IsFiniteSet(C(n + 1)) /\ Cardinality(C(n + 1)) = Cardinality(C(n)) + 1
      BY <2>4, <2>5, <2>6, FS_AddElement
    <3>2. Parity(f[n + 1]) = Plus(Parity(f[n]), 1)
      <4>1. 1 \in Bit
        BY DEF Bit
      <4>. QED BY <2>2, <2>3, <2>6, <4>1, ShlParity
    <3>3. Plus(Cardinality(C(n)) % 2, 1) = (Cardinality(C(n)) + 1) % 2
      BY <2>4 DEF Plus
    <3>. QED BY <2>1, <2>4, <3>1, <3>2, <3>3
  <2>7. CASE n \notin S
    <3>1. Parity(f[n + 1]) = Plus(Parity(f[n]), 0)
      <4>1. 0 \in Bit
        BY DEF Bit
      <4>. QED BY <2>2, <2>3, <2>7, <4>1, ShlParity
    <3>2. Plus(Cardinality(C(n)) % 2, 0) = Cardinality(C(n)) % 2
      BY <2>4 DEF Plus
    <3>. QED BY <2>1, <2>4, <2>5, <2>7, <3>1, <3>2
  <2>. QED BY <2>6, <2>7
<1>5. C(N) = S
  OBVIOUS
<1>. HIDE DEF T, C
<1>6. \A n \in 0..N : n \in T
  BY <1>3, <1>4, Induct
<1>7. Parity(f[N]) = 1
  BY <1>5, <1>6 DEF T
<1>. QED BY <1>2, <1>7 DEF f

(* What is detected: a few bits anywhere, or any of a burst. *)
LEMMA OnesRemain ==
  ASSUME NEW N \in Nat, NEW S \in SUBSET (0..(N - 1)), IsFiniteSet(S), S # {},
         \/ \A p, q \in S : p - q < 8
         \/ Cardinality(S) <= 1
         \/ Cardinality(S) <= 3 /\ N <= 127
  PROVE  Rests(N, Ones(N, S))[N] # 0
<1>1. Cardinality(S) \in Nat \ {0}
  BY FS_EmptySet, FS_CardinalityType
<1>2. CASE \A p, q \in S : p - q < 8
  BY <1>2, BurstRemains
<1>3. CASE Cardinality(S) = 1 \/ Cardinality(S) = 3
  <2>1. Cardinality(S) % 2 = 1
    BY <1>3
  <2>. QED BY <2>1, OddRemain
<1>4. CASE Cardinality(S) = 2 /\ N <= 127
  <2>1. PICK x \in S : TRUE
    OBVIOUS
  <2>2. IsFiniteSet(S \ {x}) /\ Cardinality(S \ {x}) = 1
    BY <1>4, FS_RemoveElement
  <2>3. PICK y : S \ {x} = {y}
    BY <2>2, FS_Singleton
  <2>4. S = {x, y} /\ S = {y, x} /\ x # y /\ x \in 0..(N - 1) /\ y \in 0..(N - 1)
    BY <2>3
  <2>5. CASE x < y
    BY <1>4, <2>4, <2>5, TwoRemain
  <2>6. CASE y < x
    BY <1>4, <2>4, <2>6, TwoRemain
  <2>. QED BY <2>4, <2>5, <2>6
<1>. QED BY <1>1, <1>2, <1>3, <1>4

-----------------------------------------------------------------------------
(* What is in flash: the bytes of the header that the checksum covers, and *)
(* these with the data and the checksum behind them.                       *)
Header(b) == TwoBytes(b.tag) \o TwoBytes(b.length)
Codeword(b, e) == Header(b) \o e \o <<b.crc8>>

Uint16 == {n \in Nat : n < 65536}
Blocks == [tag : Uint16, length : Uint16, crc8 : Byte]
Size == 8 * (5 + Len(entity))

LEMMA TwoBytesAre ==
  ASSUME NEW n \in Uint16
  PROVE  /\ TwoBytes(n) \in Seq(Byte) /\ Len(TwoBytes(n)) = 2
         /\ TwoBytes(n)[1] = n % 256 /\ TwoBytes(n)[2] = n \div 256
         /\ n % 256 \in Byte /\ n \div 256 \in Byte
<1>1. n % 256 \in Byte /\ n \div 256 \in Byte
  BY DEF Byte, Uint16
<1>. QED BY <1>1 DEF TwoBytes

LEMMA TwoBytesOf ==
  ASSUME NEW a \in Byte, NEW b \in Byte
  PROVE  a + 256 * b \in Uint16 /\ (a + 256 * b) % 256 = a /\ (a + 256 * b) \div 256 = b
BY DEF Byte, Uint16

LEMMA HeaderIs ==
  ASSUME NEW b \in Blocks
  PROVE  /\ Header(b) \in Seq(Byte) /\ Len(Header(b)) = 4
         /\ Header(b)[1] = b.tag % 256 /\ Header(b)[2] = b.tag \div 256
         /\ Header(b)[3] = b.length % 256 /\ Header(b)[4] = b.length \div 256
<1>1. b.tag \in Uint16 /\ b.length \in Uint16
  BY DEF Blocks
<1>. DEFINE s == TwoBytes(b.tag)
            t == TwoBytes(b.length)
<1>2. /\ s \in Seq(Byte) /\ Len(s) = 2 /\ s[1] = b.tag % 256 /\ s[2] = b.tag \div 256
      /\ t \in Seq(Byte) /\ Len(t) = 2 /\ t[1] = b.length % 256 /\ t[2] = b.length \div 256
  BY <1>1, TwoBytesAre
<1>. HIDE DEF s, t
<1>3. /\ s \o t \in Seq(Byte) /\ Len(s \o t) = 4
      /\ (s \o t)[1] = s[1] /\ (s \o t)[2] = s[2] /\ (s \o t)[3] = t[1] /\ (s \o t)[4] = t[2]
  <2>1. /\ s \o t \in Seq(Byte) /\ Len(s \o t) = Len(s) + Len(t)
        /\ \A i \in 1..(Len(s) + Len(t)) : (s \o t)[i] = IF i <= Len(s) THEN s[i] ELSE t[i - Len(s)]
    BY <1>2, ConcatProperties
  <2>. QED BY <1>2, <2>1
<1>. QED BY <1>2, <1>3 DEF Header, s, t

LEMMA CodewordIs ==
  ASSUME NEW b \in Blocks, NEW e \in Seq(Byte)
  PROVE  /\ Codeword(b, e) \in Seq(Byte) /\ Len(Codeword(b, e)) = 5 + Len(e)
         /\ \A k \in 1..4 : Codeword(b, e)[k] = Header(b)[k]
         /\ \A k \in 5..(4 + Len(e)) : Codeword(b, e)[k] = e[k - 4]
         /\ Codeword(b, e)[5 + Len(e)] = b.crc8
<1>. DEFINE h == Header(b)
            c == b.crc8
<1>1. h \in Seq(Byte) /\ Len(h) = 4 /\ c \in Byte
  BY HeaderIs DEF Blocks
<1>. HIDE DEF h, c
<1>2. /\ h \o e \in Seq(Byte) /\ Len(h \o e) = 4 + Len(e)
      /\ (\A k \in 1..4 : (h \o e)[k] = h[k])
      /\ \A k \in 5..(4 + Len(e)) : (h \o e)[k] = e[k - 4]
  <2>1. /\ h \o e \in Seq(Byte) /\ Len(h \o e) = Len(h) + Len(e)
        /\ \A i \in 1..(Len(h) + Len(e)) : (h \o e)[i] = IF i <= Len(h) THEN h[i] ELSE e[i - Len(h)]
    BY <1>1, ConcatProperties
  <2>2. Len(e) \in Nat
    OBVIOUS
  <2>. QED BY <1>1, <2>1, <2>2
<1>. DEFINE m == h \o e
<1>. HIDE DEF m
<1>3. /\ m \o <<c>> \in Seq(Byte) /\ Len(m \o <<c>>) = Len(m) + 1
      /\ (\A k \in 1..Len(m) : (m \o <<c>>)[k] = m[k])
      /\ (m \o <<c>>)[Len(m) + 1] = c
  BY <1>1, <1>2 DEF m
<1>4. m \in Seq(Byte) /\ Len(m) = 4 + Len(e) /\ Len(e) \in Nat
  BY <1>2 DEF m
<1>5. Codeword(b, e) = m \o <<c>>
  BY DEF Codeword, m, h, c
<1>6. \A k \in 5..(4 + Len(e)) : k \in 1..Len(m)
  BY <1>4
<1>7. \A k \in 1..4 : k \in 1..Len(m)
  BY <1>4
<1>8. \A k \in 1..4 : Codeword(b, e)[k] = Header(b)[k]
  BY <1>2, <1>3, <1>5, <1>7 DEF m, h
<1>9. \A k \in 5..(4 + Len(e)) : Codeword(b, e)[k] = e[k - 4]
  BY <1>2, <1>3, <1>5, <1>6 DEF m
<1>10. Codeword(b, e)[5 + Len(e)] = b.crc8
  <2>1. Len(m) + 1 = 5 + Len(e)
    BY <1>4
  <2>. QED BY <1>3, <1>5, <2>1 DEF c
<1>. QED BY <1>3, <1>4, <1>5, <1>8, <1>9, <1>10

(* What is left of it is the difference of the two checksums. *)
LEMMA CodewordRest ==
  ASSUME NEW b \in Blocks, NEW e \in Seq(Byte)
  PROVE  /\ CalcCrc8(0, Header(b) \o e) \in Byte
         /\ RestOf(Codeword(b, e))[8 * (5 + Len(e))] = XorByte(CalcCrc8(0, Header(b) \o e), b.crc8)
<1>. DEFINE m == Header(b) \o e
<1>1. m \in Seq(Byte) /\ b.crc8 \in Byte /\ 0 \in Byte
  BY HeaderIs, ConcatProperties DEF Blocks, Byte
<1>2. Len(Codeword(b, e)) = 5 + Len(e)
  BY CodewordIs
<1>3. CalcCrc8(0, m) \in Byte
  BY <1>1, CrcLaws
<1>4. Codeword(b, e) = m \o <<b.crc8>>
  BY DEF Codeword
<1>. HIDE DEF m
<1>5. RestOf(m \o <<b.crc8>>)[8 * Len(m \o <<b.crc8>>)] = XorByte(CalcCrc8(0, m), b.crc8)
  BY <1>1, RestIsChecksum
<1>. QED BY <1>2, <1>3, <1>4, <1>5 DEF m

(* The beginning of a sequence grows by its next part. *)
LEMMA Chunks ==
  ASSUME NEW s \in Seq(Byte), NEW i \in Nat, NEW j \in Nat, i + j <= Len(s)
  PROVE  /\ SubSeq(s, 1, i) \in Seq(Byte) /\ SubSeq(s, i + 1, i + j) \in Seq(Byte)
         /\ SubSeq(s, 1, i) \o SubSeq(s, i + 1, i + j) = SubSeq(s, 1, i + j)
         /\ SubSeq(s, 1, 0) = <<>> /\ SubSeq(s, 1, Len(s)) = s
<1>. DEFINE a == SubSeq(s, 1, i)
            b == SubSeq(s, i + 1, i + j)
            c == SubSeq(s, 1, i + j)
<1>0. Len(s) \in Nat /\ \A k \in 1..Len(s) : s[k] \in Byte
  OBVIOUS
<1>1. a \in Seq(Byte) /\ Len(a) = i /\ \A k \in 1..i : a[k] = s[k]
  BY <1>0, SubSeqProperties
<1>2. b \in Seq(Byte) /\ Len(b) = j /\ \A k \in 1..j : b[k] = s[i + k]
  BY <1>0, SubSeqProperties
<1>3. c \in Seq(Byte) /\ Len(c) = i + j /\ \A k \in 1..(i + j) : c[k] = s[k]
  BY <1>0, SubSeqProperties
<1>4. SubSeq(s, 1, 0) = <<>> /\ SubSeq(s, 1, Len(s)) = s
  BY <1>0, SubSeqProperties
<1>. HIDE DEF a, b, c
<1>5. /\ a \o b \in Seq(Byte) /\ Len(a \o b) = i + j
      /\ \A k \in 1..(i + j) : (a \o b)[k] = IF k <= i THEN a[k] ELSE b[k - i]
  BY <1>1, <1>2, ConcatProperties
<1>6. ASSUME NEW k \in 1..(i + j) PROVE (a \o b)[k] = c[k]
  <2>1. CASE k <= i
    BY <1>1, <1>3, <1>5, <2>1
  <2>2. CASE ~(k <= i)
    <3>1. k - i \in 1..j /\ i + (k - i) = k
      BY <2>2
    <3>2. b[k - i] = s[i + (k - i)]
      BY <1>2, <3>1
    <3>. QED BY <1>3, <1>5, <2>2, <3>1, <3>2
  <2>. QED BY <2>1, <2>2
<1>7. a \o b = c
  BY <1>3, <1>5, <1>6, SeqEqual
<1>. QED BY <1>1, <1>2, <1>4, <1>7 DEF a, b, c

-----------------------------------------------------------------------------
(***************************************************************************)
(* The invariant.  What is left of the bytes in flash, checksum and all,   *)
(* is what is left of ones at the places that have rotted, for both change *)
(* by the same with every bit that rots.                                   *)
(***************************************************************************)
Stored ==
  /\ block \in Blocks /\ entity \in Seq(Byte) /\ block.length = Len(entity)
  /\ \E r \in Records : Len(entity) = Len(r[2])

Rotten ==
  /\ IsFiniteSet(rotten) /\ rotten \subseteq Places
  /\ rotten = {} \/ Cardinality(rotten) <= FewFlips \/ InBurst(rotten)
  /\ RestOf(Codeword(block, entity))[Size] = Rests(Size, Ones(Size, rotten))[Size]

Verified ==
  /\ check \in [crc8 : Byte, offset : Nat, length : Nat,
                verdict : {"none", "running", "true", "false"}]
  /\ check.verdict # "none" =>
       /\ check.offset + check.length = Len(entity)
       /\ check.crc8 = CalcCrc8(0, Header(block) \o SubSeq(entity, 1, check.offset))
  /\ check.verdict \in {"true", "false"} =>
       /\ check.length = 0
       /\ check.verdict = "true" <=> block.crc8 = check.crc8

CInv == Stored /\ Rotten /\ Verified

LEMMA SizeIs ==
  ASSUME Stored
  PROVE  /\ Len(entity) \in Nat /\ Size \in Nat /\ Size = 8 * (5 + Len(entity))
         /\ Places = (0..15) \cup (32..(Size - 1)) /\ Places \subseteq 0..(Size - 1)
<1>1. Len(entity) \in Nat
  BY DEF Stored
<1>. QED BY <1>1 DEF Size, Places

LEMMA RecordTyped ==
  ASSUME NEW r \in Records
  PROVE  r[1] \in Uint16 /\ r[2] \in Seq(Byte) /\ Len(r[2]) \in Uint16
BY ChecksumAssumption DEF Uint16

LEMMA InitCorrect ==
  ASSUME Init
  PROVE  CInv
<1>1. PICK r \in Records :
        /\ block = [tag |-> r[1], length |-> Len(r[2]), crc8 |-> AppendCrc(r[1], r[2])]
        /\ entity = r[2]
  BY DEF Init
<1>2. rotten = {} /\ check = NotChecked
  BY DEF Init
<1>3. r[1] \in Uint16 /\ r[2] \in Seq(Byte) /\ Len(r[2]) \in Uint16
  BY RecordTyped
<1>. DEFINE s == TwoBytes(r[1])
            t == TwoBytes(Len(r[2]))
<1>4. s \in Seq(Byte) /\ t \in Seq(Byte) /\ 0 \in Byte
  BY <1>3, TwoBytesAre DEF Byte
<1>5. AppendCrc(r[1], r[2]) = CalcCrc8(0, s \o t \o r[2])
  <2>1. CalcCrc8(0, s) \in Byte /\ CalcCrc8(0, s \o t) = CalcCrc8(CalcCrc8(0, s), t)
    BY <1>4, CrcLaws
  <2>2. s \o t \in Seq(Byte)
    BY <1>4, ConcatProperties
  <2>3. CalcCrc8(0, s \o t \o r[2]) = CalcCrc8(CalcCrc8(0, s \o t), r[2])
    BY <1>3, <1>4, <2>2, CrcLaws
  <2>. QED BY <2>1, <2>3 DEF AppendCrc
<1>6. s \o t \o r[2] \in Seq(Byte)
  BY <1>3, <1>4, ConcatProperties
<1>7. AppendCrc(r[1], r[2]) \in Byte
  BY <1>4, <1>5, <1>6, CrcLaws
<1>8. Stored
  BY <1>1, <1>3, <1>7 DEF Stored, Blocks
<1>9. Header(block) \o entity = s \o t \o r[2] /\ block.crc8 = AppendCrc(r[1], r[2])
  BY <1>1 DEF Header
<1>10. RestOf(Codeword(block, entity))[Size] = 0
  <2>1. RestOf(Codeword(block, entity))[Size] = XorByte(CalcCrc8(0, Header(block) \o entity), block.crc8)
    BY <1>8, CodewordRest DEF Stored, Size
  <2>. QED BY <1>5, <1>7, <1>9, <2>1, XorLaws
<1>11. Rests(Size, Ones(Size, rotten))[Size] = 0
  <2>1. Size \in Nat /\ Size \in 0..Size
    BY <1>8, SizeIs
  <2>. QED BY <1>2, <2>1, NoOnes
<1>12. Rotten
  BY <1>2, <1>10, <1>11, FS_EmptySet DEF Rotten
<1>13. Verified
  BY <1>2 DEF Verified, NotChecked, Byte
<1>. QED BY <1>8, <1>12, <1>13 DEF CInv

-----------------------------------------------------------------------------
(* A bit that rots flips at its place, and only there. *)
LEMMA RotFlips ==
  ASSUME Stored, NEW p \in Places, Rot(p)
  PROVE  /\ block' \in Blocks /\ entity' \in Seq(Byte)
         /\ Len(entity') = Len(entity) /\ block'.length = block.length
         /\ \A k \in 1..(5 + Len(entity)) :
              Codeword(block', entity')[k] =
                IF k = p \div 8 + 1 THEN Flipped(Codeword(block, entity)[k], p)
                ELSE Codeword(block, entity)[k]
<1>. DEFINE i == p \div 8
            w == Codeword(block, entity)
            v == Codeword(block', entity')
            n == Len(entity)
<1>0. block \in Blocks /\ entity \in Seq(Byte) /\ n \in Nat
  BY SizeIs DEF Stored
<1>1. p \in Nat /\ i \in Nat /\ (i < 2 \/ (i >= 4 /\ i < 5 + n))
  <2>1. p \in 0..15 \/ p \in 32..(8 * (5 + n) - 1)
    BY SizeIs
  <2>2. p \in Nat
    BY <1>0, <2>1
  <2>3. PICK q \in Nat, j \in 0..7 : q = i /\ p = 8 * q + j
    <3>1. PICK q, j : q = p \div 8 /\ j = p % 8
      OBVIOUS
    <3>2. q \in Nat /\ j \in 0..7 /\ p = 8 * q + j
      BY <2>2, <3>1
    <3>. QED BY <3>1, <3>2
  <2>. HIDE DEF i
  <2>4. q < 2 \/ (q >= 4 /\ q < 5 + n)
    BY <1>0, <2>1, <2>3
  <2>. QED BY <2>2, <2>3, <2>4
<1>2. \A b \in Blocks : b.tag \in Uint16 /\ b.length \in Uint16 /\ b.crc8 \in Byte
  BY DEF Blocks
<1>. HIDE DEF i
<1>3. ASSUME NEW b \in Blocks, NEW e \in Seq(Byte), NEW k \in 1..(5 + Len(e))
      PROVE  Codeword(b, e)[k] = IF k = 1 THEN b.tag % 256 ELSE IF k = 2 THEN b.tag \div 256
                                 ELSE IF k = 3 THEN b.length % 256 ELSE IF k = 4 THEN b.length \div 256
                                 ELSE IF k <= 4 + Len(e) THEN e[k - 4] ELSE b.crc8
  <2>1. CASE k \in 1..4
    <3>1. Codeword(b, e)[k] = Header(b)[k]
      BY <2>1, CodewordIs
    <3>2. k = 1 \/ k = 2 \/ k = 3 \/ k = 4
      BY <2>1
    <3>. QED BY <3>1, <3>2, HeaderIs
  <2>2. CASE k \in 5..(4 + Len(e))
    BY <2>2, CodewordIs
  <2>3. CASE k = 5 + Len(e)
    <3>1. Len(e) \in Nat
      OBVIOUS
    <3>. QED BY <2>3, <3>1, CodewordIs
  <2>4. Len(e) \in Nat
    OBVIOUS
  <2>. QED BY <2>1, <2>2, <2>3, <2>4
<1>4. CASE i < 2
  <2>. DEFINE a == block.tag % 256
              b == block.tag \div 256
              c == [TwoBytes(block.tag) EXCEPT ![i + 1] = Flipped(@, p)]
              t == c[1] + 256 * c[2]
  <2>1. block' = [block EXCEPT !.tag = t] /\ entity' = entity
    BY <1>1, <1>4 DEF Rot, i
  <2>2. a \in Byte /\ b \in Byte /\ Flipped(a, p) \in Byte /\ Flipped(b, p) \in Byte
    <3>1. a \in Byte /\ b \in Byte
      BY <1>0, <1>2, TwoBytesAre
    <3>. QED BY <1>1, <3>1, FlippedBits
  <2>. HIDE DEF a, b
  <2>3. i = 0 \/ i = 1
    BY <1>1, <1>4
  <2>4. /\ c[1] = IF i = 0 THEN Flipped(a, p) ELSE a
        /\ c[2] = IF i = 1 THEN Flipped(b, p) ELSE b
    BY <2>3 DEF TwoBytes, a, b
  <2>. HIDE DEF c
  <2>5. c[1] \in Byte /\ c[2] \in Byte
    BY <2>2, <2>4
  <2>6. t \in Uint16 /\ t % 256 = c[1] /\ t \div 256 = c[2]
    BY <2>5, TwoBytesOf
  <2>. HIDE DEF t
  <2>7. block' \in Blocks /\ block'.length = block.length /\ block'.tag = t /\ block'.crc8 = block.crc8
    BY <1>0, <2>1, <2>6 DEF Blocks
  <2>8. ASSUME NEW k \in 1..(5 + n)
        PROVE  v[k] = IF k = i + 1 THEN Flipped(w[k], p) ELSE w[k]
    <3>1. v[k] = IF k = 1 THEN c[1] ELSE IF k = 2 THEN c[2]
                 ELSE IF k = 3 THEN block.length % 256 ELSE IF k = 4 THEN block.length \div 256
                 ELSE IF k <= 4 + n THEN entity[k - 4] ELSE block.crc8
      <4>1. block' \in Blocks /\ entity' \in Seq(Byte) /\ k \in 1..(5 + Len(entity'))
        BY <1>0, <2>1, <2>7
      <4>2. v[k] = IF k = 1 THEN block'.tag % 256 ELSE IF k = 2 THEN block'.tag \div 256
                   ELSE IF k = 3 THEN block'.length % 256 ELSE IF k = 4 THEN block'.length \div 256
                   ELSE IF k <= 4 + Len(entity') THEN entity'[k - 4] ELSE block'.crc8
        BY <1>3, <4>1
      <4>. HIDE DEF v
      <4>. QED BY <2>1, <2>6, <2>7, <4>2
    <3>2. w[k] = IF k = 1 THEN a ELSE IF k = 2 THEN b
                 ELSE IF k = 3 THEN block.length % 256 ELSE IF k = 4 THEN block.length \div 256
                 ELSE IF k <= 4 + n THEN entity[k - 4] ELSE block.crc8
      BY <1>0, <1>3 DEF a, b
    <3>. HIDE DEF v, w
    <3>. QED BY <2>3, <2>4, <3>1, <3>2
  <2>. QED BY <1>0, <2>1, <2>7, <2>8 DEF i
<1>5. CASE i >= 4 /\ i < 4 + n
  <2>1. entity' = [entity EXCEPT ![i - 3] = Flipped(@, p)] /\ block' = block
    BY <1>1, <1>5 DEF Rot, i
  <2>2. i - 3 \in 1..n
    BY <1>0, <1>1, <1>5
  <2>3. entity[i - 3] \in Byte
    BY <1>0, <2>2
  <2>4. Flipped(entity[i - 3], p) \in Byte
    BY <1>1, <2>3, FlippedBits
  <2>5. /\ entity' \in Seq(Byte) /\ Len(entity') = n
        /\ \A k \in 1..n : entity'[k] = IF k = i - 3 THEN Flipped(entity[k], p) ELSE entity[k]
    <3>1. entity' \in Seq(Byte) /\ Len(entity') = n
      BY <1>0, <2>1, <2>2, <2>4, ExceptSeq
    <3>. QED BY <1>0, <2>1, <2>2, <3>1
  <2>6. ASSUME NEW k \in 1..(5 + n)
        PROVE  v[k] = IF k = i + 1 THEN Flipped(w[k], p) ELSE w[k]
    <3>1. v[k] = IF k = 1 THEN block.tag % 256 ELSE IF k = 2 THEN block.tag \div 256
                 ELSE IF k = 3 THEN block.length % 256 ELSE IF k = 4 THEN block.length \div 256
                 ELSE IF k <= 4 + n THEN entity'[k - 4] ELSE block.crc8
      <4>1. block' \in Blocks /\ entity' \in Seq(Byte) /\ k \in 1..(5 + Len(entity'))
        BY <1>0, <2>1, <2>5
      <4>2. v[k] = IF k = 1 THEN block'.tag % 256 ELSE IF k = 2 THEN block'.tag \div 256
                   ELSE IF k = 3 THEN block'.length % 256 ELSE IF k = 4 THEN block'.length \div 256
                   ELSE IF k <= 4 + Len(entity') THEN entity'[k - 4] ELSE block'.crc8
        BY <1>3, <4>1
      <4>. HIDE DEF v
      <4>. QED BY <2>1, <2>5, <4>2
    <3>2. w[k] = IF k = 1 THEN block.tag % 256 ELSE IF k = 2 THEN block.tag \div 256
                 ELSE IF k = 3 THEN block.length % 256 ELSE IF k = 4 THEN block.length \div 256
                 ELSE IF k <= 4 + n THEN entity[k - 4] ELSE block.crc8
      BY <1>0, <1>3
    <3>. HIDE DEF v, w
    <3>3. CASE k \in 5..(4 + n)
      <4>1. k - 4 \in 1..n /\ (k - 4 = i - 3 <=> k = i + 1) /\ k # 1 /\ k # 2 /\ k # 3 /\ k # 4 /\ k <= 4 + n
        BY <1>0, <1>1, <3>3
      <4>. QED BY <2>5, <3>1, <3>2, <4>1
    <3>4. CASE k \notin 5..(4 + n)
      <4>1. k # i + 1 /\ (k = 1 \/ k = 2 \/ k = 3 \/ k = 4 \/ ~(k <= 4 + n))
        BY <1>0, <1>1, <1>5, <3>4
      <4>. QED BY <3>1, <3>2, <4>1
    <3>. QED BY <3>3, <3>4
  <2>. QED BY <1>0, <2>1, <2>5, <2>6 DEF i
<1>6. CASE i = 4 + n
  <2>1. block' = [block EXCEPT !.crc8 = Flipped(@, p)] /\ entity' = entity
    BY <1>0, <1>1, <1>6 DEF Rot, i
  <2>2. Flipped(block.crc8, p) \in Byte
    BY <1>0, <1>1, <1>2, FlippedBits
  <2>3. /\ block' \in Blocks /\ block'.length = block.length /\ block'.tag = block.tag
        /\ block'.crc8 = Flipped(block.crc8, p)
    BY <1>0, <2>1, <2>2 DEF Blocks
  <2>4. ASSUME NEW k \in 1..(5 + n)
        PROVE  v[k] = IF k = i + 1 THEN Flipped(w[k], p) ELSE w[k]
    <3>1. v[k] = IF k = 1 THEN block.tag % 256 ELSE IF k = 2 THEN block.tag \div 256
                 ELSE IF k = 3 THEN block.length % 256 ELSE IF k = 4 THEN block.length \div 256
                 ELSE IF k <= 4 + n THEN entity[k - 4] ELSE Flipped(block.crc8, p)
      <4>1. block' \in Blocks /\ entity' \in Seq(Byte) /\ k \in 1..(5 + Len(entity'))
        BY <1>0, <2>1, <2>3
      <4>2. v[k] = IF k = 1 THEN block'.tag % 256 ELSE IF k = 2 THEN block'.tag \div 256
                   ELSE IF k = 3 THEN block'.length % 256 ELSE IF k = 4 THEN block'.length \div 256
                   ELSE IF k <= 4 + Len(entity') THEN entity'[k - 4] ELSE block'.crc8
        BY <1>3, <4>1
      <4>. HIDE DEF v
      <4>. QED BY <2>1, <2>3, <4>2
    <3>2. w[k] = IF k = 1 THEN block.tag % 256 ELSE IF k = 2 THEN block.tag \div 256
                 ELSE IF k = 3 THEN block.length % 256 ELSE IF k = 4 THEN block.length \div 256
                 ELSE IF k <= 4 + n THEN entity[k - 4] ELSE block.crc8
      BY <1>0, <1>3
    <3>. HIDE DEF v, w
    <3>3. k = i + 1 <=> ~(k <= 4 + n)
      BY <1>0, <1>6
    <3>4. k = i + 1 => k # 1 /\ k # 2 /\ k # 3 /\ k # 4
      BY <1>0, <1>6
    <3>. QED BY <3>1, <3>2, <3>3, <3>4
  <2>. QED BY <1>0, <2>1, <2>3, <2>4 DEF i
<1>. QED BY <1>0, <1>1, <1>4, <1>5, <1>6

LEMMA BitRotsKeeps ==
  ASSUME CInv, BitRots
  PROVE  CInv'
<1>1. PICK p \in Places \ rotten :
        /\ rotten' = rotten \cup {p}
        /\ Cardinality(rotten') <= FewFlips \/ InBurst(rotten')
        /\ Rot(p)
  BY DEF BitRots
<1>2. check' = NotChecked
  BY DEF BitRots
<1>3. Stored /\ Rotten
  BY DEF CInv
<1>. DEFINE w == Codeword(block, entity)
            v == Codeword(block', entity')
<1>4. /\ block' \in Blocks /\ entity' \in Seq(Byte)
      /\ Len(entity') = Len(entity) /\ block'.length = block.length
      /\ \A k \in 1..(5 + Len(entity)) : v[k] = IF k = p \div 8 + 1 THEN Flipped(w[k], p) ELSE w[k]
  BY <1>1, <1>3, RotFlips
<1>5. Stored'
  BY <1>3, <1>4 DEF Stored
<1>6. Size' = Size /\ Places' = Places /\ Size \in Nat /\ Size = 8 * (5 + Len(entity)) /\ p \in 0..(Size - 1)
  BY <1>1, <1>3, <1>4, SizeIs DEF Size, Places
<1>7. w \in Seq(Byte) /\ v \in Seq(Byte) /\ Len(w) = 5 + Len(entity) /\ Len(v) = Len(w)
  <2>1. block \in Blocks /\ entity \in Seq(Byte)
    BY <1>3 DEF Stored
  <2>2. w \in Seq(Byte) /\ Len(w) = 5 + Len(entity)
    BY <2>1, CodewordIs
  <2>3. v \in Seq(Byte) /\ Len(v) = 5 + Len(entity')
    BY <1>4, CodewordIs
  <2>. QED BY <1>4, <2>2, <2>3
<1>. HIDE DEF w, v
<1>8. \A n \in 1..Size : Bits(v)[n] = Plus(Bits(w)[n], Ones(Size, {p})[n])
  <2>1. 8 * Len(w) = Size /\ p \in 0..(8 * Len(w) - 1)
    BY <1>6, <1>7
  <2>2. \A k \in 1..Len(w) : v[k] = IF k = p \div 8 + 1 THEN Flipped(w[k], p) ELSE w[k]
    BY <1>4, <1>7
  <2>3. \A n \in 1..(8 * Len(w)) : Bits(v)[n] = Plus(Bits(w)[n], Ones(8 * Len(w), {p})[n])
    BY <1>7, <2>1, <2>2, FlipAdds
  <2>. QED BY <2>1, <2>3
<1>9. Size \in 0..Size
  BY <1>6
<1>10. RestOf(v)[Size] = XorByte(RestOf(w)[Size], Rests(Size, Ones(Size, {p}))[Size])
  <2>1. Bits(w) \in [1..Size -> Bit] /\ Bits(v) \in [1..Size -> Bit] /\ Ones(Size, {p}) \in [1..Size -> Bit]
    BY <1>6, <1>7, BitsAre, OnesAre
  <2>5. \A N \in Nat : \A a, b, c \in [1..N -> Bit] :
          (\A n \in 1..N : c[n] = Plus(a[n], b[n]))
            => \A n \in 0..N : Rests(N, c)[n] = XorByte(Rests(N, a)[n], Rests(N, b)[n])
    BY RestsAdd
  <2>6. Size \in Nat
    BY <1>6
  <2>7. \A a, b, c \in [1..Size -> Bit] :
          (\A n \in 1..Size : c[n] = Plus(a[n], b[n]))
            => \A n \in 0..Size : Rests(Size, c)[n] = XorByte(Rests(Size, a)[n], Rests(Size, b)[n])
    BY <2>5, <2>6, Zenon
  <2>2. \A n \in 0..Size : Rests(Size, Bits(v))[n] = XorByte(Rests(Size, Bits(w))[n], Rests(Size, Ones(Size, {p}))[n])
    BY <1>8, <2>1, <2>7, Zenon
  <2>. QED BY <1>6, <1>7, <1>9, <2>2 DEF RestOf
<1>11. Rests(Size, Ones(Size, rotten'))[Size]
         = XorByte(Rests(Size, Ones(Size, rotten))[Size], Rests(Size, Ones(Size, {p}))[Size])
  <2>1. \A n \in 1..Size : Ones(Size, rotten')[n] = Plus(Ones(Size, rotten)[n], Ones(Size, {p})[n])
    BY <1>1, <1>6, OnesAdd
  <2>2. /\ Ones(Size, rotten) \in [1..Size -> Bit] /\ Ones(Size, {p}) \in [1..Size -> Bit]
        /\ Ones(Size, rotten') \in [1..Size -> Bit]
    BY <1>6, OnesAre
  <2>5. \A N \in Nat : \A a, b, c \in [1..N -> Bit] :
          (\A n \in 1..N : c[n] = Plus(a[n], b[n]))
            => \A n \in 0..N : Rests(N, c)[n] = XorByte(Rests(N, a)[n], Rests(N, b)[n])
    BY RestsAdd
  <2>6. Size \in Nat
    BY <1>6
  <2>7. \A a, b, c \in [1..Size -> Bit] :
          (\A n \in 1..Size : c[n] = Plus(a[n], b[n]))
            => \A n \in 0..Size : Rests(Size, c)[n] = XorByte(Rests(Size, a)[n], Rests(Size, b)[n])
    BY <2>5, <2>6, Zenon
  <2>3. \A n \in 0..Size : Rests(Size, Ones(Size, rotten'))[n]
          = XorByte(Rests(Size, Ones(Size, rotten))[n], Rests(Size, Ones(Size, {p}))[n])
    BY <2>1, <2>2, <2>7, Zenon
  <2>. QED BY <1>9, <2>3
<1>12. RestOf(v)[Size] = Rests(Size, Ones(Size, rotten'))[Size]
  BY <1>3, <1>10, <1>11 DEF Rotten, w
<1>13. IsFiniteSet(rotten') /\ rotten' \subseteq Places
  BY <1>1, <1>3, FS_AddElement DEF Rotten
<1>14. Rotten'
  <2>1. rotten' = {} \/ Cardinality(rotten') <= FewFlips \/ InBurst(rotten')
    BY <1>1
  <2>2. (RestOf(Codeword(block, entity))[Size] = Rests(Size, Ones(Size, rotten))[Size])'
    BY <1>6, <1>12 DEF v
  <2>3. (IsFiniteSet(rotten) /\ rotten \subseteq Places)'
    BY <1>6, <1>13
  <2>4. InBurst(rotten') => InBurst(rotten)'
    BY DEF InBurst
  <2>. QED BY <2>1, <2>2, <2>3, <2>4 DEF Rotten
<1>15. Verified'
  BY <1>2 DEF Verified, NotChecked, Byte
<1>. QED BY <1>5, <1>14, <1>15 DEF CInv

LEMMA StoredStays ==
  ASSUME Stored, Rotten, UNCHANGED <<block, entity, rotten>>
  PROVE  Stored' /\ Rotten'
<1>1. Stored'
  BY DEF Stored
<1>2. Size' = Size /\ Places' = Places
  BY DEF Size, Places
<1>3. Codeword(block', entity') = Codeword(block, entity)
  OBVIOUS
<1>4. Rotten'
  BY <1>2, <1>3 DEF Rotten, InBurst
<1>. QED BY <1>1, <1>4

LEMMA VerifyBeginsKeeps ==
  ASSUME CInv, VerifyBegins
  PROVE  CInv'
<1>1. Stored /\ Rotten /\ UNCHANGED <<block, entity, rotten>>
  BY DEF CInv, VerifyBegins
<1>2. check' = [crc8 |-> CalcCrc8(0, Header(block)), offset |-> 0, length |-> block.length, verdict |-> "running"]
  BY DEF VerifyBegins, Header
<1>3. /\ Header(block) \in Seq(Byte) /\ block.length = Len(entity) /\ Len(entity) \in Nat
      /\ 0 \in Byte /\ entity \in Seq(Byte)
  BY <1>1, HeaderIs DEF Stored, Byte
<1>4. CalcCrc8(0, Header(block)) \in Byte
  BY <1>3, CrcLaws
<1>5. Header(block) \o SubSeq(entity, 1, 0) = Header(block)
  <2>1. SubSeq(entity, 1, 0) = <<>>
    BY SubSeqEmpty
  <2>. QED BY <1>3, <2>1, ConcatEmptySeq
<1>6. Verified'
  <2>1. /\ check'.crc8 = CalcCrc8(0, Header(block)) /\ check'.offset = 0
        /\ check'.length = Len(entity) /\ check'.verdict = "running"
        /\ check' \in [crc8 : Byte, offset : Nat, length : Nat, verdict : {"none", "running", "true", "false"}]
    BY <1>2, <1>3, <1>4
  <2>2. block' = block /\ entity' = entity
    BY <1>1
  <2>3. 0 + Len(entity) = Len(entity) /\ check'.verdict \notin {"true", "false"}
    BY <1>3, <2>1
  <2>4. check'.crc8 = CalcCrc8(0, Header(block') \o SubSeq(entity', 1, check'.offset))
    BY <1>5, <2>1, <2>2
  <2>5. check'.offset + check'.length = Len(entity')
    BY <2>1, <2>2, <2>3
  <2>. QED BY <2>1, <2>3, <2>4, <2>5 DEF Verified
<1>. QED BY <1>1, <1>6, StoredStays DEF CInv

LEMMA VerifyChunkKeeps ==
  ASSUME CInv, VerifyChunk
  PROVE  CInv'
<1>1. Stored /\ Rotten /\ UNCHANGED <<block, entity, rotten>>
  BY DEF CInv, VerifyChunk
<1>. DEFINE o == check.offset
            t == Trunk
            c == CalcCrc8(check.crc8, SubSeq(entity, o + 1, o + t))
            l == check.length - t
<1>2. /\ check.verdict = "running"
      /\ check' = [crc8 |-> c, offset |-> o + t, length |-> l, verdict |-> Verdict(l, c)]
  BY DEF VerifyChunk, Running
<1>3. /\ o \in Nat /\ check.length \in Nat /\ o + check.length = Len(entity)
      /\ check.crc8 = CalcCrc8(0, Header(block) \o SubSeq(entity, 1, o))
  BY <1>2 DEF CInv, Verified
<1>4. /\ t \in Nat /\ l \in Nat /\ o + t <= Len(entity) /\ (o + t) + l = Len(entity)
  BY <1>3, ChecksumAssumption DEF Trunk
<1>5. Header(block) \in Seq(Byte) /\ entity \in Seq(Byte) /\ 0 \in Byte /\ block.crc8 \in Byte
  BY <1>1, HeaderIs DEF Stored, Byte, Blocks
<1>. HIDE DEF o, t, l
<1>. DEFINE x == SubSeq(entity, 1, o)
            y == SubSeq(entity, o + 1, o + t)
<1>6. x \in Seq(Byte) /\ y \in Seq(Byte) /\ x \o y = SubSeq(entity, 1, o + t)
  BY <1>3, <1>4, <1>5, Chunks
<1>7. c = CalcCrc8(CalcCrc8(0, Header(block) \o x), y)
  BY <1>3 DEF o
<1>. HIDE DEF x, y, c
<1>8. Header(block) \o x \in Seq(Byte)
  BY <1>5, <1>6, ConcatProperties
<1>9. c = CalcCrc8(0, (Header(block) \o x) \o y)
  BY <1>5, <1>6, <1>7, <1>8, CrcLaws
<1>10. (Header(block) \o x) \o y = Header(block) \o (x \o y)
  <2>1. \A p, q, r \in Seq(Byte) : (p \o q) \o r = p \o (q \o r)
    BY ConcatAssociative
  <2>. QED BY <1>5, <1>6, <2>1
<1>11. c = CalcCrc8(0, Header(block) \o SubSeq(entity, 1, o + t))
  BY <1>6, <1>9, <1>10
<1>12. c \in Byte
  <2>1. (Header(block) \o x) \o y \in Seq(Byte)
    BY <1>6, <1>8, ConcatProperties
  <2>. QED BY <1>5, <1>9, <2>1, CrcLaws
<1>13. /\ Verdict(l, c) \in {"none", "running", "true", "false"}
       /\ Verdict(l, c) \in {"true", "false"} => l = 0 /\ (Verdict(l, c) = "true" <=> block.crc8 = c)
  BY DEF Verdict
<1>14. /\ check'.crc8 = c /\ check'.offset = o + t /\ check'.length = l /\ check'.verdict = Verdict(l, c)
       /\ check' \in [crc8 : Byte, offset : Nat, length : Nat, verdict : {"none", "running", "true", "false"}]
  BY <1>2, <1>3, <1>4, <1>12, <1>13
<1>15. block' = block /\ entity' = entity
  BY <1>1
<1>16. Verified'
  BY <1>4, <1>11, <1>13, <1>14, <1>15 DEF Verified
<1>. QED BY <1>1, <1>16, StoredStays DEF CInv

LEMMA CInvHolds == Spec => []CInv
<1>1. Init => CInv
  BY InitCorrect
<1>2. CInv /\ [Next]_vars => CInv'
  <2>. SUFFICES ASSUME CInv, [Next]_vars PROVE CInv'
    OBVIOUS
  <2>1. CASE BitRots
    BY <2>1, BitRotsKeeps
  <2>2. CASE VerifyBegins
    BY <2>2, VerifyBeginsKeeps
  <2>3. CASE VerifyChunk
    BY <2>3, VerifyChunkKeeps
  <2>4. CASE UNCHANGED vars
    <3>1. UNCHANGED <<block, entity, rotten, check>>
      BY <2>4 DEF vars
    <3>2. Verified'
      BY <3>1 DEF CInv, Verified
    <3>. QED BY <3>1, <3>2, StoredStays DEF CInv
  <2>. QED BY <2>1, <2>2, <2>3, <2>4 DEF Next
<1>. QED BY <1>1, <1>2, PTL DEF Spec

-----------------------------------------------------------------------------
(* What flash_tlv_verify() has computed, in chunks of any size, is the     *)
(* remainder of what it has read: the table of calc_crc8() is that of its  *)
(* polynomial.                                                             *)
THEOREM TableIsPolynomial == Spec => []CrcIsRemainder
<1>1. CInv => CrcIsRemainder
  <2>. SUFFICES ASSUME CInv, check.verdict # "none"
                PROVE  check.crc8 = Remainder(TwoBytes(block.tag) \o TwoBytes(block.length)
                                                \o SubSeq(entity, 1, check.offset))
    BY DEF CrcIsRemainder
  <2>1. /\ check.crc8 = CalcCrc8(0, Header(block) \o SubSeq(entity, 1, check.offset))
        /\ check.offset \in Nat /\ check.length \in Nat /\ check.offset + check.length = Len(entity)
    BY DEF CInv, Verified
  <2>2. Header(block) \in Seq(Byte) /\ entity \in Seq(Byte)
    BY HeaderIs DEF CInv, Stored
  <2>3. SubSeq(entity, 1, check.offset) \in Seq(Byte)
    <3>1. check.offset + 0 <= Len(entity) /\ 0 \in Nat
      BY <2>1
    <3>. QED BY <2>1, <2>2, <3>1, Chunks
  <2>4. Header(block) \o SubSeq(entity, 1, check.offset) \in Seq(Byte)
    BY <2>2, <2>3, ConcatProperties
  <2>. QED BY <2>1, <2>4, RemainderIs DEF Header
<1>. QED BY <1>1, CInvHolds, PTL

(* The two checksums of a verification that has ended. *)
LEMMA VerdictIs ==
  ASSUME CInv, check.verdict \in {"true", "false"}
  PROVE  check.verdict = "true" <=> Rests(Size, Ones(Size, rotten))[Size] = 0
<1>1. Stored /\ Rotten /\ Verified
  BY DEF CInv
<1>2. entity \in Seq(Byte) /\ block \in Blocks /\ block.crc8 \in Byte /\ Len(entity) \in Nat
  BY <1>1 DEF Stored, Blocks
<1>3. /\ check.offset = Len(entity)
      /\ check.verdict = "true" <=> block.crc8 = check.crc8
      /\ check.crc8 = CalcCrc8(0, Header(block) \o SubSeq(entity, 1, check.offset))
  BY <1>1, <1>2 DEF Verified
<1>4. SubSeq(entity, 1, check.offset) = entity
  BY <1>2, <1>3, SubSeqFull
<1>5. /\ check.crc8 \in Byte
      /\ Rests(Size, Ones(Size, rotten))[Size] = XorByte(check.crc8, block.crc8)
  BY <1>1, <1>2, <1>3, <1>4, CodewordRest DEF Rotten, Size
<1>6. XorByte(check.crc8, block.crc8) = 0 <=> block.crc8 = check.crc8
  <2>1. ASSUME XorByte(check.crc8, block.crc8) = 0 PROVE block.crc8 = check.crc8
    <3>1. XorByte(XorByte(check.crc8, block.crc8), block.crc8) = XorByte(check.crc8, XorByte(block.crc8, block.crc8))
      BY <1>2, <1>5, XorLaws
    <3>2. XorByte(block.crc8, block.crc8) = 0 /\ XorByte(check.crc8, 0) = check.crc8
      BY <1>2, <1>5, XorLaws
    <3>3. 0 \in Byte /\ XorByte(block.crc8, 0) = block.crc8 /\ XorByte(0, block.crc8) = XorByte(block.crc8, 0)
      <4>1. 0 \in Byte
        BY DEF Byte
      <4>. QED BY <1>2, <4>1, XorLaws
    <3>. QED BY <2>1, <3>1, <3>2, <3>3
  <2>. QED BY <1>2, <2>1, XorLaws
<1>. QED BY <1>3, <1>5, <1>6

(* flash_tlv_verify() accepts what flash_tlv_append() has written.         *)
THEOREM SoundIsAccepted == Spec => []SoundRecordAccepted
<1>1. CInv => SoundRecordAccepted
  <2>. SUFFICES ASSUME CInv, rotten = {}, check.verdict = "false" PROVE FALSE
    BY DEF SoundRecordAccepted
  <2>1. Size \in Nat /\ Size \in 0..Size
    BY SizeIs DEF CInv
  <2>2. Rests(Size, Ones(Size, rotten))[Size] = 0
    BY <2>1, NoOnes
  <2>. QED BY <2>2, VerdictIs
<1>. QED BY <1>1, CInvHolds, PTL

(* How many bits the polynomial detects: any of a burst of eight, one in a *)
(* record of any length, and three in one that is shorter than the order   *)
(* of the polynomial.                                                      *)
Detectable ==
  /\ Burst <= 8
  /\ FewFlips <= 1 \/ (FewFlips <= 3 /\ \A r \in Records : Len(r[2]) <= 10)

(* ... and rejects one of which so few bits have rotted, wherever they are. *)
THEOREM DamageIsRejected ==
  ASSUME Detectable
  PROVE  Spec => []DamageRejected
<1>1. CInv => DamageRejected
  <2>. SUFFICES ASSUME CInv, rotten # {}, check.verdict = "true" PROVE FALSE
    BY DEF DamageRejected
  <2>1. Stored /\ Rotten
    BY DEF CInv
  <2>2. Size \in Nat /\ Size = 8 * (5 + Len(entity)) /\ rotten \in SUBSET (0..(Size - 1)) /\ Len(entity) \in Nat
    BY <2>1, SizeIs DEF Rotten
  <2>3. IsFiniteSet(rotten) /\ Cardinality(rotten) \in Nat
    BY <2>1, FS_CardinalityType DEF Rotten
  <2>4. FewFlips \in Nat /\ Burst \in Nat
    BY ChecksumAssumption
  <2>5. FewFlips <= 3 /\ ~(FewFlips <= 1) => Size <= 127
    BY <2>1, <2>2 DEF Detectable, Stored
  <2>6. \/ \A p, q \in rotten : p - q < 8
        \/ Cardinality(rotten) <= 1
        \/ Cardinality(rotten) <= 3 /\ Size <= 127
    <3>1. CASE InBurst(rotten)
      BY <2>2, <2>4, <3>1 DEF InBurst, Detectable
    <3>2. CASE Cardinality(rotten) <= FewFlips
      BY <2>3, <2>4, <2>5, <3>2 DEF Detectable
    <3>. QED BY <2>1, <3>1, <3>2 DEF Rotten
  <2>7. Rests(Size, Ones(Size, rotten))[Size] # 0
    BY <2>2, <2>3, <2>6, OnesRemain
  <2>. QED BY <2>7, VerdictIs
<1>. QED BY <1>1, CInvHolds, PTL
=============================================================================
