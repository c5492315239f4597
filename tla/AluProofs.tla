---------------------------- MODULE AluProofs ----------------------------
(***************************************************************************)
(* The operators of Alu stay within the machine word, whatever its width:  *)
(* what exec_add and its kin push is an i64.                               *)
(***************************************************************************)
EXTENDS Alu, Inductions

--------------------------------------------------------------------------
(* Powers of two.                                                          *)

Exponent == 0 .. WordBits

LEMMA PowerInNat == \A n \in Exponent : 2 ^ n \in Nat /\ n < 2 ^ n
<1> DEFINE S == {n \in Nat : n \in Exponent => 2 ^ n \in Nat /\ n < 2 ^ n}
<1>1. 0 \in S
  BY WordAssumption
<1>2. ASSUME NEW n \in Nat, n \in S PROVE n + 1 \in S
  <2>1. SUFFICES ASSUME n + 1 \in Exponent
                 PROVE  2 ^ (n + 1) \in Nat /\ n + 1 < 2 ^ (n + 1)
    OBVIOUS
  <2>2. n \in Exponent /\ n \in 0 .. WordBits - 1
    BY <2>1, WordAssumption DEF Exponent
  <2>3. 2 ^ (n + 1) = 2 * 2 ^ n /\ 2 ^ n \in Nat /\ n < 2 ^ n
    BY <1>2, <2>2, WordAssumption
  <2> QED BY <2>3
<1>3. Nat \subseteq S
  <2> HIDE DEF S
  <2> QED BY <1>1, <1>2, UpFromZero
<1> QED BY <1>3, WordAssumption DEF Exponent

LEMMA PowersDivide ==
    ASSUME NEW m \in Nat, NEW n \in Exponent, m <= n
    PROVE  \E d \in Nat \ {0} : 2 ^ n = 2 ^ m * d
<1> DEFINE S == {k \in Nat : k \in Exponent /\ m <= k
                                => \E d \in Nat \ {0} : 2 ^ k = 2 ^ m * d}
<1>1. WordBits \in Nat /\ Exponent \subseteq Nat
  BY WordAssumption DEF Exponent
<1>2. m \in Exponent /\ 2 ^ m \in Nat /\ 2 ^ m = 2 ^ m * 1
  BY <1>1, PowerInNat DEF Exponent
<1>3. 0 \in S
  <2>1. ASSUME m <= 0 PROVE 2 ^ 0 = 2 ^ m * 1
    <3>1. m = 0
      BY <2>1
    <3> QED BY <1>2, <3>1
  <2> QED BY <2>1
<1>4. ASSUME NEW k \in Nat, k \in S PROVE k + 1 \in S
  <2>1. SUFFICES ASSUME k + 1 \in Exponent, m <= k + 1
                 PROVE  \E d \in Nat \ {0} : 2 ^ (k + 1) = 2 ^ m * d
    OBVIOUS
  <2>2. CASE m = k + 1
    BY <1>2, <2>2
  <2>3. CASE m # k + 1
    <3>1. m <= k /\ k \in Exponent /\ k \in 0 .. WordBits - 1
      BY <1>1, <2>1, <2>3 DEF Exponent
    <3>2. PICK d \in Nat \ {0} : 2 ^ k = 2 ^ m * d
      BY <1>4, <3>1
    <3>3. 2 ^ (k + 1) = 2 * (2 ^ m * d)
      BY <3>1, <3>2, WordAssumption
    <3>4. 2 * (2 ^ m * d) = 2 ^ m * (2 * d) /\ 2 * d \in Nat \ {0}
      BY <1>2
    <3> QED BY <3>3, <3>4
  <2> QED BY <2>2, <2>3
<1>5. Nat \subseteq S
  <2> HIDE DEF S
  <2> QED BY <1>3, <1>4, UpFromZero
<1> QED BY <1>1, <1>5

\* A larger power is an even multiple of a smaller one.
LEMMA PowersAreEven ==
    ASSUME NEW m \in Nat, NEW n \in Exponent, m < n
    PROVE  \E d \in Nat \ {0} : 2 ^ n = 2 ^ m * (2 * d)
<1>1. /\ n - 1 \in Exponent /\ n - 1 \in 0 .. WordBits - 1 /\ m <= n - 1
      /\ (n - 1) + 1 = n /\ m \in Exponent
  BY WordAssumption DEF Exponent
<1>2. PICK d \in Nat \ {0} : 2 ^ (n - 1) = 2 ^ m * d
  BY <1>1, PowersDivide
<1>3. 2 ^ n = 2 * (2 ^ m * d)
  BY <1>1, <1>2, WordAssumption
<1>4. 2 * (2 ^ m * d) = 2 ^ m * (2 * d)
  BY <1>1, PowerInNat
<1> QED BY <1>3, <1>4

LEMMA WordIsInterval ==
    /\ Half \in Nat /\ Half > 4 /\ WordBits \in Nat /\ WordBits < Half
    /\ Word \subseteq Int
    /\ \A x \in Int : x \in Word <=> -Half <= x /\ x < Half
<1> DEFINE h == 2 ^ (WordBits - 2)
<1>1. h \in Nat /\ WordBits - 2 < h /\ Half = 2 * h
  <2>1. /\ WordBits - 2 \in Exponent /\ WordBits - 2 \in 0 .. WordBits - 1
        /\ (WordBits - 2) + 1 = WordBits - 1
    BY WordAssumption DEF Exponent
  <2> QED BY <2>1, PowerInNat, WordAssumption DEF Half
<1> HIDE DEF h
<1>2. Half \in Nat /\ Half > 4 /\ WordBits < Half /\ WordBits \in Nat
  BY <1>1, WordAssumption
<1> QED BY <1>2 DEF Word, MinWord, MaxWord

\* What a shift multiplies with and divides by.
LEMMA PowerOfBit ==
    /\ \A n \in 0 .. WordBits : 2 ^ n \in Nat \ {0}
    /\ 2 ^ (WordBits - 1) = Half /\ 2 ^ WordBits = 2 * Half
    /\ \A n \in 0 .. WordBits - 2 : 2 ^ n < Half
<1>1. WordBits \in Nat /\ WordBits >= 4
  BY WordAssumption
<1>2. \A n \in 0 .. WordBits : 2 ^ n \in Nat \ {0}
  BY <1>1, PowerInNat DEF Exponent
<1>3. WordBits - 1 \in 0 .. WordBits - 1 /\ (WordBits - 1) + 1 = WordBits
  BY <1>1
<1>4. 2 ^ WordBits = 2 * Half
  BY <1>3, WordAssumption DEF Half
<1>5. ASSUME NEW n \in 0 .. WordBits - 2 PROVE 2 ^ n < Half
  <2>1. /\ n \in Nat /\ WordBits - 1 \in Exponent /\ n < WordBits - 1
        /\ n \in 0 .. WordBits
    BY <1>1 DEF Exponent
  <2>2. PICK d \in Nat \ {0} : Half = 2 ^ n * (2 * d)
    BY <2>1, PowersAreEven DEF Half
  <2>3. 2 ^ n \in Nat \ {0}
    BY <1>2, <2>1
  <2>4. \A x \in Nat \ {0} : x < x * (2 * d)
    BY SMTT(30)
  <2> QED BY <2>2, <2>3, <2>4
<1> QED BY <1>2, <1>4, <1>5 DEF Half

\* Two's complement reduction ends in the word.
LEMMA WrapInWord == ASSUME NEW x \in Int PROVE Wrap(x) \in Word
<1> DEFINE y == (x + Half) % (2 * Half)
<1>1. y \in 0 .. 2 * Half - 1
  BY WordIsInterval
<1>2. y - Half \in Int /\ -Half <= y - Half /\ y - Half < Half
  BY <1>1, WordIsInterval
<1> QED BY <1>2, WordIsInterval DEF Wrap

\* Truncating division and remainder: the remainder is smaller than the
\* divisor, so it is a word without being wrapped.
LEMMA TruncInWord ==
    ASSUME NEW a \in Word, NEW b \in Word, b # 0
    PROVE  TruncDiv(a, b) \in Word /\ TruncRem(a, b) \in Word
<1> DEFINE m == Magnitude(a)  n == Magnitude(b)
<1>1. m \in Nat /\ n \in Nat /\ n > 0 /\ n <= Half
  BY WordIsInterval DEF Magnitude
<1> HIDE DEF m, n
<1>2. m \div n \in Int /\ m % n \in 0 .. n - 1
  BY <1>1
<1>3. TruncDiv(a, b) \in Word
  <2>1. (IF (a < 0) # (b < 0) THEN -(m \div n) ELSE m \div n) \in Int
    BY <1>2
  <2> QED BY <2>1, WrapInWord DEF TruncDiv, m, n
<1>4. TruncRem(a, b) \in Word
  <2>1. m % n \in Int /\ 0 <= m % n /\ m % n < Half
    BY <1>1, <1>2, WordIsInterval
  <2>2. m % n \in Word /\ -(m % n) \in Word
    BY <2>1, WordIsInterval
  <2> QED BY <2>2 DEF TruncRem, m, n
<1> QED BY <1>3, <1>4

LEMMA FloorInWord ==
    ASSUME NEW a \in Word, NEW b \in Word, b # 0
    PROVE  FloorDiv(a, b) \in Word /\ FloorMod(a, b) \in Word
<1>1. TruncDiv(a, b) \in Word /\ TruncRem(a, b) \in Word
  BY TruncInWord
<1>2. TruncDiv(a, b) - 1 \in Int /\ TruncRem(a, b) + b \in Int
  <2>1. TruncDiv(a, b) \in Int /\ TruncRem(a, b) \in Int /\ b \in Int
    BY <1>1, WordIsInterval
  <2> QED BY <2>1
<1> QED BY <1>1, <1>2, WrapInWord DEF FloorDiv, FloorMod

--------------------------------------------------------------------------
(* The bits of a number.                                                   *)

Bit(v, i) == (v \div 2 ^ i) % 2

LEMMA DivideSum ==
    ASSUME NEW p \in Nat \ {0}, NEW v \in Int, NEW d \in Int
    PROVE  (v + p * d) \div p = (v \div p) + d
<1> DEFINE q == v \div p  r == v % p
<1>1. q \in Int /\ r \in 0 .. p - 1 /\ v = p * q + r
  BY Z3
<1> HIDE DEF q, r
<1>2. v + p * d = p * (q + d) + r
  BY <1>1
<1>3. (p * (q + d) + r) \div p = q + d
  BY <1>1, Z3
<1> QED BY <1>2, <1>3 DEF q

LEMMA DivideSmall ==
    ASSUME NEW p \in Nat \ {0}, NEW v \in 0 .. p - 1 PROVE v \div p = 0
BY Z3

\* Every set of bits below n is that of a number below 2^n.
LEMMA NumberOfBits ==
    \A n \in Exponent : \A B \in SUBSET (0 .. n - 1) :
        \E v \in 0 .. 2 ^ n - 1 :
            \A i \in 0 .. WordBits - 1 : (Bit(v, i) = 1) <=> i \in B
<1> DEFINE Is(v, B) == \A i \in 0 .. WordBits - 1 : (Bit(v, i) = 1) <=> i \in B
           S == {n \in Nat : n \in Exponent => \A B \in SUBSET (0 .. n - 1) :
                                                  \E v \in 0 .. 2 ^ n - 1 : Is(v, B)}
<1>1. \A i \in 0 .. WordBits - 1 : i \in Nat /\ i \in Exponent /\ 2 ^ i \in Nat \ {0}
  BY PowerOfBit, WordAssumption DEF Exponent
<1>2. 0 \in S
  <2>1. ASSUME NEW B \in SUBSET (0 .. 0 - 1) PROVE Is(0, B)
    <3>1. B = {}
      OBVIOUS
    <3>2. ASSUME NEW i \in 0 .. WordBits - 1 PROVE Bit(0, i) = 0
      <4>1. 0 \div 2 ^ i = 0
        BY <1>1, DivideSmall
      <4>2. 0 % 2 = 0
        OBVIOUS
      <4> QED BY <4>1, <4>2, Zenon DEF Bit
    <3> QED BY <3>1, <3>2
  <2>2. 0 \in 0 .. 2 ^ 0 - 1
    BY WordAssumption
  <2> QED BY <2>1, <2>2
<1>3. ASSUME NEW n \in Nat, n \in S PROVE n + 1 \in S
  <2>1. SUFFICES ASSUME n + 1 \in Exponent, NEW B \in SUBSET (0 .. n)
                 PROVE  \E v \in 0 .. 2 ^ (n + 1) - 1 : Is(v, B)
    <3>1. (n + 1) - 1 = n
      OBVIOUS
    <3> QED BY <3>1
  <2>2. n \in Exponent /\ n \in 0 .. WordBits - 1
    BY <2>1, WordAssumption DEF Exponent
  <2> DEFINE C == B \ {n}
             d == IF n \in B THEN 1 ELSE 0
  <2>3. PICK u \in 0 .. 2 ^ n - 1 : Is(u, C)
    <3>1. C \in SUBSET (0 .. n - 1)
      OBVIOUS
    <3> QED BY <1>3, <2>2, <3>1
  <2> DEFINE v == u + 2 ^ n * d
  <2>4. /\ 2 ^ n \in Nat \ {0} /\ 2 ^ (n + 1) = 2 * 2 ^ n
        /\ d \in {0, 1} /\ u \in Nat /\ u < 2 ^ n
    BY <1>1, <2>2, WordAssumption
  <2>5. v \in 0 .. 2 ^ (n + 1) - 1
    BY <2>4
  <2>6. ASSUME NEW i \in 0 .. WordBits - 1 PROVE (Bit(v, i) = 1) <=> i \in B
    <3> HIDE DEF d
    <3>1. CASE i < n
      <4>1. PICK e \in Nat \ {0} : 2 ^ n = 2 ^ i * (2 * e)
        BY <1>1, <2>2, <3>1, PowersAreEven
      <4>2. v = u + 2 ^ i * (2 * e * d)
        BY <1>1, <2>4, <4>1
      <4>3. v \div 2 ^ i = (u \div 2 ^ i) + 2 * e * d
        BY <1>1, <2>4, <4>2, DivideSum
      <4>4. u \div 2 ^ i \in Int
        BY <1>1, <2>4
      <4>5. ((u \div 2 ^ i) + 2 * e * d) % 2 = (u \div 2 ^ i) % 2
        <5>1. ASSUME NEW x \in Int, NEW y \in Int PROVE (x + 2 * y) % 2 = x % 2
          OBVIOUS
        <5>2. e * d \in Int /\ 2 * e * d = 2 * (e * d)
          BY <2>4
        <5> QED BY <4>4, <5>1, <5>2
      <4>6. Bit(v, i) = Bit(u, i)
        BY <4>3, <4>5 DEF Bit
      <4> QED BY <2>3, <3>1, <4>6
    <3>2. CASE i = n
      <4>1. v \div 2 ^ n = (u \div 2 ^ n) + d
        BY <2>4, DivideSum
      <4>2. u \div 2 ^ n = 0
        BY <2>4, DivideSmall
      <4>3. Bit(v, n) = d
        BY <2>4, <4>1, <4>2 DEF Bit
      <4> QED BY <3>2, <4>3 DEF d
    <3>3. CASE i > n
      <4>1. PICK e \in Nat \ {0} : 2 ^ i = 2 ^ (n + 1) * e
        <5>1. i \in Exponent /\ n + 1 \in Nat /\ n + 1 <= i
          BY <1>1, <3>3
        <5> QED BY <5>1, PowersDivide
      <4>2. 2 ^ (n + 1) <= 2 ^ i
        BY <2>4, <4>1
      <4>3. v \div 2 ^ i = 0
        BY <1>1, <2>4, <2>5, <4>2, DivideSmall
      <4>4. Bit(v, i) = 0
        BY <4>3 DEF Bit
      <4> QED BY <3>3, <4>4
    <3> QED BY <3>1, <3>2, <3>3, <2>2
  <2> QED BY <2>5, <2>6
<1>4. Nat \subseteq S
  <2> HIDE DEF S
  <2> QED BY <1>2, <1>3, UpFromZero
<1> QED BY <1>4, WordAssumption DEF Exponent

\* A word and the number with its bits, two's complement in between.
Unsigned(a) == a % (2 * Half)

LEMMA UnsignedOfWord ==
    /\ \A a \in Word : /\ Unsigned(a) \in 0 .. 2 * Half - 1
                      /\ Unsigned(a) = IF a < 0 THEN a + 2 * Half ELSE a
    /\ \A v \in 0 .. 2 * Half - 1 : \E a \in Word : Unsigned(a) = v
<1>1. Half \in Nat /\ Half > 4
  BY WordIsInterval
<1>2. ASSUME NEW a \in Word
      PROVE  /\ Unsigned(a) \in 0 .. 2 * Half - 1
             /\ Unsigned(a) = IF a < 0 THEN a + 2 * Half ELSE a
  <2>1. a \in Int /\ -Half <= a /\ a < Half
    BY WordIsInterval
  <2>2. Unsigned(a) = IF a < 0 THEN a + 2 * Half ELSE a
    BY <1>1, <2>1, Z3 DEF Unsigned
  <2> QED BY <1>1, <2>1, <2>2
<1>3. ASSUME NEW v \in 0 .. 2 * Half - 1 PROVE \E a \in Word : Unsigned(a) = v
  <2> DEFINE a == IF v < Half THEN v ELSE v - 2 * Half
  <2>1. a \in Word
    BY <1>1, WordIsInterval
  <2>2. Unsigned(a) = IF a < 0 THEN a + 2 * Half ELSE a
    BY <1>2, <2>1
  <2>3. Unsigned(a) = v
    BY <1>1, <2>2
  <2> QED BY <2>1, <2>3
<1> QED BY <1>2, <1>3

LEMMA BitsOfUnsigned ==
    ASSUME NEW a
    PROVE  BitsOf(a) = {i \in 0 .. WordBits - 1 : Bit(Unsigned(a), i) = 1}
BY DEF BitsOf, Bit, Unsigned

\* The bitwise operators: some word has the bits the operator selects.
LEMMA SomeWordHas ==
    ASSUME NEW B \in SUBSET (0 .. WordBits - 1) PROVE \E c \in Word : BitsOf(c) = B
<1>1. WordBits \in Exponent
  BY WordAssumption DEF Exponent
<1>2. PICK v \in 0 .. 2 ^ WordBits - 1 :
              \A i \in 0 .. WordBits - 1 : (Bit(v, i) = 1) <=> i \in B
  BY <1>1, NumberOfBits
<1>3. PICK c \in Word : Unsigned(c) = v
  BY <1>2, PowerOfBit, UnsignedOfWord
<1>4. BitsOf(c) = B
  BY <1>2, <1>3, BitsOfUnsigned
<1> QED BY <1>4

LEMMA WordOfInWord ==
    ASSUME NEW B \in SUBSET (0 .. WordBits - 1)
    PROVE  WordOf(B) \in Word /\ BitsOf(WordOf(B)) = B
<1>1. \E c \in Word : BitsOf(c) = B
  BY SomeWordHas
<1> QED BY <1>1 DEF WordOf

LEMMA BitsAreBits ==
    ASSUME NEW a PROVE BitsOf(a) \in SUBSET (0 .. WordBits - 1)
BY DEF BitsOf

LEMMA BitLenInWord == ASSUME NEW a \in Word PROVE BitLen(a) \in 0 .. WordBits - 1
<1> DEFINE N == 0 .. WordBits - 2  S == {n \in N : 2 ^ n <= a}
<1>1. IsFiniteSet(N) /\ Cardinality(N) = WordBits - 1
  BY FS_Interval, WordAssumption
<1>2. IsFiniteSet(S) /\ Cardinality(S) <= Cardinality(N)
  BY <1>1, FS_Subset
<1>3. Cardinality(S) \in Nat
  BY <1>2, FS_CardinalityType
<1> QED BY <1>1, <1>2, <1>3, WordAssumption DEF BitLen

\* Shifting right moves a word towards zero (or to -1).
LEMMA ShrInWord ==
    ASSUME NEW a \in Word, NEW b, ShiftCount(b) PROVE Shr(a, b) \in Word
<1> DEFINE d == 2 ^ b
<1>1. d \in Nat /\ d >= 1
  BY PowerOfBit, WordAssumption DEF ShiftCount
<1> HIDE DEF d
<1>2. a \in Int /\ -Half <= a /\ a < Half /\ Half \in Nat
  BY WordIsInterval
<1>3. a \div d \in Int /\ d * (a \div d) <= a /\ a < d * ((a \div d) + 1)
  BY <1>1, <1>2, Z3
<1>4. -Half <= a \div d /\ a \div d < Half
  BY <1>1, <1>2, <1>3, SMTT(60)
<1> QED BY <1>3, <1>4, WordIsInterval DEF Shr, d

LEMMA ShlInWord ==
    ASSUME NEW a \in Word, NEW b, ShiftCount(b) PROVE Shl(a, b) \in Word
<1>1. 2 ^ b \in Nat
  BY PowerOfBit, WordAssumption DEF ShiftCount
<1>2. a * 2 ^ b \in Int
  BY <1>1, WordIsInterval
<1> QED BY <1>2, WrapInWord DEF Shl

--------------------------------------------------------------------------
\* Whatever unary operation the VM executes, it pushes a word.
THEOREM UnaryInWord ==
    ASSUME NEW op \in UnaryOps, NEW a \in Word PROVE Unary(op, a) \in Word
<1>1. a \in Int /\ -Half <= a /\ a < Half /\ Half \in Nat /\ Half > 4
  BY WordIsInterval
<1>2. CASE op \in {"NEG", "SQR", "ABS", "INC", "DEC"}
  <2>1. {-a, a * a, Magnitude(a), a + 1, a - 1} \subseteq Int
    BY <1>1 DEF Magnitude
  <2> QED BY <1>2, <2>1, WrapInWord DEF Unary
<1>3. CASE op = "BITLEN"
  BY <1>3, BitLenInWord, WordIsInterval DEF Unary
<1>4. CASE op = "NOT"
  BY <1>4, WordIsInterval DEF Unary, Truth
<1>5. CASE op = "BNOT"
  BY <1>5, <1>1, WordIsInterval DEF Unary, Complement
<1> QED BY <1>2, <1>3, <1>4, <1>5 DEF UnaryOps

\* Whatever binary operation the VM executes without an error, it pushes a
\* word.
THEOREM BinaryInWord ==
    ASSUME NEW op \in BinaryOps, NEW a \in Word, NEW b \in Word,
           BinaryError(op, b) = "none"
    PROVE  Binary(op, a, b) \in Word
<1>1. a \in Int /\ b \in Int
  BY WordIsInterval
<1>2. CASE op \in {"ADD", "SUB", "MUL"}
  <2>1. {a + b, a - b, a * b} \subseteq Int
    BY <1>1
  <2> QED BY <1>2, <2>1, WrapInWord DEF Binary
<1>3. CASE op \in {"DIV", "MOD"}
  <2>1. b # 0
    BY <1>3 DEF BinaryError
  <2> QED BY <1>3, <2>1, FloorInWord DEF Binary
<1>4. CASE op \in {"MIN", "MAX"}
  BY <1>4 DEF Binary
<1>5. CASE op \in {"EQ", "LT", "GT", "LTE", "GTE", "AND", "OR", "XOR"}
  <2>1. 0 \in Word /\ 1 \in Word
    BY WordIsInterval
  <2> QED BY <1>5, <2>1, Zenon DEF Binary, Truth
<1>6. CASE op \in {"BAND", "BOR", "BXOR"}
  <2>1. BitsOf(a) \in SUBSET (0 .. WordBits - 1)
        /\ BitsOf(b) \in SUBSET (0 .. WordBits - 1)
    BY BitsAreBits
  <2> HIDE DEF BitsOf
  <2>2. /\ WordOf(BitsOf(a) \cap BitsOf(b)) \in Word
        /\ WordOf(BitsOf(a) \cup BitsOf(b)) \in Word
        /\ WordOf((BitsOf(a) \cup BitsOf(b)) \ (BitsOf(a) \cap BitsOf(b))) \in Word
    BY <2>1, WordOfInWord
  <2> QED BY <1>6, <2>2 DEF Binary
<1>7. CASE op \in {"SHL", "SHR"}
  <2>1. ShiftCount(b)
    BY <1>7 DEF BinaryError
  <2> QED BY <1>7, <2>1, ShlInWord, ShrInWord DEF Binary
<1> QED BY <1>2, <1>3, <1>4, <1>5, <1>6, <1>7 DEF BinaryOps
==========================================================================
