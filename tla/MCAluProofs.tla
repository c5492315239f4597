---------------------------- MODULE MCAluProofs ----------------------------
(***************************************************************************)
(* The operators of Alu are what they are meant to be, for words of every  *)
(* width, that of the code included: floor division, the number of bits,   *)
(* the bitwise operators among themselves, the numbering of pairs.         *)
(***************************************************************************)
EXTENDS MCAlu, AluProofs

LEMMA OperandsAreWords == Spec => [](a \in Word /\ b \in Word)
<1>1. Init => a \in Word /\ b \in Word
  BY WordIsInterval DEF Init
<1>2. (a \in Word /\ b \in Word) /\ [Next]_<<a, b>> => (a \in Word /\ b \in Word)'
  BY DEF Next
<1> QED BY <1>1, <1>2, PTL DEF Spec

LEMMA WrapOfWord == ASSUME NEW x \in Word PROVE Wrap(x) = x
<1>1. Half \in Nat /\ Half > 4 /\ x \in Int /\ -Half <= x /\ x < Half
  BY WordIsInterval
<1>2. x + Half \in 0 .. 2 * Half - 1
  BY <1>1
<1>3. \A m \in Nat \ {0} : \A y \in 0 .. m - 1 : y % m = y
  BY Z3
<1>4. (x + Half) % (2 * Half) = x + Half
  BY <1>1, <1>2, <1>3
<1> QED BY <1>1, <1>4 DEF Wrap

--------------------------------------------------------------------------
(* Division.                                                               *)

\* Quotient and remainder of the magnitudes.
LEMMA MagnitudesDivide ==
    ASSUME NEW x \in Word, NEW y \in Word, y # 0,
           NEW d, d = Magnitude(x) \div Magnitude(y),
           NEW r, r = Magnitude(x) % Magnitude(y)
    PROVE  /\ Magnitude(x) \in 0 .. Half /\ Magnitude(y) \in 1 .. Half
           /\ d \in 0 .. Magnitude(x) /\ r \in 0 .. Magnitude(y) - 1
           /\ Magnitude(x) = d * Magnitude(y) + r
<1> DEFINE m == Magnitude(x)  n == Magnitude(y)
<1>1. m \in 0 .. Half /\ n \in 1 .. Half /\ Half \in Nat
  BY WordIsInterval DEF Magnitude
<1>2. d = m \div n /\ r = m % n
  OBVIOUS
<1> HIDE DEF m, n
<1>3. d \in Int /\ r \in 0 .. n - 1 /\ m = d * n + r
  BY <1>1, <1>2, Z3
<1>4. d >= 0
  <2>1. \A e \in Int : e < 0 => e * n <= -n
    BY <1>1
  <2> QED BY <1>1, <1>3, <2>1
<1>5. d <= d * n
  BY <1>1, <1>3, <1>4
<1>6. d <= m
  BY <1>1, <1>3, <1>5
<1> QED BY <1>1, <1>3, <1>4, <1>6 DEF m, n

\* A quotient that is not the overflow MIN / -1 needs no wrapping.
LEMMA FloorDivides ==
    ASSUME NEW x \in Word, NEW y \in Word, y # 0
    PROVE  LET q == FloorDiv(x, y)
               r == FloorMod(x, y)
           IN  /\ Wrap(q * y + r) = x
               /\ IF y > 0 THEN r \in 0 .. y - 1 ELSE r \in (y + 1) .. 0
<1> DEFINE m == Magnitude(x)  n == Magnitude(y)
<1> DEFINE d == m \div n  r == m % n
<1>1. /\ Half \in Nat /\ Half > 4 /\ x \in Int /\ y \in Int
      /\ -Half <= x /\ x < Half /\ -Half <= y /\ y < Half
  BY WordIsInterval
<1>2. /\ m \in 0 .. Half /\ n \in 1 .. Half /\ d \in 0 .. m /\ r \in 0 .. n - 1
      /\ m = d * n + r
  BY MagnitudesDivide
<1>3. m = (IF x < 0 THEN -x ELSE x) /\ n = (IF y < 0 THEN -y ELSE y)
  BY DEF Magnitude
<1>4. /\ TruncDiv(x, y) = Wrap(IF (x < 0) # (y < 0) THEN -d ELSE d)
      /\ TruncRem(x, y) = IF x < 0 THEN -r ELSE r
  BY DEF TruncDiv, TruncRem
<1> HIDE DEF m, n, d, r
<1>5. \A z \in Int : -Half <= z /\ z < Half => Wrap(z) = z
  BY WordIsInterval, WrapOfWord
<1>6. CASE x >= 0 /\ y > 0
  <2>1. d < Half
    BY <1>1, <1>2, <1>3, <1>6
  <2>2. TruncDiv(x, y) = d /\ TruncRem(x, y) = r
    BY <1>1, <1>2, <1>4, <1>5, <1>6, <2>1
  <2>3. FloorDiv(x, y) = d /\ FloorMod(x, y) = r
    BY <1>1, <1>2, <1>6, <2>2 DEF FloorDiv, FloorMod, SignsDiffer
  <2>4. d * y + r = x
    BY <1>2, <1>3, <1>6, <1>1
  <2>5. Wrap(x) = x
    BY <1>1, <1>5
  <2>6. r \in 0 .. y - 1
    BY <1>1, <1>2, <1>3, <1>6
  <2> QED BY <1>6, <2>3, <2>4, <2>5, <2>6
<1>7. CASE x < 0 /\ y < 0
  <2>1. TruncDiv(x, y) = Wrap(d) /\ TruncRem(x, y) = -r
    BY <1>4, <1>7
  <2>2. FloorDiv(x, y) = Wrap(d) /\ FloorMod(x, y) = -r
    BY <1>1, <1>2, <1>7, <2>1 DEF FloorDiv, FloorMod, SignsDiffer
  <2>3. -r \in (y + 1) .. 0
    BY <1>1, <1>2, <1>3, <1>7
  <2>4. m = -x /\ n = -y
    BY <1>3, <1>7, <1>1
  <2>5. Wrap(Wrap(d) * y + (-r)) = x
    <3>1. CASE d < Half
      <4>1. Wrap(d) = d
        BY <1>1, <1>2, <1>5, <3>1
      <4>2. d * y + (-r) = x
        BY <1>1, <1>2, <2>4
      <4>3. Wrap(x) = x
        BY <1>1, <1>5
      <4> QED BY <4>1, <4>2, <4>3
    <3>2. CASE d >= Half
      <4>1. d = Half /\ m = Half
        BY <1>1, <1>2, <3>2
      <4>2. Half = Half * n + r
        BY <1>2, <4>1
      <4>3. n = 1
        <5>1. n > 1 => Half * n >= 2 * Half
          BY <1>1, <1>2
        <5> QED BY <1>1, <1>2, <4>2, <5>1
      <4>4. r = 0 /\ y = -1 /\ x = -Half
        BY <1>1, <1>2, <2>4, <4>1, <4>3
      <4>5. Wrap(Half) = -Half
        <5>1. (Half + Half) % (2 * Half) = 0
          BY <1>1
        <5> QED BY <1>1, <5>1 DEF Wrap
      <4>6. (-Half) * (-1) + (-0) = Half
        BY <1>1
      <4> QED BY <4>1, <4>4, <4>5, <4>6
    <3> QED BY <1>1, <1>2, <3>1, <3>2
  <2> QED BY <1>7, <1>1, <2>2, <2>3, <2>5
<1>8. CASE x >= 0 /\ y < 0
  <2>1. m = x /\ n = -y /\ d < Half
    BY <1>1, <1>2, <1>3, <1>8
  <2>2. TruncDiv(x, y) = -d /\ TruncRem(x, y) = r
    BY <1>1, <1>2, <1>4, <1>5, <1>8, <2>1
  <2>3. CASE r = 0
    <3>1. FloorDiv(x, y) = -d /\ FloorMod(x, y) = 0
      BY <2>2, <2>3 DEF FloorDiv, FloorMod, SignsDiffer
    <3>2. (-d) * y + 0 = x
      BY <1>1, <1>2, <2>1, <2>3
    <3>3. Wrap(x) = x
      BY <1>1, <1>5
    <3>4. 0 \in (y + 1) .. 0
      BY <1>1, <1>8
    <3> QED BY <1>1, <1>8, <3>1, <3>2, <3>3, <3>4
  <2>4. CASE r # 0
    <3>1. SignsDiffer(r, y)
      BY <1>1, <1>2, <1>8, <2>4 DEF SignsDiffer
    <3>2. FloorDiv(x, y) = Wrap((-d) - 1) /\ FloorMod(x, y) = Wrap(r + y)
      BY <2>2, <3>1 DEF FloorDiv, FloorMod
    <3>3. Wrap((-d) - 1) = (-d) - 1 /\ Wrap(r + y) = r + y
      BY <1>1, <1>2, <1>5, <1>8, <2>1
    <3>4. ((-d) - 1) * y + (r + y) = x
      BY <1>1, <1>2, <2>1
    <3>5. Wrap(x) = x
      BY <1>1, <1>5
    <3>6. r + y \in (y + 1) .. 0
      BY <1>1, <1>2, <1>8, <2>1, <2>4
    <3> QED BY <1>1, <1>8, <3>2, <3>3, <3>4, <3>5, <3>6
  <2> QED BY <2>3, <2>4
<1>9. CASE x < 0 /\ y > 0
  <2>1. m = -x /\ n = y
    BY <1>1, <1>3, <1>9
  <2>2. TruncDiv(x, y) = -d /\ TruncRem(x, y) = -r
    BY <1>1, <1>2, <1>4, <1>5, <1>9, <2>1
  <2>3. CASE r = 0
    <3>1. FloorDiv(x, y) = -d /\ FloorMod(x, y) = 0
      <4>1. TruncRem(x, y) = 0
        <5>1. \A z \in Int : z <= 0 /\ z >= 0 => -z = 0
          OBVIOUS
        <5>2. r \in Int /\ r <= 0 /\ r >= 0
          BY <1>2, <2>3
        <5> QED BY <2>2, <5>1, <5>2, Zenon
      <4> QED BY <2>2, <4>1 DEF FloorDiv, FloorMod, SignsDiffer
    <3>2. (-d) * y + 0 = x
      BY <1>1, <1>2, <2>1, <2>3
    <3>3. Wrap(x) = x
      BY <1>1, <1>5
    <3>4. 0 \in 0 .. y - 1
      BY <1>1, <1>9
    <3> QED BY <1>1, <1>9, <3>1, <3>2, <3>3, <3>4
  <2>4. CASE r # 0
    <3>1. SignsDiffer(-r, y)
      BY <1>1, <1>2, <1>9, <2>4 DEF SignsDiffer
    <3>2. FloorDiv(x, y) = Wrap((-d) - 1) /\ FloorMod(x, y) = Wrap((-r) + y)
      BY <2>2, <3>1 DEF FloorDiv, FloorMod
    <3>3. d < m
      <4>1. d <= d * n
        BY <1>2
      <4> QED BY <1>1, <1>2, <2>4, <4>1
    <3>4. Wrap((-d) - 1) = (-d) - 1 /\ Wrap((-r) + y) = (-r) + y
      BY <1>1, <1>2, <1>5, <1>9, <2>1, <3>3
    <3>5. ((-d) - 1) * y + ((-r) + y) = x
      BY <1>1, <1>2, <2>1
    <3>6. Wrap(x) = x
      BY <1>1, <1>5
    <3>7. (-r) + y \in 0 .. y - 1
      BY <1>1, <1>2, <1>9, <2>1, <2>4
    <3> QED BY <1>1, <1>9, <3>2, <3>4, <3>5, <3>6, <3>7
  <2> QED BY <2>3, <2>4
<1> QED BY <1>1, <1>6, <1>7, <1>8, <1>9

\* DIV and MOD are Python's // and %, MIN / -1 included, whatever the width.
THEOREM DivisionFloors == Spec => []FloorDivision
<1>1. a \in Word /\ b \in Word => FloorDivision
  <2> SUFFICES ASSUME a \in Word, b \in Word, b # 0
               PROVE  LET q == FloorDiv(a, b)
                          r == FloorMod(a, b)
                      IN  /\ q \in Word
                          /\ Wrap(q * b + r) = a
                          /\ IF b > 0 THEN r \in 0 .. b - 1 ELSE r \in (b + 1) .. 0
    BY DEF FloorDivision
  <2> QED BY FloorDivides, FloorInWord
<1> QED BY <1>1, OperandsAreWords, PTL

--------------------------------------------------------------------------
(* The number of bits.                                                     *)

LEMMA BitLenIs ==
    ASSUME NEW x \in Word
    PROVE  LET n == BitLen(x)
           IN  IF x > 0 THEN n > 0 /\ 2 ^ (n - 1) <= x /\ x < 2 ^ n ELSE n = 0
<1> DEFINE S == {n \in 0 .. WordBits - 2 : 2 ^ n <= x}
<1>1. /\ WordBits \in Nat /\ WordBits >= 4 /\ 2 ^ 0 = 1
      /\ x \in Int /\ x < Half /\ Half \in Nat
  BY WordAssumption, WordIsInterval
<1>2. \A n \in Exponent : n \in Nat /\ 2 ^ n \in Nat \ {0}
  BY <1>1, PowerOfBit DEF Exponent
<1>3. CASE x <= 0
  <2>1. S = {}
    <3>1. ASSUME NEW n \in 0 .. WordBits - 2 PROVE ~(2 ^ n <= x)
      <4>1. n \in Exponent
        BY <1>1 DEF Exponent
      <4> QED BY <1>1, <1>2, <1>3, <4>1
    <3> QED BY <3>1
  <2>2. BitLen(x) = 0
    BY <2>1, FS_EmptySet DEF BitLen
  <2> QED BY <1>1, <1>3, <2>2
<1>4. CASE x > 0
  <2> DEFINE T == {n \in Exponent : x < 2 ^ n}
  <2>1. WordBits - 1 \in T
    BY <1>1, PowerOfBit DEF Exponent
  <2>2. PICK k \in T : \A l \in T : k <= l
    <3>1. T \in SUBSET Nat /\ T # {}
      BY <1>2, <2>1
    <3> HIDE DEF T
    <3> QED BY <3>1, LeastOfSome
  <2>3. k \in Exponent /\ k \in Nat /\ x < 2 ^ k /\ k <= WordBits - 1
    BY <1>2, <2>1, <2>2
  <2>4. k > 0
    <3>1. CASE k = 0
      BY <1>1, <1>4, <2>3, <3>1
    <3> QED BY <2>3, <3>1
  <2>5. ASSUME NEW n \in 0 .. k - 1 PROVE n \in 0 .. WordBits - 2 /\ 2 ^ n <= x
    <3>1. n \in Exponent /\ n < k /\ n \in 0 .. WordBits - 2
      BY <1>1, <2>3 DEF Exponent
    <3>2. n \notin T
      BY <1>2, <2>2, <2>3, <3>1
    <3> QED BY <1>1, <1>2, <3>1, <3>2
  <2>6. ASSUME NEW n \in 0 .. WordBits - 2, 2 ^ n <= x PROVE n \in 0 .. k - 1
    <3>1. n \in Exponent /\ n \in Nat
      BY <1>1 DEF Exponent
    <3>2. CASE k <= n
      <4>1. PICK d \in Nat \ {0} : 2 ^ n = 2 ^ k * d
        BY <2>3, <3>1, <3>2, PowersDivide
      <4>2. 2 ^ k <= 2 ^ n
        BY <1>2, <2>3, <4>1
      <4> QED BY <1>1, <1>2, <2>3, <2>6, <3>1, <4>2
    <3> QED BY <2>3, <3>1, <3>2
  <2>7. S = 0 .. k - 1
    BY <2>5, <2>6
  <2>8. BitLen(x) = k
    <3>1. Cardinality(0 .. k - 1) = k
      BY <2>3, <2>4, FS_Interval
    <3> QED BY <2>7, <3>1 DEF BitLen
  <2>9. 2 ^ (k - 1) <= x
    <3>1. k - 1 \in 0 .. k - 1
      BY <2>3, <2>4
    <3> QED BY <2>5, <3>1
  <2> QED BY <1>4, <2>3, <2>4, <2>8, <2>9
<1> QED BY <1>1, <1>3, <1>4

\* BITLEN counts the bits of a positive word.
THEOREM BitLengthCounts == Spec => []BitLenBrackets
<1>1. a \in Word => BitLenBrackets
  BY BitLenIs DEF BitLenBrackets
<1> QED BY <1>1, OperandsAreWords, PTL

--------------------------------------------------------------------------
(* The numbering of pairs.                                                 *)

\* The pairs i < j that come before (x, y), column by column.
Before(x, y) == {p \in (0 .. y) \X (0 .. y) :
                    p[1] < p[2] /\ (p[2] < y \/ (p[2] = y /\ p[1] < x))}
Triangle(y) == (y * (y - 1)) \div 2

LEMMA TriangleGrows ==
    \A y \in Nat : /\ Triangle(y) \in Nat /\ Triangle(0) = 0
                  /\ Triangle(y + 1) = Triangle(y) + y
                  /\ 2 * Triangle(y) = y * (y - 1)
<1> DEFINE S == {y \in Nat : 2 * Triangle(y) = y * (y - 1) /\ Triangle(y) \in Nat}
<1>1. Triangle(0) = 0
  <2>1. 0 * (0 - 1) = 0 /\ 0 \div 2 = 0
    OBVIOUS
  <2> QED BY <2>1 DEF Triangle
<1>2. ASSUME NEW y \in Nat, 2 * Triangle(y) = y * (y - 1), Triangle(y) \in Nat
      PROVE  Triangle(y + 1) = Triangle(y) + y
  <2>1. (y + 1) * ((y + 1) - 1) = 2 * (Triangle(y) + y)
    BY <1>2
  <2>2. \A z \in Int : (2 * z) \div 2 = z
    OBVIOUS
  <2>3. Triangle(y + 1) = (2 * (Triangle(y) + y)) \div 2
    BY <2>1 DEF Triangle
  <2> QED BY <1>2, <2>2, <2>3
<1>3. 0 \in S
  BY <1>1
<1>4. ASSUME NEW y \in Nat, y \in S PROVE y + 1 \in S
  <2>1. 2 * Triangle(y) = y * (y - 1) /\ Triangle(y) \in Nat
    BY <1>4
  <2>2. Triangle(y + 1) = Triangle(y) + y
    BY <1>2, <2>1
  <2>3. 2 * Triangle(y + 1) = (y + 1) * ((y + 1) - 1) /\ Triangle(y + 1) \in Nat
    BY <2>1, <2>2
  <2> QED BY <2>3
<1>5. Nat \subseteq S
  <2> HIDE DEF S
  <2> QED BY <1>3, <1>4, UpFromZero
<1> QED BY <1>1, <1>2, <1>5

LEMMA BeforeCounts ==
    ASSUME NEW y \in Nat
    PROVE  \A x \in 0 .. y : /\ IsFiniteSet(Before(x, y))
                             /\ Cardinality(Before(x, y)) = Triangle(y) + x
<1> DEFINE Counts(x, z) == /\ IsFiniteSet(Before(x, z))
                           /\ Cardinality(Before(x, z)) = Triangle(z) + x
           Row(z) == {x \in Nat : x <= z => Counts(x, z)}
           S == {z \in Nat : Counts(0, z)}
<1>1. ASSUME NEW z \in Nat, Counts(0, z) PROVE Nat \subseteq Row(z)
  <2>1. 0 \in Row(z)
    BY <1>1
  <2>2. ASSUME NEW x \in Nat, x \in Row(z) PROVE x + 1 \in Row(z)
    <3>1. SUFFICES ASSUME x + 1 <= z PROVE Counts(x + 1, z)
      OBVIOUS
    <3>2. Counts(x, z)
      BY <2>2, <3>1
    <3>3. Before(x + 1, z) = Before(x, z) \cup {<<x, z>>}
      BY <3>1 DEF Before
    <3>4. <<x, z>> \notin Before(x, z)
      BY DEF Before
    <3>5. /\ IsFiniteSet(Before(x + 1, z))
          /\ Cardinality(Before(x + 1, z)) = Cardinality(Before(x, z)) + 1
      BY <3>2, <3>3, <3>4, FS_AddElement
    <3>6. Triangle(z) + x + 1 = Triangle(z) + (x + 1)
      BY TriangleGrows
    <3> QED BY <3>2, <3>5, <3>6
  <2> HIDE DEF Row
  <2> QED BY <2>1, <2>2, UpFromZero
<1>2. 0 \in S
  <2>1. Before(0, 0) = {}
    BY DEF Before
  <2>2. Triangle(0) + 0 = 0
    BY TriangleGrows
  <2> QED BY <2>1, <2>2, FS_EmptySet
<1>3. ASSUME NEW z \in Nat, z \in S PROVE z + 1 \in S
  <2>1. Counts(z, z)
    <3>1. z \in Row(z)
      BY <1>1, <1>3
    <3> QED BY <3>1
  <2>2. Before(0, z + 1) = Before(z, z)
    BY DEF Before
  <2>3. Triangle(z + 1) + 0 = Triangle(z) + z
    BY TriangleGrows
  <2>4. Counts(0, z + 1)
    BY <2>1, <2>2, <2>3
  <2> HIDE DEF Counts
  <2> QED BY <2>4
<1>4. y \in S
  <2> HIDE DEF S
  <2> QED BY <1>2, <1>3, UpFromZero
<1>5. Nat \subseteq Row(y)
  BY <1>1, <1>4
<1> QED BY <1>5

\* IDXTRIU numbers the pairs of a model one after the other, as long as the
\* product fits the word.
THEOREM PairsAreNumbered == Spec => []TriuDense
<1>1. a \in Word /\ b \in Word => TriuDense
  <2> SUFFICES ASSUME a \in Word, b \in Word, 0 <= a, a < b, b * b <= MaxWord
               PROVE  IdxTriu(a, b) = Cardinality(Before(a, b))
    BY DEF TriuDense, Before
  <2>1. /\ Half \in Nat /\ Half > 4 /\ a \in Nat /\ b \in Nat
        /\ b >= 1 /\ b < Half /\ a < Half /\ b * b < Half
    BY WordIsInterval DEF MaxWord
  <2>2. \A z \in Int : -Half <= z /\ z < Half => Wrap(z) = z
    BY WordIsInterval, WrapOfWord
  <2>3. b - 1 \in Nat /\ b * (b - 1) \in Nat /\ b * (b - 1) < Half
    BY <2>1
  <2>4. Wrap(b - 1) = b - 1 /\ Wrap(b * (b - 1)) = b * (b - 1)
    BY <2>1, <2>2, <2>3
  <2>5. TruncDiv(b * (b - 1), 2) = Triangle(b)
    <3>1. Magnitude(b * (b - 1)) = b * (b - 1) /\ Magnitude(2) = 2
      BY <2>3 DEF Magnitude
    <3>2. Triangle(b) \in Nat /\ Triangle(b) < Half
      <4>1. Triangle(b) \in Nat /\ 2 * Triangle(b) = b * (b - 1)
        BY <2>1, TriangleGrows
      <4> QED BY <2>1, <2>3, <4>1
    <3>3. TruncDiv(b * (b - 1), 2) = Wrap(Triangle(b))
      BY <2>3, <3>1 DEF TruncDiv, Triangle
    <3> QED BY <2>1, <2>2, <3>2, <3>3
  <2>6. Triangle(b) + a \in Nat /\ Triangle(b) + a < Half
    <3>1. Triangle(b) \in Nat /\ 2 * Triangle(b) = b * (b - 1)
      BY <2>1, TriangleGrows
    <3>2. b * (b - 1) <= b * b - b /\ b <= b * b
      BY <2>1
    <3> QED BY <2>1, <3>1, <3>2
  <2>7. IdxTriu(a, b) = Triangle(b) + a
    BY <2>1, <2>2, <2>4, <2>5, <2>6 DEF IdxTriu, TriuSum
  <2>8. a \in 0 .. b
    BY <2>1
  <2> QED BY <2>1, <2>7, <2>8, BeforeCounts
<1> QED BY <1>1, OperandsAreWords, PTL

--------------------------------------------------------------------------
(* The bitwise operators.                                                  *)

LEMMA RemainderOf ==
    ASSUME NEW m \in Nat \ {0}, NEW e \in 0 .. m - 1, NEW k \in Int
    PROVE  (e + m * k) % m = e
BY Z3

LEMMA SameRemainder ==
    ASSUME NEW m \in Nat \ {0}, NEW e \in Int, NEW k \in Int
    PROVE  (e + m * k) % m = e % m
<1> DEFINE q == e \div m  r == e % m
<1>1. q \in Int /\ r \in 0 .. m - 1 /\ e = r + m * q
  BY Z3
<1> HIDE DEF q, r
<1>2. e + m * k = r + m * (q + k) /\ q + k \in Int
  BY <1>1
<1> HIDE DEF r
<1>3. (r + m * (q + k)) % m = r
  BY <1>1, <1>2, RemainderOf
<1> QED BY <1>2, <1>3 DEF r

\* One bit more of a number.
LEMMA OneBitMore ==
    ASSUME NEW v \in Nat, NEW p \in Nat \ {0}
    PROVE  v % (2 * p) = (v % p) + p * ((v \div p) % 2)
<1> DEFINE q == v \div p  r == v % p  h == q \div 2  t == q % 2
<1>1. q \in Int /\ r \in 0 .. p - 1 /\ v = p * q + r
  BY Z3
<1> HIDE DEF q, r
<1>2. h \in Int /\ t \in {0, 1} /\ q = 2 * h + t
  BY <1>1
<1> HIDE DEF h, t
<1>3. p * q = (2 * p) * h + p * t
  BY <1>2
<1>4. p * t \in Nat /\ p * t <= p
  BY <1>2
<1>5. r + p * t \in 0 .. 2 * p - 1
  BY <1>1, <1>4, <1>2
<1>6. v = (r + p * t) + (2 * p) * h
  BY <1>1, <1>3, <1>2
<1>7. 2 * p \in Nat \ {0}
  OBVIOUS
<1> DEFINE e == r + p * t  m == 2 * p
<1> HIDE DEF e, m
<1>8. v % m = e
  <2>1. m \in Nat \ {0} /\ e \in 0 .. m - 1 /\ v = e + m * h
    BY <1>5, <1>6, <1>7 DEF e, m
  <2> QED BY <1>2, <2>1, RemainderOf
<1> QED BY <1>8 DEF q, r, t, e, m

LEMMA BitIsBit == \A v \in Nat : \A i \in 0 .. WordBits - 1 : Bit(v, i) \in {0, 1}
<1> SUFFICES ASSUME NEW v \in Nat, NEW i \in 0 .. WordBits - 1 PROVE Bit(v, i) \in {0, 1}
  OBVIOUS
<1>1. 2 ^ i \in Nat \ {0}
  BY PowerOfBit, WordAssumption
<1>2. v \div 2 ^ i \in Int
  BY <1>1
<1> QED BY <1>2 DEF Bit

Unsigneds == 0 .. 2 * Half - 1

\* Numbers add up as their bits do when no bit is carried.
LEMMA BitsAddUp ==
    ASSUME NEW u \in Unsigneds, NEW v \in Unsigneds,
           NEW x \in Unsigneds, NEW y \in Unsigneds,
           \A i \in 0 .. WordBits - 1 : Bit(u, i) + Bit(v, i) = Bit(x, i) + Bit(y, i)
    PROVE  u + v = x + y
<1> DEFINE low(w, n) == w % 2 ^ n
           S == {n \in Nat : n \in Exponent => low(u, n) + low(v, n) = low(x, n) + low(y, n)}
<1>1. WordBits \in Nat /\ Half \in Nat /\ {u, v, x, y} \subseteq Nat /\ 2 ^ 0 = 1
  BY WordAssumption, WordIsInterval DEF Unsigneds
<1>2. 0 \in S
  <2>1. \A w \in Nat : w % 1 = 0
    OBVIOUS
  <2> QED BY <1>1, <2>1
<1>3. ASSUME NEW n \in Nat, n \in S PROVE n + 1 \in S
  <2>1. SUFFICES ASSUME n + 1 \in Exponent
                 PROVE  low(u, n + 1) + low(v, n + 1) = low(x, n + 1) + low(y, n + 1)
    OBVIOUS
  <2>2. n \in Exponent /\ n \in 0 .. WordBits - 1 /\ n \in 0 .. WordBits
    BY <1>1, <2>1 DEF Exponent
  <2> DEFINE p == 2 ^ n
  <2>3. p \in Nat \ {0} /\ 2 ^ (n + 1) = 2 * p
    BY <2>2, PowerOfBit, WordAssumption
  <2>4. ASSUME NEW w \in Nat
        PROVE  low(w, n + 1) = low(w, n) + p * Bit(w, n) /\ low(w, n) \in Nat
    <3>1. /\ low(w, n + 1) = w % (2 * p) /\ low(w, n) = w % p
          /\ Bit(w, n) = (w \div p) % 2
      BY <2>3, Zenon DEF Bit
    <3> HIDE DEF p, low
    <3>2. p \in Nat \ {0}
      BY <2>3
    <3>3. w % (2 * p) = (w % p) + p * ((w \div p) % 2)
      BY <3>2, OneBitMore, Zenon
    <3>4. w % p \in Nat
      BY <3>2
    <3> QED BY <3>1, <3>3, <3>4, Zenon
  <2>5. low(u, n) + low(v, n) = low(x, n) + low(y, n)
    BY <1>3, <2>2
  <2>6. Bit(u, n) + Bit(v, n) = Bit(x, n) + Bit(y, n)
    BY <2>2
  <2>7. {Bit(u, n), Bit(v, n), Bit(x, n), Bit(y, n)} \subseteq {0, 1}
    BY <1>1, <2>2, BitIsBit
  <2>8. {low(u, n), low(v, n), low(x, n), low(y, n)} \subseteq Nat
    BY <1>1, <2>4
  <2> HIDE DEF p, low
  <2>9. /\ p * Bit(u, n) + p * Bit(v, n) = p * (Bit(u, n) + Bit(v, n))
        /\ p * Bit(x, n) + p * Bit(y, n) = p * (Bit(x, n) + Bit(y, n))
    BY <2>3, <2>7
  <2>10. {p * Bit(u, n), p * Bit(v, n), p * Bit(x, n), p * Bit(y, n)} \subseteq Nat
    BY <2>3, <2>7
  <2> QED BY <1>1, <2>4, <2>5, <2>6, <2>8, <2>9, <2>10
<1>4. WordBits \in S
  <2> HIDE DEF S
  <2> QED BY <1>1, <1>2, <1>3, UpFromZero
<1>5. \A w \in Unsigneds : low(w, WordBits) = w
  <2>1. 2 ^ WordBits = 2 * Half
    BY PowerOfBit
  <2>2. \A m \in Nat \ {0} : \A w \in 0 .. m - 1 : w % m = w
    BY Z3
  <2>3. 2 * Half \in Nat \ {0}
    BY WordIsInterval
  <2> QED BY <2>1, <2>2, <2>3 DEF Unsigneds
<1>6. WordBits \in Exponent
  BY <1>1 DEF Exponent
<1> QED BY <1>4, <1>5, <1>6

LEMMA ZeroHasNoBits == 0 \in Unsigneds /\ \A i \in 0 .. WordBits - 1 : Bit(0, i) = 0
<1>1. ASSUME NEW i \in 0 .. WordBits - 1 PROVE Bit(0, i) = 0
  <2>1. 2 ^ i \in Nat \ {0}
    BY PowerOfBit, WordAssumption
  <2>2. 0 \div 2 ^ i = 0 /\ 0 % 2 = 0
    BY <2>1, DivideSmall
  <2> QED BY <2>2, Zenon DEF Bit
<1> QED BY <1>1, WordIsInterval DEF Unsigneds

\* The complement of a number has the other bits.
LEMMA ComplementHasOtherBits ==
    ASSUME NEW v \in Unsigneds
    PROVE  \A i \in 0 .. WordBits - 1 : Bit(2 * Half - 1 - v, i) = 1 - Bit(v, i)
<1> DEFINE Others(c, w) == \A i \in 0 .. WordBits - 1 : Bit(c, i) = 1 - Bit(w, i)
<1>1. WordBits \in Exponent /\ 2 ^ WordBits = 2 * Half /\ Half \in Nat /\ Half > 4
  BY WordIsInterval, PowerOfBit DEF Exponent
<1>2. Unsigneds \subseteq Nat
  BY <1>1 DEF Unsigneds
<1>3. ASSUME NEW w \in Unsigneds PROVE \E c \in Unsigneds : Others(c, w)
  <2> DEFINE B == {i \in 0 .. WordBits - 1 : Bit(w, i) # 1}
  <2>1. B \in SUBSET (0 .. WordBits - 1)
    OBVIOUS
  <2>2. PICK c \in Unsigneds : \A i \in 0 .. WordBits - 1 : (Bit(c, i) = 1) <=> i \in B
    <3> HIDE DEF B
    <3> QED BY <1>1, <2>1, NumberOfBits DEF Unsigneds
  <2>3. ASSUME NEW i \in 0 .. WordBits - 1 PROVE Bit(c, i) = 1 - Bit(w, i)
    <3>1. Bit(c, i) \in {0, 1} /\ Bit(w, i) \in {0, 1}
      BY <1>2, BitIsBit
    <3>2. (Bit(c, i) = 1) <=> (Bit(w, i) # 1)
      BY <2>2
    <3> QED BY <3>1, <3>2
  <2> QED BY <2>3
<1>4. PICK f \in Unsigneds : Others(f, 0)
  BY <1>3, ZeroHasNoBits
<1>5. ASSUME NEW w \in Unsigneds, NEW c \in Unsigneds, Others(c, w)
      PROVE  c + w = f
  <2>1. ASSUME NEW i \in 0 .. WordBits - 1
        PROVE  Bit(c, i) + Bit(w, i) = Bit(f, i) + Bit(0, i)
    <3>1. Bit(w, i) \in {0, 1} /\ Bit(c, i) = 1 - Bit(w, i)
      BY <1>2, <1>5, BitIsBit
    <3>2. Bit(f, i) = 1 - Bit(0, i) /\ Bit(0, i) = 0
      BY <1>4, ZeroHasNoBits
    <3>3. Bit(f, i) + Bit(0, i) = 1
      BY <3>2
    <3> QED BY <3>1, <3>3
  <2>2. c + w = f + 0
    BY <2>1, BitsAddUp, ZeroHasNoBits
  <2> QED BY <1>2, <2>2
<1>6. f = 2 * Half - 1
  <2>1. 2 * Half - 1 \in Unsigneds
    BY <1>1 DEF Unsigneds
  <2>2. PICK c \in Unsigneds : Others(c, 2 * Half - 1)
    BY <1>3, <2>1
  <2>3. c + (2 * Half - 1) = f
    BY <1>5, <2>1, <2>2
  <2> QED BY <1>1, <2>3 DEF Unsigneds
<1>7. PICK c \in Unsigneds : Others(c, v)
  BY <1>3
<1>8. c = 2 * Half - 1 - v
  BY <1>1, <1>2, <1>5, <1>6, <1>7
<1> QED BY <1>7, <1>8

LEMMA WrapSame ==
    ASSUME NEW x \in Int, NEW y \in Int, NEW k \in Int, x = y + 2 * Half * k
    PROVE  Wrap(x) = Wrap(y)
<1>1. 2 * Half \in Nat \ {0} /\ Half \in Nat
  BY WordIsInterval
<1>2. x + Half = (y + Half) + (2 * Half) * k /\ y + Half \in Int
  BY <1>1
<1> DEFINE m == 2 * Half  e == y + Half
<1> HIDE DEF m, e
<1>3. (x + Half) % m = e % m
  <2>1. m \in Nat \ {0} /\ e \in Int /\ x + Half = e + m * k
    BY <1>1, <1>2 DEF m, e
  <2>2. (e + m * k) % m = e % m
    BY <2>1, SameRemainder
  <2> QED BY <2>1, <2>2
<1> QED BY <1>3 DEF Wrap, m, e

\* Words whose unsigned forms add up to the same are the same modulo the word.
LEMMA UnsignedSums ==
    ASSUME NEW s \in Word, NEW t \in Word, NEW x \in Word, NEW y \in Word,
           Unsigned(s) + Unsigned(t) = Unsigned(x) + Unsigned(y)
    PROVE  Wrap(s + t) = Wrap(x + y) /\ Wrap(x - t) = Wrap(s - y)
<1>1. Half \in Nat /\ {s, t, x, y} \subseteq Int
  BY WordIsInterval
<1>2. ASSUME NEW w \in Word PROVE \E k \in {0, 1} : Unsigned(w) = w + 2 * Half * k
  <2>1. w \in Int /\ 2 * Half * 0 = 0 /\ 2 * Half * 1 = 2 * Half
    BY <1>1, WordIsInterval
  <2> QED BY <1>1, <2>1, UnsignedOfWord
<1>3. PICK i, j, k, l \in {0, 1} :
         /\ Unsigned(s) = s + 2 * Half * i /\ Unsigned(t) = t + 2 * Half * j
         /\ Unsigned(x) = x + 2 * Half * k /\ Unsigned(y) = y + 2 * Half * l
  <2>1. /\ \E i \in {0, 1} : Unsigned(s) = s + 2 * Half * i
        /\ \E j \in {0, 1} : Unsigned(t) = t + 2 * Half * j
        /\ \E k \in {0, 1} : Unsigned(x) = x + 2 * Half * k
        /\ \E l \in {0, 1} : Unsigned(y) = y + 2 * Half * l
    BY <1>2
  <2> QED BY <2>1, Zenon
<1>4. k + l - i - j \in Int /\ i + j - k - l \in Int
  BY <1>3
<1>5. s + t = (x + y) + 2 * Half * (k + l - i - j)
  BY <1>1, <1>3
<1>6. x - t = (s - y) + 2 * Half * (i + j - k - l)
  BY <1>1, <1>3
<1>7. {s + t, x + y, x - t, s - y} \subseteq Int
  BY <1>1
<1>8. Wrap(s + t) = Wrap(x + y)
  BY <1>4, <1>5, <1>7, WrapSame
<1>9. Wrap(x - t) = Wrap(s - y)
  BY <1>4, <1>6, <1>7, WrapSame
<1> QED BY <1>8, <1>9

LEMMA BitOfWord ==
    ASSUME NEW s \in Word, NEW i \in 0 .. WordBits - 1
    PROVE  /\ Unsigned(s) \in Unsigneds /\ Bit(Unsigned(s), i) \in {0, 1}
           /\ (Bit(Unsigned(s), i) = 1) <=> i \in BitsOf(s)
<1>1. Unsigned(s) \in Unsigneds /\ Unsigneds \subseteq Nat
  BY UnsignedOfWord, WordIsInterval DEF Unsigneds
<1>2. Bit(Unsigned(s), i) \in {0, 1}
  BY <1>1, BitIsBit
<1> QED BY <1>1, <1>2, BitsOfUnsigned

\* A word is what its bits make it.
LEMMA SameBitsSameWord ==
    ASSUME NEW s \in Word, NEW t \in Word, BitsOf(s) = BitsOf(t) PROVE s = t
<1>1. Half \in Nat /\ Half > 4 /\ 0 \in 0 .. WordBits - 1
      /\ s \in Int /\ -Half <= s /\ s < Half /\ t \in Int /\ -Half <= t /\ t < Half
  BY WordIsInterval, WordAssumption
<1>2. Unsigned(s) \in Unsigneds /\ Unsigned(t) \in Unsigneds
  BY <1>1, BitOfWord
<1>3. ASSUME NEW i \in 0 .. WordBits - 1
      PROVE  Bit(Unsigned(s), i) + Bit(0, i) = Bit(Unsigned(t), i) + Bit(0, i)
  BY BitOfWord
<1>4. Unsigned(s) + 0 = Unsigned(t) + 0
  BY <1>2, <1>3, ZeroHasNoBits, BitsAddUp
<1>5. Unsigned(s) = Unsigned(t)
  BY <1>1, <1>2, <1>4 DEF Unsigneds
<1>6. /\ Unsigned(s) = (IF s < 0 THEN s + 2 * Half ELSE s)
      /\ Unsigned(t) = (IF t < 0 THEN t + 2 * Half ELSE t)
  BY UnsignedOfWord
<1>7. (IF s < 0 THEN s + 2 * Half ELSE s) = (IF t < 0 THEN t + 2 * Half ELSE t)
  BY <1>5, <1>6, Zenon
<1> QED BY <1>1, <1>7

\* !x has the bits x has not.
LEMMA BitsOfComplement ==
    ASSUME NEW s \in Word
    PROVE  /\ Complement(s) \in Word
           /\ BitsOf(Complement(s)) = (0 .. WordBits - 1) \ BitsOf(s)
<1> DEFINE c == Complement(s)
<1>1. Half \in Nat /\ Half > 4 /\ s \in Int /\ -Half <= s /\ s < Half
      /\ 0 \in 0 .. WordBits - 1
  BY WordIsInterval, WordAssumption
<1>2. c = -s - 1 /\ c \in Word
  BY <1>1, WordIsInterval DEF Complement
<1> HIDE DEF c
<1>3. Unsigned(s) \in Unsigneds /\ Unsigned(c) = 2 * Half - 1 - Unsigned(s)
  <2>1. /\ Unsigned(s) = (IF s < 0 THEN s + 2 * Half ELSE s)
        /\ Unsigned(c) = (IF c < 0 THEN c + 2 * Half ELSE c)
    BY <1>2, UnsignedOfWord
  <2>2. Unsigned(c) = 2 * Half - 1 - Unsigned(s)
    BY <1>1, <1>2, <2>1
  <2> QED BY <1>1, <2>2, BitOfWord
<1>4. ASSUME NEW i \in 0 .. WordBits - 1 PROVE i \in BitsOf(c) <=> i \notin BitsOf(s)
  <2>1. Bit(Unsigned(c), i) = 1 - Bit(Unsigned(s), i)
    BY <1>3, ComplementHasOtherBits
  <2>2. Bit(Unsigned(s), i) \in {0, 1}
    BY BitOfWord
  <2>3. (Bit(Unsigned(c), i) = 1) <=> (Bit(Unsigned(s), i) # 1)
    BY <2>1, <2>2
  <2> QED BY <1>2, <2>3, BitOfWord
<1>5. BitsOf(c) \subseteq 0 .. WordBits - 1
  BY BitsAreBits
<1>6. BitsOf(c) = (0 .. WordBits - 1) \ BitsOf(s)
  BY <1>4, <1>5
<1> QED BY <1>2, <1>6 DEF c

\* BAND, BOR, BXOR and BNOT are one family of operators on two's complement
\* words, negative operands included.
THEOREM BitwiseOperatorsAgree == Spec => []BitwiseAgree
<1>1. ASSUME a \in Word, b \in Word PROVE BitwiseAgree
  <2> DEFINE A == BitsOf(a)  B == BitsOf(b)  N == 0 .. WordBits - 1
             and == WordOf(A \cap B)  or == WordOf(A \cup B)
             xor == WordOf((A \cup B) \ (A \cap B))
             na == Complement(a)  nb == Complement(b)  nand == Complement(and)
  <2>1. A \in SUBSET N /\ B \in SUBSET N
    BY BitsAreBits
  <2>2. and \in Word /\ BitsOf(and) = A \cap B
    <3>1. A \cap B \in SUBSET N
      BY <2>1
    <3> HIDE DEF A, B, N
    <3> QED BY <3>1, WordOfInWord DEF N
  <2>3. or \in Word /\ BitsOf(or) = A \cup B
    <3>1. A \cup B \in SUBSET N
      BY <2>1
    <3> HIDE DEF A, B, N
    <3> QED BY <3>1, WordOfInWord DEF N
  <2>4. xor \in Word /\ BitsOf(xor) = (A \cup B) \ (A \cap B)
    <3>1. (A \cup B) \ (A \cap B) \in SUBSET N
      BY <2>1
    <3> HIDE DEF A, B, N
    <3> QED BY <3>1, WordOfInWord DEF N
  <2>5. 0 \in Word /\ 0 \in N
    BY WordIsInterval, WordAssumption
  <2>6. /\ na \in Word /\ BitsOf(na) = N \ A /\ nb \in Word /\ BitsOf(nb) = N \ B
        /\ nand \in Word /\ BitsOf(nand) = N \ (A \cap B)
    BY <1>1, <2>2, BitsOfComplement
  <2> HIDE DEF and, or, xor, na, nb, nand
  <2>7. ASSUME NEW i \in N
        PROVE  /\ Bit(Unsigned(or), i) + Bit(Unsigned(and), i)
                     = Bit(Unsigned(a), i) + Bit(Unsigned(b), i)
               /\ Bit(Unsigned(xor), i) + Bit(Unsigned(and), i)
                     = Bit(Unsigned(or), i) + Bit(0, i)
    <3>1. /\ (Bit(Unsigned(a), i) = 1) <=> i \in A
          /\ (Bit(Unsigned(b), i) = 1) <=> i \in B
          /\ (Bit(Unsigned(and), i) = 1) <=> i \in A \cap B
          /\ (Bit(Unsigned(or), i) = 1) <=> i \in A \cup B
          /\ (Bit(Unsigned(xor), i) = 1) <=> i \in (A \cup B) \ (A \cap B)
      BY <1>1, <2>2, <2>3, <2>4, BitOfWord
    <3>2. {Bit(Unsigned(a), i), Bit(Unsigned(b), i), Bit(Unsigned(and), i),
           Bit(Unsigned(or), i), Bit(Unsigned(xor), i)} \subseteq {0, 1}
      BY <1>1, <2>2, <2>3, <2>4, BitOfWord
    <3>3. Bit(0, i) = 0
      BY ZeroHasNoBits
    <3> HIDE DEF A, B, N
    <3> QED BY <3>1, <3>2, <3>3
  <2>8. {Unsigned(a), Unsigned(b), Unsigned(and), Unsigned(or), Unsigned(xor)}
          \subseteq Unsigneds
    BY <1>1, <2>2, <2>3, <2>4, <2>5, BitOfWord
  <2>9. Unsigned(or) + Unsigned(and) = Unsigned(a) + Unsigned(b)
    BY <2>7, <2>8, BitsAddUp
  <2>10. Unsigned(xor) + Unsigned(and) = Unsigned(or) + 0
    BY <2>7, <2>8, ZeroHasNoBits, BitsAddUp
  <2>11. Wrap(or + and) = Wrap(a + b)
    BY <1>1, <2>2, <2>3, <2>9, UnsignedSums
  <2>12. xor = Wrap(or - and)
    <3>1. Unsigned(0) = 0
      BY <2>5, UnsignedOfWord
    <3>2. Wrap(or - and) = Wrap(xor - 0)
      BY <2>2, <2>3, <2>4, <2>5, <2>10, <3>1, UnsignedSums
    <3>3. xor - 0 = xor
      BY <2>4, WordIsInterval
    <3> QED BY <2>4, <3>2, <3>3, WrapOfWord
  <2>13. nand = WordOf(BitsOf(na) \cup BitsOf(nb))
    <3>1. BitsOf(na) \cup BitsOf(nb) = N \ (A \cap B)
      BY <2>6
    <3>2. N \ (A \cap B) \in SUBSET N
      OBVIOUS
    <3>3. /\ WordOf(N \ (A \cap B)) \in Word
          /\ BitsOf(WordOf(N \ (A \cap B))) = N \ (A \cap B)
      <4> HIDE DEF A, B
      <4> QED BY <3>2, WordOfInWord
    <3> QED BY <2>6, <3>1, <3>3, SameBitsSameWord
  <2>14. /\ Binary("BAND", a, b) = and /\ Binary("BOR", a, b) = or
         /\ Binary("BXOR", a, b) = xor
    BY DEF Binary, and, or, xor
  <2>15. /\ Unary("BNOT", and) = nand /\ Unary("BNOT", a) = na /\ Unary("BNOT", b) = nb
         /\ Binary("BOR", na, nb) = WordOf(BitsOf(na) \cup BitsOf(nb))
    BY DEF Unary, Binary, na, nb, nand
  <2> HIDE DEF A, B, N
  <2> QED BY <2>11, <2>12, <2>13, <2>14, <2>15, Zenon DEF BitwiseAgree
<1>2. a \in Word /\ b \in Word => BitwiseAgree
  BY <1>1
<1> QED BY <1>2, OperandsAreWords, PTL
==========================================================================
