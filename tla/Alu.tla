------------------------------- MODULE Alu -------------------------------
(***************************************************************************)
(* The arithmetic of the XQVM (src/xqvm/src/vm.rs, the handlers from       *)
(* exec_add to exec_shr and exec_idx_grid / exec_idx_triu): pure functions *)
(* on the machine's signed words.  The code's word is an i64; here it is   *)
(* WordBits wide, so that a model checker can visit the boundary values.   *)
(*                                                                         *)
(* Operators that wrap in the code (wrapping_add, ...) go through Wrap.    *)
(* The one operator that does not is the "+ i" of IDXTRIU: its overflow    *)
(* panics in a build with overflow checks and wraps in one without         *)
(* (Cargo.toml has both kinds of profile), see TriuOverflows.              *)
(***************************************************************************)
EXTENDS Integers, FiniteSets

CONSTANT WordBits      \* width of a stack value (64 in the code)

Half == 2 ^ (WordBits - 1)
MinWord == -Half
MaxWord == Half - 1
Word == MinWord .. MaxWord

\* Two's complement reduction of an integer to a word.
Wrap(x) == ((x + Half) % (2 * Half)) - Half

\* The positions of the bits set in the two's complement form of a.
BitsOf(a) == {i \in 0 .. WordBits - 1 : ((a % (2 * Half)) \div 2 ^ i) % 2 = 1}

\* The word whose set bits are B.
WordOf(B) == CHOOSE c \in Word : BitsOf(c) = B

\* The word is wide enough to hold its own width.  (The rest is what an
\* exponent means, which the provers do not know.)
ASSUME WordAssumption ==
    /\ WordBits \in Nat /\ WordBits >= 4
    /\ 2 ^ 0 = 1
    /\ \A n \in 0 .. WordBits - 1 : 2 ^ (n + 1) = 2 * 2 ^ n

--------------------------------------------------------------------------
Magnitude(a) == IF a < 0 THEN -a ELSE a
Truth(p) == IF p THEN 1 ELSE 0

\* i64::wrapping_div and wrapping_rem: truncation towards zero.
TruncDiv(a, b) ==
    LET q == Magnitude(a) \div Magnitude(b)
    IN  Wrap(IF (a < 0) # (b < 0) THEN -q ELSE q)
TruncRem(a, b) ==
    LET r == Magnitude(a) % Magnitude(b) IN IF a < 0 THEN -r ELSE r

\* Mutant: MOD as truncating remainder, the adjustment forgotten.
SignsNeverDiffer(r, b) == FALSE

\* The adjustment both DIV and MOD make to the truncated result.
SignsDiffer(r, b) == r # 0 /\ (r < 0) # (b < 0)

FloorDiv(a, b) ==
    LET q == TruncDiv(a, b)
    IN  IF SignsDiffer(TruncRem(a, b), b) THEN Wrap(q - 1) ELSE q
FloorMod(a, b) ==
    LET r == TruncRem(a, b) IN IF SignsDiffer(r, b) THEN Wrap(r + b) ELSE r

\* Mutant: powers of two one bit short.
BitLenShort(a) == Cardinality({n \in 0 .. WordBits - 2 : 2 ^ n < a})

\* Number of bits of a positive value, 0 for the others.
BitLen(a) == Cardinality({n \in 0 .. WordBits - 2 : 2 ^ n <= a})

ShiftCount(b) == b \in 0 .. WordBits - 1
Shl(a, b) == Wrap(a * 2 ^ b)
Shr(a, b) == a \div 2 ^ b

\* Mutant: the complement taken for the negation.
ComplementAsNegation(a) == Wrap(-a)

\* !a, of an i64.
Complement(a) == -a - 1

--------------------------------------------------------------------------
UnaryOps == {"NEG", "SQR", "ABS", "INC", "DEC", "BITLEN", "NOT", "BNOT"}

Unary(op, a) ==
    CASE op = "NEG"    -> Wrap(-a)
      [] op = "SQR"    -> Wrap(a * a)
      [] op = "ABS"    -> Wrap(Magnitude(a))
      [] op = "INC"    -> Wrap(a + 1)
      [] op = "DEC"    -> Wrap(a - 1)
      [] op = "BITLEN" -> BitLen(a)
      [] op = "NOT"    -> Truth(a = 0)
      [] OTHER         -> Complement(a)         \* BNOT

BinaryOps == {"ADD", "SUB", "MUL", "DIV", "MOD", "MIN", "MAX",
              "EQ", "LT", "GT", "LTE", "GTE", "AND", "OR", "XOR",
              "BAND", "BOR", "BXOR", "SHL", "SHR"}

\* The error a binary operator raises after both operands were popped.
BinaryError(op, b) ==
    CASE op \in {"DIV", "MOD"} /\ b = 0             -> "DivisionByZero"
      [] op \in {"SHL", "SHR"} /\ ~ShiftCount(b)    -> "InvalidShift"
      [] OTHER                                      -> "none"

Binary(op, a, b) ==
    CASE op = "ADD"  -> Wrap(a + b)
      [] op = "SUB"  -> Wrap(a - b)
      [] op = "MUL"  -> Wrap(a * b)
      [] op = "DIV"  -> FloorDiv(a, b)
      [] op = "MOD"  -> FloorMod(a, b)
      [] op = "MIN"  -> IF a <= b THEN a ELSE b
      [] op = "MAX"  -> IF a >= b THEN a ELSE b
      [] op = "EQ"   -> Truth(a = b)
      [] op = "LT"   -> Truth(a < b)
      [] op = "GT"   -> Truth(a > b)
      [] op = "LTE"  -> Truth(a <= b)
      [] op = "GTE"  -> Truth(a >= b)
      [] op = "AND"  -> Truth(a # 0 /\ b # 0)
      [] op = "OR"   -> Truth(a # 0 \/ b # 0)
      [] op = "XOR"  -> Truth((a # 0) # (b # 0))
      [] op = "BAND" -> WordOf(BitsOf(a) \cap BitsOf(b))
      [] op = "BOR"  -> WordOf(BitsOf(a) \cup BitsOf(b))
      [] op = "BXOR" -> WordOf((BitsOf(a) \cup BitsOf(b))
                                  \ (BitsOf(a) \cap BitsOf(b)))
      [] op = "SHL"  -> Shl(a, b)
      [] OTHER       -> Shr(a, b)                 \* SHR

\* Mutant: the triangle that includes the diagonal below.
TriuSumDiagonal(i, j) ==
    LET p == Wrap(j * Wrap(j + 1)) IN TruncDiv(p, 2) + i

\* IDXGRID and IDXTRIU.  TriuSum is the exact sum of the last, unchecked +.
IdxGrid(row, col, cols) == Wrap(Wrap(row * cols) + col)
TriuSum(i, j) ==
    LET p == Wrap(j * Wrap(j - 1)) IN TruncDiv(p, 2) + i
IdxTriu(i, j) == Wrap(TriuSum(i, j))
TriuOverflows(i, j) == TriuSum(i, j) \notin Word
==========================================================================
