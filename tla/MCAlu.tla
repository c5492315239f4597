------------------------------ MODULE MCAlu ------------------------------
(***************************************************************************)
(* Model checking of Alu: a machine whose state is a pair of operands and  *)
(* that can move to every other pair, with the reference definitions the   *)
(* operators are compared with.                                            *)
(***************************************************************************)
EXTENDS Alu

VARIABLES a, b

Init == a = 0 /\ b = 0
Next == \E x \in Word : (a' = x /\ b' = b) \/ (a' = a /\ b' = x)
Spec == Init /\ [][Next]_<<a, b>>

--------------------------------------------------------------------------
\* exec_div and exec_modulo promise Python's a // b and a % b: the quotient
\* and remainder recombine to the dividend (modulo the word), the remainder
\* has the divisor's sign and is smaller than it, for every sign of the
\* operands and for MIN / -1.
FloorDivision ==
    b # 0 =>
      LET q == FloorDiv(a, b)
          r == FloorMod(a, b)
      IN  /\ q \in Word
          /\ Wrap(q * b + r) = a
          /\ IF b > 0 THEN r \in 0 .. b - 1 ELSE r \in (b + 1) .. 0

\* BITLEN of a positive value is the n with 2^(n-1) <= a < 2^n (0 for the
\* others), the size exec_slack and the at-least expansions rely on.
BitLenBrackets ==
    LET n == BitLen(a)
    IN  IF a > 0 THEN n > 0 /\ 2 ^ (n - 1) <= a /\ a < 2 ^ n ELSE n = 0

\* BAND, BOR, BXOR and BNOT agree with each other as two's complement
\* operators: x + y = (x | y) + (x & y), x ^ y = (x | y) - (x & y) and
\* ~(x & y) = ~x | ~y, negative operands included.
BitwiseAgree ==
    LET and == Binary("BAND", a, b)
        or  == Binary("BOR", a, b)
    IN  /\ Wrap(or + and) = Wrap(a + b)
        /\ Binary("BXOR", a, b) = Wrap(or - and)
        /\ Unary("BNOT", and) = Binary("BOR", Unary("BNOT", a), Unary("BNOT", b))

\* IDXTRIU numbers the pairs i < j of a model consecutively: as long as the
\* products fit the word, (i, j) gets the number of pairs that come before it.
TriuDense ==
    (0 <= a /\ a < b /\ b * b <= MaxWord) =>
      IdxTriu(a, b) = Cardinality({p \in (0 .. b) \X (0 .. b) :
                                     p[1] < p[2] /\ (p[2] < b \/ (p[2] = b /\ p[1] < a))})
==========================================================================
