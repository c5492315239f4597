------------------------------- MODULE PyXqmx -------------------------------
(***************************************************************************)
(* Models and samples of the reference VM: the XQMX class and the          *)
(* functions of src/xqvm_py/xqmx.py, and the handlers of                   *)
(* src/xqvm_py/executor.py that work on them, as functions from the stack, *)
(* the XQMX object in the instruction's first register and the vectors in  *)
(* the others to what they leave.                                          *)
(*                                                                         *)
(* One class serves models and samples.  Its two dicts are one function    *)
(* here, coef, as in Xqmx: <<i>> is a key of linear, <<i, j>> with i <= j  *)
(* one of quadratic.  Integers are unbounded.  An instruction that raises  *)
(* leaves nothing to the host, whatever it did before.                     *)
(***************************************************************************)
EXTENDS Isa
LOCAL INSTANCE TLC
LOCAL INSTANCE Functions
LOCAL INSTANCE SequencesExt

Raised == [raised |-> TRUE]
Leaves(s, x) == [raised |-> FALSE, stack |-> s, xqmx |-> x]

XqmxOf(mode, domain, size) ==
    [mode |-> mode, domain |-> domain, size |-> size, rows |-> 0, cols |-> 0,
     coef |-> <<>>]

\* What pop_n and pop take, and the stack without it.
Nth(s, k) == s[Len(s) - k + 1]
Popped(s, n) == SubSeq(s, 1, Len(s) - n)

--------------------------------------------------------------------------
(* The class.                                                             *)

Linear(i) == <<i>>
Quadratic(i, j) == IF i > j THEN <<j, i>> ELSE <<i, j>>
Get(x, key) == IF key \in DOMAIN x.coef THEN x.coef[key] ELSE 0
Put(x, key, v) ==
    [x EXCEPT !.coef = IF v = 0 THEN Restrict(@, DOMAIN @ \ {key}) ELSE (key :> v) @@ @]

\* Every setter looks at its indices.
Has(x, key) == \A k \in DOMAIN key : key[k] \in 0 .. x.size - 1

\* A sequence of calls of add_linear and add_quadratic.
Plus(key, delta) == [key |-> key, delta |-> delta]
Sum(x, terms) == FoldLeft(LAMBDA m, t : Put(m, t.key, Get(m, t.key) + t.delta), x, terms)
Added(s, x, terms) ==
    IF \A k \in DOMAIN terms : Has(x, terms[k].key) THEN Leaves(s, Sum(x, terms))
                                                    ELSE Raised

IsModelMode(x) == x.mode = "model"

\* row_indices and col_indices.
HasRow(x, row) == x.cols # 0 /\ row \in 0 .. x.rows - 1
HasCol(x, col) == x.rows # 0 /\ x.cols # 0 /\ col \in 0 .. x.cols - 1
RowIndices(x, row) == [c \in 1 .. x.cols |-> row * x.cols + c - 1]
ColIndices(x, col) == [r \in 1 .. x.rows |-> col + (r - 1) * x.cols]
Indices(x, byRow, n) == IF byRow THEN RowIndices(x, n) ELSE ColIndices(x, n)
HasLine(x, byRow, n) == IF byRow THEN HasRow(x, n) ELSE HasCol(x, n)

\* The pairs of positions of two nested loops over n elements.
Pairs(n) == FlattenSeq([a \in 1 .. n |-> [b \in 1 .. n - a |-> <<a, a + b>>]])

\* Mutant: b where the expansion of the square has 2b.
EqualityPlusOnce(indices, coeffs, b, penalty) ==
    [k \in DOMAIN indices |->
        Plus(Linear(indices[k]), penalty * coeffs[k] * (coeffs[k] - b))]
      \o [q \in DOMAIN Pairs(Len(indices)) |->
            LET p == Pairs(Len(indices))[q] IN
            Plus(Quadratic(indices[p[1]], indices[p[2]]),
                 2 * penalty * coeffs[p[1]] * coeffs[p[2]])]

\* expand_equality.
EqualityPlus(indices, coeffs, b, penalty) ==
    [k \in DOMAIN indices |->
        Plus(Linear(indices[k]), penalty * coeffs[k] * (coeffs[k] - 2 * b))]
      \o [q \in DOMAIN Pairs(Len(indices)) |->
            LET p == Pairs(Len(indices))[q] IN
            Plus(Quadratic(indices[p[1]], indices[p[2]]),
                 2 * penalty * coeffs[p[1]] * coeffs[p[2]])]

\* expand_onehot.
OneHotPlus(indices, penalty) ==
    [k \in DOMAIN indices |-> Plus(Linear(indices[k]), -penalty)]
      \o [q \in DOMAIN Pairs(Len(indices)) |->
            LET p == Pairs(Len(indices))[q] IN
            Plus(Quadratic(indices[p[1]], indices[p[2]]), 2 * penalty)]

\* expand_reduce, for the new variable w.
ReducePlus(a, b, w, p) ==
    <<Plus(Quadratic(a, b), p), Plus(Quadratic(a, w), -2 * p),
      Plus(Quadratic(b, w), -2 * p), Plus(Linear(w), 3 * p)>>

\* compute_energy's sum: a variable the sample has no value for counts as 0.
EnergySum(m, sample) ==
    SumFunction([key \in DOMAIN m.coef |->
        m.coef[key] * FoldFunction(LAMBDA i, p : Get(sample, Linear(i)) * p, 1, key)])

--------------------------------------------------------------------------
(* The handlers, on a stack with their operands.                          *)

\* __post_init__ rejects a negative size and a discrete domain of less than 2.
AllocatePy(op, s) ==
    LET discrete == op \in {"XQMX", "XSMX"}
        n == IF discrete THEN 2 ELSE 1
        size == Nth(s, n)
        domain == CASE op \in {"BQMX", "BSMX"} -> <<"Binary">>
                    [] op \in {"SQMX", "SSMX"} -> <<"Spin">>
                    [] OTHER                   -> <<"Discrete", Nth(s, 1)>>
        x == XqmxOf(IF op \in ModelAllocators THEN "model" ELSE "sample", domain, size)
    IN  IF size < 0 \/ (discrete /\ Nth(s, 1) < 2) THEN Raised
        ELSE Leaves(Popped(s, n),
                    IF op = "SSMX"
                    THEN [x EXCEPT !.coef = [key \in {<<i>> : i \in 0 .. size - 1} |-> -1]]
                    ELSE x)

\* The getters look at no bound, and no accessor at the mode.
GetPy(s, x, key, n) == Leaves(Append(Popped(s, n), Get(x, key)), x)
SetPy(s, x, key, v, n) ==
    IF Has(x, key) THEN Leaves(Popped(s, n), Put(x, key, v)) ELSE Raised

ResizePy(s, x) ==
    Leaves(Popped(s, 2), [x EXCEPT !.rows = Nth(s, 2), !.cols = Nth(s, 1)])

\* row_find and col_find; a grid without columns (rows) has the value nowhere.
FindPy(s, x, byRow) ==
    LET cells == Indices(x, byRow, Nth(s, 2))
        found == {k \in DOMAIN cells : Get(x, Linear(cells[k])) = Nth(s, 1)}
        answer == IF found = {} THEN -1
                  ELSE (CHOOSE k \in found : \A l \in found : k <= l) - 1
    IN  IF (IF byRow THEN x.cols ELSE x.rows) = 0
        THEN Leaves(Append(Popped(s, 2), -1), x)
        ELSE IF ~HasLine(x, byRow, Nth(s, 2)) THEN Raised
        ELSE Leaves(Append(Popped(s, 2), answer), x)

SumPy(s, x, byRow) ==
    LET cells == Indices(x, byRow, Nth(s, 1)) IN
    IF ~HasLine(x, byRow, Nth(s, 1)) THEN Raised
    ELSE Leaves(Append(Popped(s, 1),
                       SumFunction([k \in DOMAIN cells |-> Get(x, Linear(cells[k]))])), x)

OneHotPy(s, x, byRow) ==
    IF ~HasLine(x, byRow, Nth(s, 2)) \/ ~IsModelMode(x) THEN Raised
    ELSE Added(Popped(s, 2), x, OneHotPlus(Indices(x, byRow, Nth(s, 2)), Nth(s, 1)))

ExcludePy(s, x) ==
    IF IsModelMode(x)
    THEN Added(Popped(s, 3), x, <<Plus(Quadratic(Nth(s, 3), Nth(s, 2)), Nth(s, 1))>>)
    ELSE Raised
ImpliesPy(s, x) ==
    IF IsModelMode(x)
    THEN Added(Popped(s, 3), x,
               <<Plus(Linear(Nth(s, 3)), Nth(s, 1)),
                 Plus(Quadratic(Nth(s, 3), Nth(s, 2)), -Nth(s, 1))>>)
    ELSE Raised

\* The model is first enlarged to hold its largest index.
EqualityPy(s, x, indices, coeffs) ==
    LET largest == CHOOSE k \in DOMAIN indices :
                       \A l \in DOMAIN indices : indices[l] <= indices[k]
        grown == IF indices # <<>> /\ indices[largest] >= x.size
                 THEN [x EXCEPT !.size = indices[largest] + 1] ELSE x
    IN  IF ~IsModelMode(x) \/ Len(indices) # Len(coeffs) THEN Raised
        ELSE Added(Popped(s, 2), grown,
                   EqualityPlus(indices, coeffs, Nth(s, 2), Nth(s, 1)))

\* ATLEAST and ATLEASTW after their own checks: the slack variables are
\* allocated before any index is looked at.
WithSlacks(s, x, indices, weights) ==
    LET k == Nth(s, 2)
        excess == SumFunction(weights) - k
        n == IF excess <= 0 THEN 0 ELSE BitLen(excess)
    IN  Added(Popped(s, 2), [x EXCEPT !.size = @ + n],
              EqualityPlus(indices \o [i \in 1 .. n |-> x.size + i - 1],
                           weights \o [i \in 1 .. n |-> -(2 ^ (i - 1))],
                           k, Nth(s, 1)))
AtLeastPy(s, x, indices) ==
    IF ~IsModelMode(x) \/ Nth(s, 2) \notin 1 .. Len(indices) THEN Raised
    ELSE WithSlacks(s, x, indices, [i \in DOMAIN indices |-> 1])
AtLeastWPy(s, x, indices, weights) ==
    IF ~IsModelMode(x) \/ Len(indices) # Len(weights) \/ Nth(s, 2) <= 0 THEN Raised
    ELSE WithSlacks(s, x, indices, weights)

ReducePy(s, x) ==
    LET grown == [x EXCEPT !.size = @ + 1] IN
    IF ~IsModelMode(x) \/ ~Has(x, <<Nth(s, 3), Nth(s, 2)>>) THEN Raised
    ELSE Added(Append(Popped(s, 3), x.size), grown,
               ReducePlus(Nth(s, 3), Nth(s, 2), x.size, Nth(s, 1)))

EnergyPy(s, x, sample) ==
    IF ~IsModelMode(x) \/ sample.mode # "sample" \/ x.size # sample.size THEN Raised
    ELSE Leaves(Append(s, EnergySum(x, sample)), x)

\* The push that ends a handler takes words only.
Checked(result) ==
    IF ~result.raised /\ \E k \in DOMAIN result.stack : result.stack[k] \notin Word
    THEN Raised ELSE result
=============================================================================
