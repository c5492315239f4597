-------------------------------- MODULE Xqmx --------------------------------
(***************************************************************************)
(* Models and samples: the data types of src/xqvm/src/model.rs and the     *)
(* expansions of src/xqvm/src/vm.rs that turn a constraint into            *)
(* coefficients.  Pure functions; XqmxVm has the handlers that call them.  *)
(*                                                                         *)
(* A model keeps its linear and its quadratic coefficients in two maps;    *)
(* here they are one function, coef, from keys to coefficients: the key of *)
(* a linear coefficient is <<i>>, that of a quadratic one <<i, j>> with    *)
(* i <= j.  The maps are sparse: a coefficient that is zero has no entry.  *)
(***************************************************************************)
EXTENDS Alu, Sequences, Functions, SequencesExt

\* usize: the unsigned word an index or a size is.
Address(x) == x % (2 * Half)
AddressOverflows(x) == x >= 2 * Half

\* XqmxModel::new, XqmxSample::new.
NewModel(domain, size) ==
    [domain |-> domain, size |-> size, coef |-> <<>>, rows |-> 0, cols |-> 0]
NewSample(domain, values) ==
    [domain |-> domain, values |-> values, rows |-> 0, cols |-> 0]

LinearKey(i) == <<i>>

\* Mutant: the pair kept in the order the program gave it.
QuadKeyAsGiven(i, j) == <<i, j>>

QuadKey(i, j) == IF i <= j THEN <<i, j>> ELSE <<j, i>>

\* get_linear, get_quad.
Coef(m, key) == IF key \in DOMAIN m.coef THEN m.coef[key] ELSE 0

\* set_linear, set_quad, and what add_linear and add_quad store.
WithCoef(m, key, v) ==
    LET keys == IF v = 0 THEN DOMAIN m.coef \ {key} ELSE DOMAIN m.coef \cup {key}
    IN  [m EXCEPT !.coef = [k \in keys |-> IF k = key THEN v ELSE @[k]]]

\* The energy of an assignment x of the variables 0 .. n-1, a sequence: a
\* coefficient counts as often as the variables of its key, multiplied.
Monomial(key, x) == FoldFunction(LAMBDA i, p : x[i + 1] * p, 1, key)
Hamiltonian(m, x) ==
    SumFunction([key \in DOMAIN m.coef |-> m.coef[key] * Monomial(key, x)])

\* XqmxModel::energy: the sample must have the model's size, and so must every
\* index a coefficient has.  The sum wraps.
InRange(m) == \A key \in DOMAIN m.coef : \A k \in DOMAIN key : key[k] < m.size
Energy(m, values) == Wrap(Hamiltonian(m, values))

--------------------------------------------------------------------------
\* An expansion adds terms to a model, one after the other.  A term carries
\* the signed values computed for it, the last one the amount to add, and the
\* address it goes to: with overflow checks the first of them that does not
\* fit panics, and the terms added before it stay.
Term(key, steps, wide) == [key |-> key, steps |-> steps, wide |-> wide]
LinearTerm(i, steps) == Term(LinearKey(Address(i)), steps, {i})
QuadTerm(i, j, steps) ==
    Term(QuadKey(Address(i), Address(j)), steps, {i, j})

\* A value computed between two terms.
Compute(x) == Term(<<>>, <<x, 0>>, {})

\* The sum a term leaves is checked like the values before it.
TermPanics(m, t) ==
    \/ \E k \in DOMAIN t.steps : t.steps[k] \notin Word
    \/ \E i \in t.wide : AddressOverflows(i)
    \/ Coef(m, t.key) + t.steps[Len(t.steps)] \notin Word

AddTerm(m, t) ==
    WithCoef(m, t.key, Wrap(Coef(m, t.key) + t.steps[Len(t.steps)]))

\* The model after the terms, and whether one of them panicked.
Expand(m, terms, checks) ==
    FoldLeft(LAMBDA acc, t :
                 IF acc.panic \/ (checks /\ TermPanics(acc.model, t))
                 THEN [acc EXCEPT !.panic = TRUE]
                 ELSE [acc EXCEPT !.model = AddTerm(@, t)],
             [model |-> m, panic |-> FALSE], terms)

\* The pairs k < m of 1 .. n in the order two nested loops visit them.
PairsOf(n) ==
    FlattenSeq([k \in 1 .. n |-> [l \in 1 .. n - k |-> <<k, k + l>>]])

\* Mutant: the linear part of (sum - b)^2 without its factor two.
EqualityTermsOnce(indices, coeffs, b, penalty) ==
    LET n == Len(indices)
        pair == PairsOf(n)
    IN  [k \in 1 .. n |->
            LinearTerm(indices[k], <<penalty * coeffs[k] * (coeffs[k] - b)>>)]
        \o [q \in 1 .. Len(pair) |->
            QuadTerm(indices[pair[q][1]], indices[pair[q][2]],
                <<2 * penalty * coeffs[pair[q][1]] * coeffs[pair[q][2]]>>)]

\* expand_equality: penalty * (sum of coeffs * x - b)^2 without its constant.
EqualityTerms(indices, coeffs, b, penalty) ==
    LET n == Len(indices)
        pair == PairsOf(n)
    IN  <<Compute(2 * b)>>
        \o [k \in 1 .. n |->
            LinearTerm(indices[k],
                <<penalty * coeffs[k], coeffs[k] - 2 * b,
                  penalty * coeffs[k] * (coeffs[k] - 2 * b)>>)]
        \o <<Compute(2 * penalty)>>
        \o [q \in 1 .. Len(pair) |->
            LET k == pair[q][1]
                l == pair[q][2]
            IN  QuadTerm(indices[k], indices[l],
                    <<2 * penalty * coeffs[k],
                      2 * penalty * coeffs[k] * coeffs[l]>>)]

\* The grid cells of a row and of a column, as indices of variables.
RowCells(grid, row) == [c \in 1 .. grid.cols |-> row * grid.cols + c - 1]
ColCells(grid, col) == [r \in 1 .. grid.rows |-> (r - 1) * grid.cols + col]

\* exec_one_hot_r, exec_one_hot_c: their loops.
OneHotTerms(cells, penalty) ==
    LET pair == PairsOf(Len(cells))
    IN  [k \in 1 .. Len(cells) |-> LinearTerm(cells[k], <<-penalty>>)]
        \o [q \in 1 .. Len(pair) |->
            QuadTerm(cells[pair[q][1]], cells[pair[q][2]], <<2 * penalty>>)]

ExcludeTerms(i, j, penalty) == <<QuadTerm(i, j, <<penalty>>)>>
ImpliesTerms(i, j, penalty) ==
    <<LinearTerm(i, <<penalty>>), QuadTerm(i, j, <<-penalty>>)>>

\* Mutant: the auxiliary variable's own weight too small.
ReduceTermsLight(a, b, w, p) ==
    <<QuadTerm(a, b, <<p>>), QuadTerm(a, w, <<-2 * p>>),
      QuadTerm(b, w, <<-2 * p>>), LinearTerm(w, <<2 * p>>)>>

\* expand_reduce, after it has made room for the auxiliary variable w.
ReduceTerms(a, b, w, p) ==
    <<QuadTerm(a, b, <<p>>), QuadTerm(a, w, <<-2 * p>>),
      QuadTerm(b, w, <<-2 * p>>), LinearTerm(w, <<3 * p>>)>>

\* Mutant: one slack bit less than the excess needs.
SlackBitsShort(excess) == BitLen(excess) - 1

\* The slack variables ATLEAST and ATLEASTW append to absorb an excess.
SlackBits(excess) == BitLen(excess)
SlackIndices(start, n) == [i \in 1 .. n |-> start + i - 1]
SlackCoeffs(n) == [i \in 1 .. n |-> -(2 ^ (i - 1))]
==========================================================================
