------------------------------ MODULE Meaning ------------------------------
(***************************************************************************)
(* What the calls of a client of xqcp mean, without registers, programs or *)
(* a machine: the energy they describe, as a sum of terms over assignments *)
(* of the variables, and the outputs they ask for, as sequences.  It is    *)
(* what xqcp/README.md says of each call, in mathematical integers, and    *)
(* what the compiled programs are compared with.                           *)
(*                                                                         *)
(* A meaning is a set with one element, or empty where a call has none: an *)
(* index out of range, a name that is not bound, a number where a vector   *)
(* is wanted.                                                              *)
(***************************************************************************)
EXTENDS Integers, Sequences, FiniteSets
LOCAL INSTANCE TLC
LOCAL INSTANCE Functions
LOCAL INSTANCE SequencesExt
LOCAL INSTANCE FiniteSetsExt

Indicator(b) == IF b THEN 1 ELSE 0

\* What is known after some calls: the values of the names, the variables, the
\* terms of the energy, the lines that must have exactly one variable set, the
\* outputs, and the sample the outputs are read from.
Nothing(env, sample) ==
    [env |-> env, size |-> 0, rows |-> 0, cols |-> 0, domain |-> "Binary",
     terms |-> <<>>, lines |-> {}, outputs |-> <<>>, sample |-> sample]

Int_(i) == [tag |-> "Int", int |-> i]
Vec_(s) == [tag |-> "VecInt", ints |-> s]
Has(s, name, tag) == name \in DOMAIN s.env /\ s.env[name].tag = tag
Bound(s, name, v) == [s EXCEPT !.env = (name :> v) @@ @]
Unbound(s, names) == [s EXCEPT !.env = Restrict(@, DOMAIN @ \ names)]

--------------------------------------------------------------------------
(* Expressions.                                                           *)

IsAt(i, seq) == i + 1 \in DOMAIN seq

Arithmetic(op, v) ==
    CASE op = "ADD" -> {v[1] + v[2]}
      [] op = "SUB" -> {v[1] - v[2]}
      [] op = "MUL" -> {v[1] * v[2]}
      [] op = "MOD" -> IF v[2] > 0 THEN {v[1] % v[2]} ELSE {}
      [] op = "EQ"  -> {Indicator(v[1] = v[2])}
      [] op = "GT"  -> {Indicator(v[1] > v[2])}
      [] op = "NEG" -> {-v[1]}
      [] op = "SQR" -> {v[1] * v[1]}
      [] op = "IDXTRIU" -> IF 0 <= v[1] /\ v[1] < v[2]
                           THEN {(v[2] * (v[2] - 1)) \div 2 + v[1]} ELSE {}

Elements(s, op, name, v) ==
    CASE ~Has(s, name, "VecInt") -> {}
      [] op = "VECLEN"           -> {Len(s.env[name].ints)}
      [] OTHER -> IF IsAt(v[1], s.env[name].ints)
                  THEN {s.env[name].ints[v[1] + 1]} ELSE {}

\* Reading the sample: a variable, or the place of a value in a column or a row.
Places(s, op, v) ==
    IF op = "COLFIND" THEN [r \in 1 .. s.sample.rows |-> (r - 1) * s.sample.cols + v[1]]
                      ELSE [c \in 1 .. s.sample.cols |-> v[1] * s.sample.cols + c - 1]
Observed(s, op, v) ==
    IF op = "GETLINE"
    THEN IF IsAt(v[1], s.sample.values) THEN {s.sample.values[v[1] + 1]} ELSE {}
    ELSE LET hits == {k \in DOMAIN Places(s, op, v) :
                        s.sample.values[Places(s, op, v)[k] + 1] = v[2]}
         IN  IF v[1] < 0 \/ v[1] >= (IF op = "COLFIND" THEN s.sample.cols ELSE s.sample.rows)
             THEN {} ELSE {IF hits = {} THEN -1 ELSE Min(hits) - 1}

RECURSIVE Eval(_, _)
Eval(e, s) ==
    IF e.kind = "Literal" THEN {e.value}
    ELSE IF e.kind = "Name"
    THEN IF Has(s, e.name, "Int") THEN {s.env[e.name].int} ELSE {}
    ELSE LET parts == [k \in DOMAIN e.args |-> Eval(e.args[k], s)]
             v == [k \in DOMAIN e.args |-> CHOOSE x \in parts[k] : TRUE]
         IN  IF \E k \in DOMAIN parts : parts[k] = {} THEN {}
             ELSE IF e.op \in {"VECGET", "VECLEN"} THEN Elements(s, e.op, e.name, v)
             ELSE IF e.name = "sample" THEN Observed(s, e.op, v)
             ELSE IF e.name = "model" THEN {}
             ELSE Arithmetic(e.op, v)

\* A coordinate is the number of a variable.
Coordinate(coord, s) ==
    {i \in IF Len(coord) = 1 THEN Eval(coord[1], s)
           ELSE {r * s.cols + c : r \in Eval(coord[1], s), c \in Eval(coord[2], s)} :
        0 <= i /\ i < s.size}

--------------------------------------------------------------------------
(* Terms.                                                                 *)

\* A product of variables with a weight, and a squared difference with a
\* penalty, of which the constant is left out.
Product(w, vars) == [square |-> FALSE, w |-> w, vars |-> vars, coeffs |-> <<>>, target |-> 0]
Square(p, vars, coeffs, target) ==
    [square |-> TRUE, w |-> p, vars |-> vars, coeffs |-> coeffs, target |-> target]

TermEnergy(t, x) ==
    IF t.square
    THEN LET sum == SumFunction([k \in DOMAIN t.vars |-> t.coeffs[k] * x[t.vars[k] + 1]])
         IN  t.w * ((sum - t.target) ^ 2 - t.target ^ 2)
    ELSE t.w * FoldFunction(LAMBDA i, acc : x[i + 1] * acc, 1, t.vars)
TotalEnergy(s, x) ==
    SumFunction([k \in DOMAIN s.terms |-> TermEnergy(s.terms[k], x)])

AllOnes(vars) == [k \in DOMAIN vars |-> 1]
Plus(s, terms) == [s EXCEPT !.terms = @ \o terms]

\* Powers of two that add up to at least n, and no fewer would.
Powers(n) ==
    LET bits == CHOOSE b \in 0 .. n : 2 ^ b > n /\ (b = 0 \/ 2 ^ (b - 1) <= n)
    IN  [j \in 1 .. bits |-> 2 ^ (j - 1)]
NewVars(s, n) == [j \in 1 .. n |-> s.size + j - 1]

\* An equality is about as many variables as its vectors name.
Equal(s, p, vars, coeffs, target) ==
    IF Len(vars) # Len(coeffs) \/ \E k \in DOMAIN vars : vars[k] < 0 THEN {}
    ELSE {Plus([s EXCEPT !.size = Max({@} \cup {vars[k] + 1 : k \in DOMAIN vars})],
               <<Square(p, vars, coeffs, target)>>)}

\* An inequality: new variables take up what exceeds the target.
AtLeast(s, p, vars, coeffs, k) ==
    LET excess == SumFunction(coeffs) - k
        more == Powers(IF excess < 0 THEN 0 ELSE excess)
    IN  IF Len(vars) # Len(coeffs) \/ k <= 0 \/ (\E i \in DOMAIN vars : vars[i] \notin 0 .. s.size - 1)
        THEN {}
        ELSE {Plus([s EXCEPT !.size = @ + Len(more)],
                   <<Square(p, vars \o NewVars(s, Len(more)),
                            coeffs \o [j \in DOMAIN more |-> -more[j]], k)>>)}

--------------------------------------------------------------------------
(* Calls.                                                                 *)

Values(c, s) == {v \in [DOMAIN c.exprs -> UNION {Eval(c.exprs[k], s) : k \in DOMAIN c.exprs}] :
                    \A k \in DOMAIN c.exprs : v[k] \in Eval(c.exprs[k], s)}
Vars(c, s) == {i \in [DOMAIN c.coords -> 0 .. s.size - 1] :
                    \A k \in DOMAIN c.coords : i[k] \in Coordinate(c.coords[k], s)}
AreVecs(c, s, from) == \A k \in from .. Len(c.on) : Has(s, c.on[k], "VecInt")
VecOf(c, s, k) == s.env[c.on[k]].ints

Line(c, s, n) ==
    IF c.call = "onehot_row" THEN [k \in 1 .. s.cols |-> n * s.cols + k - 1]
                             ELSE [k \in 1 .. s.rows |-> (k - 1) * s.cols + n]
Slacks(c, s, start, capacity) ==
    Bound(Bound(s, c.on[Len(c.on)],
                Vec_(VecOf(c, s, Len(c.on)) \o Powers(capacity))),
          c.on[Len(c.on) - 1],
          Vec_(VecOf(c, s, Len(c.on) - 1)
                 \o [j \in DOMAIN Powers(capacity) |-> start + j - 1]))

\* Calls that add terms: v are the values of their expressions, i the variables
\* of their coordinates.
Adds(c, s, v, i) ==
    CASE c.call \in {"add_linear", "add_quadratic"} -> {Plus(s, <<Product(v[1], i)>>)}
      [] c.call = "exclude" -> {Plus(s, <<Product(v[1], i)>>)}
      [] c.call = "implies" ->
            {Plus(s, <<Product(v[1], <<i[1]>>), Product(-v[1], i)>>)}
      [] c.call \in {"onehot_row", "onehot_col"} ->
            LET line == Line(c, s, v[1])
            IN  IF v[1] < 0 \/ v[1] >= (IF c.call = "onehot_row" THEN s.rows ELSE s.cols)
                THEN {}
                ELSE {[Plus(s, <<Square(v[2], line, AllOnes(line), 1)>>)
                        EXCEPT !.lines = @ \cup {line}]}
      [] ~AreVecs(c, s, 2) -> {}
      [] c.call = "equality" ->
            Equal(s, v[2], VecOf(c, s, 2), VecOf(c, s, 3), v[1])
      [] c.call = "atleast"  ->
            IF v[1] > Len(VecOf(c, s, 2)) THEN {}
            ELSE AtLeast(s, v[2], VecOf(c, s, 2), AllOnes(VecOf(c, s, 2)), v[1])
      [] c.call = "atleastw" ->
            AtLeast(s, v[2], VecOf(c, s, 2), VecOf(c, s, 3), v[1])
      [] c.call = "inequality" ->
            LET with == Slacks(c, s, v[1], v[2])
            IN  Equal(with, v[3], VecOf(c, with, 2), VecOf(c, with, 3), v[2])

\* A product of two variables gets a variable of its own.
Reduces(c, s, v) ==
    IF {v[1], v[2]} \subseteq 0 .. s.size - 1
    THEN {Bound([Plus(s, <<Product(v[3], <<v[1], v[2]>>), Product(-2 * v[3], <<v[1], s.size>>),
                           Product(-2 * v[3], <<v[2], s.size>>), Product(3 * v[3], <<s.size>>)>>)
                   EXCEPT !.size = @ + 1], c.names[1], Int_(s.size))}
    ELSE {}

Defines(c, s, v) ==
    [s EXCEPT !.size = v[1], !.domain = c.type,
              !.rows = IF c.is_2d THEN v[2] ELSE 0, !.cols = IF c.is_2d THEN v[3] ELSE 0]

Appends(c, s, v) ==
    CASE c.call = "output_append"  -> {[s EXCEPT !.outputs[c.on[1]] = Append(@, v[1])]}
      [] c.call = "output_setitem" ->
            IF IsAt(v[1], s.outputs[c.on[1]])
            THEN {[s EXCEPT !.outputs[c.on[1]][v[1] + 1] = v[2]]} ELSE {}
      [] ~AreVecs(c, s, 1) -> {}
      [] c.call = "vec_push" -> {Bound(s, c.on[1], Vec_(Append(VecOf(c, s, 1), v[1])))}
      [] c.call = "slack" ->
            {IF v[2] <= 0 THEN s ELSE Slacks(c, s, v[1], v[2])}

Plain(c, s, v, i) ==
    CASE c.call = "input"        -> IF c.names[1] \in DOMAIN s.env THEN {s} ELSE {}
      [] c.call = "define_model" -> {Defines(c, s, v)}
      [] c.call = "stow"         -> {Bound(s, (c.names \o c.on)[1], Int_(v[1]))}
      [] c.call = "vec_alloc"    -> {Bound(s, c.names[1], Vec_(<<>>))}
      [] c.call = "reduce"       -> Reduces(c, s, v)
      [] c.call = "output_decl"  -> {[s EXCEPT !.outputs = (c.names[1] :> <<>>) @@ @]}
      [] c.call \in {"vec_push", "slack", "output_append", "output_setitem"}
                                 -> Appends(c, s, v)
      [] c.call \in {"set_linear", "set_quadratic"} -> {}
      [] OTHER                   -> Adds(c, s, v, i)

\* A loop does its body for each value, and what it binds is bound in it only.
RECURSIVE Do(_, _), Repeat(_, _, _)
Repeat(c, bindings, S) ==
    IF bindings = <<>> THEN S
    ELSE LET inside == {[s EXCEPT !.env = Head(bindings) @@ @] : s \in S}
             after == Do(c.body, inside)
         IN  Repeat(c, Tail(bindings),
                    {Unbound(s, {c.names[k] : k \in DOMAIN c.names}) : s \in after})

Bindings(c, s, v) ==
    LET count == IF v[2] > v[1] THEN v[2] - v[1] ELSE 0
    IN  IF c.call = "range"
        THEN [k \in 1 .. count |-> c.names[1] :> Int_(v[1] + k - 1)]
        ELSE [k \in 1 .. count |-> c.names[1] :> Int_(v[1] + k - 1)
                                  @@ c.names[2] :> Int_(VecOf(c, s, 1)[v[1] + k])]
\* An iter is over a part of a vector that has an element.
LoopMeaning(c, s, v) ==
    IF c.call = "iter" /\ ~(AreVecs(c, s, 1) /\ 0 <= v[1] /\ v[1] < v[2]
                               /\ v[2] <= Len(VecOf(c, s, 1)))
    THEN {} ELSE Repeat(c, Bindings(c, s, v), {s})

\* The first arm whose condition is true is taken.
Taken(arms, s) ==
    LET known(k) == arms[k].default \/ Eval(arms[k].condition, s) # {}
        true(k) == arms[k].default \/ \E v \in Eval(arms[k].condition, s) : v # 0
        first == Min({k \in DOMAIN arms : true(k)})
    IN  IF \A k \in 1 .. first : known(k) THEN Do(arms[first].body, {s}) ELSE {}

Effect(c, s) ==
    IF c.call = "branch" THEN Taken(c.arms, s)
    ELSE UNION {IF c.call \in {"range", "iter"} THEN LoopMeaning(c, s, v)
                ELSE UNION {Plain(c, s, v, i) : i \in Vars(c, s)} : v \in Values(c, s)}
Do(calls, S) == FoldLeft(LAMBDA T, c : UNION {Effect(c, s) : s \in T}, S, calls)

\* The meaning of a client's calls for inputs and a sample.
MeaningOf(calls, env, sample) == Do(calls, {Nothing(env, sample)})
==========================================================================
