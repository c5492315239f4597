--------------------------- MODULE MCCompiledRun ---------------------------
(***************************************************************************)
(* Model checking of CompiledRun: clients that declare a problem out of    *)
(* fragments like those of src/examples, in every order.                   *)
(***************************************************************************)
EXTENDS CompiledRun

Registers == 0 .. 12 \cup 100 .. 112

\* Expressions.
L(v) == Literal(v)
N(name) == [kind |-> "Name", name |-> name]
BinOp(op, a, b) == [kind |-> "BinOp", op |-> op, args |-> <<a, b>>, name |-> ""]
Expr(op, args) == [kind |-> "Expr", op |-> op, args |-> args, name |-> ""]
Plus1(e) == BinOp("ADD", e, L(1))
Minus(a, b) == BinOp("SUB", a, b)
Get(vec, i) == [Expr("VECGET", <<i>>) EXCEPT !.name = vec]
VecLen(vec) == [Expr("VECLEN", <<>>) EXCEPT !.name = vec]
GetLine(i) == [kind |-> "GetLineExpr", op |-> "GETLINE", args |-> <<i>>, name |-> "sample"]
ColFind(col) == [kind |-> "ColFindExpr", op |-> "COLFIND", args |-> <<col, L(1)>>, name |-> "sample"]
RowFind(row) == [Expr("ROWFIND", <<row, L(1)>>) EXCEPT !.name = "sample"]
Coefficient(i) == [Expr("GETLINE", <<i>>) EXCEPT !.name = "model"]

\* Calls.
Call(call) == [call |-> call, on |-> <<>>, names |-> <<>>, coords |-> <<>>, exprs |-> <<>>,
               body |-> <<>>, arms |-> <<>>, type |-> "", is_2d |-> FALSE]
On(call, on, exprs) == [Call(call) EXCEPT !.on = on, !.exprs = exprs]
At_(call, coords, exprs) == [On(call, <<"model">>, exprs) EXCEPT !.coords = coords]
Input(name, type) == [Call("input") EXCEPT !.names = <<name>>, !.type = type]
Define(domain, size) == [Call("define_model") EXCEPT !.exprs = <<size>>, !.type = domain]
DefineGrid(domain, size, rows, cols) ==
    [Define(domain, size) EXCEPT !.exprs = <<size, rows, cols>>, !.is_2d = TRUE]
Loop(name, from, to, body) ==
    [Call("range") EXCEPT !.names = <<name>>, !.exprs = <<from, to>>, !.body = body]
Iter(vec, idx, val, from, to, body) ==
    [On("iter", <<vec>>, <<from, to>>) EXCEPT !.names = <<idx, val>>, !.body = body]
StowNew(name, e) == [Call("stow") EXCEPT !.names = <<name>>, !.exprs = <<e>>]
StowAgain(name, e) == On("stow", <<name>>, <<e>>)
Vec(name) == [Call("vec_alloc") EXCEPT !.names = <<name>>]
VPush(vec, e) == On("vec_push", <<vec>>, <<e>>)
AddLinear(i, w) == At_("add_linear", <<i>>, <<w>>)
AddQuadratic(i, j, w) == At_("add_quadratic", <<i, j>>, <<w>>)
Pair(call, i, j, p) == At_(call, <<i, j>>, <<L(p)>>)
OneHot(call, i, p) == On(call, <<"model">>, <<i, L(p)>>)
Reduce(name, a, b, p) == [On("reduce", <<"model">>, <<a, b, L(p)>>) EXCEPT !.names = <<name>>]
Arm(condition, body) == [default |-> FALSE, condition |-> condition, body |-> body]
Otherwise(body) == [default |-> TRUE, condition |-> L(1), body |-> body]
Branch(arms) == [Call("branch") EXCEPT !.arms = arms]
Output(name, type) == [Call("output_decl") EXCEPT !.names = <<name>>, !.type = type]
Append_(out, e) == On("output_append", <<out>>, <<e>>)
SetItem(out, i, e) == On("output_setitem", <<out>>, <<i, e>>)

--------------------------------------------------------------------------
(* Objectives, on variables in a row.                                     *)

n == N("n")
Objectives == {
    <<Loop("i", L(0), n, <<AddLinear(<<N("i")>>, Minus(L(1), N("i")))>>)>>,
    <<Loop("i", L(0), Minus(n, L(1)),
        <<Loop("j", Plus1(N("i")), n,
            <<StowNew("w", Get("d", Expr("IDXTRIU", <<N("i"), N("j")>>))),
              AddQuadratic(<<N("i")>>, <<N("j")>>, N("w"))>>)>>)>>,
    <<Iter("d", "k", "v", L(0), n, <<AddLinear(<<N("k")>>, Expr("NEG", <<N("v")>>))>>)>>,
    <<StowNew("sum", L(0)),
      Iter("d", "k", "v", L(1), VecLen("d"),
           <<StowAgain("sum", BinOp("ADD", N("sum"), N("v")))>>),
      AddLinear(<<L(1)>>, N("sum"))>>,
    <<Loop("i", L(0), n,
        <<Branch(<<Arm(Expr("GT", <<Get("d", N("i")), L(2)>>), <<AddLinear(<<N("i")>>, L(5))>>),
                   Arm(Expr("GT", <<Get("d", N("i")), L(0)>>),
                       <<Branch(<<Arm(Expr("EQ", <<N("i"), L(0)>>), <<AddLinear(<<N("i")>>, L(7))>>),
                                  Otherwise(<<>>)>>)>>),
                   Otherwise(<<AddLinear(<<N("i")>>, L(-3))>>)>>)>>)>>,
    <<Reduce("aux", L(0), Minus(n, L(1)), 2), AddLinear(<<N("aux")>>, L(3))>>,
    <<At_("set_linear", <<<<L(0)>>>>, <<L(4)>>),
      At_("set_quadratic", <<<<L(0)>>, <<L(1)>>>>, <<L(2)>>),
      AddLinear(<<L(1)>>, Coefficient(L(0)))>>}

\* Constraints on variables in a row.
Vectors == <<Vec("x"), Vec("c"),
             Loop("q", L(0), n, <<VPush("x", N("q")), VPush("c", Get("d", N("q")))>>)>>
Vector(call, exprs) == On(call, <<"model", "x", "c">>, exprs)
Constraints == {
    <<Pair("exclude", <<L(0)>>, <<Minus(n, L(1))>>, 3)>>,
    <<Loop("p", L(1), n, <<Pair("implies", <<Minus(N("p"), L(1))>>, <<N("p")>>, 2)>>)>>,
    <<Loop("p", L(1), n, <<AddLinear(<<N("p")>>, L(1)),
                           Pair("exclude", <<L(0)>>, <<N("p")>>, 2)>>)>>,
    Vectors \o <<Vector("equality", <<L(2), L(1)>>)>>,
    Vectors \o <<On("slack", <<"x", "c">>, <<n, L(2)>>), Vector("equality", <<L(2), L(1)>>)>>,
    Vectors \o <<Vector("inequality", <<n, L(3), L(1)>>)>>,
    Vectors \o <<On("atleast", <<"model", "x">>, <<L(1), L(2)>>)>>,
    Vectors \o <<Vector("atleastw", <<L(2), L(1)>>)>>,
    Vectors \o <<Vector("equality", <<L(2), L(1)>>), VPush("x", L(0)), VPush("c", L(1)),
                 Vector("equality", <<L(1), L(1)>>)>>}

\* The same on a grid.
Cell(r, c) == <<r, c>>
GridObjectives == {
    <<Loop("i", L(0), n,
        <<Loop("j", Plus1(N("i")), n,
            <<Loop("p", L(0), n,
                <<AddQuadratic(Cell(N("i"), N("p")),
                               Cell(N("j"), BinOp("MOD", Plus1(N("p")), n)),
                               Get("d", Expr("IDXTRIU", <<N("i"), N("j")>>)))>>)>>)>>)>>,
    <<AddLinear(Cell(L(0), Minus(n, L(1))), L(2)),
      At_("set_linear", <<Cell(L(1), L(0))>>, <<L(1)>>)>>,
    <<AddLinear(Cell(Minus(n, L(1)), L(0)), Expr("SQR", <<n>>))>>}
GridConstraints == {
    <<Loop("a", L(0), n, <<OneHot("onehot_row", N("a"), 4)>>),
      Loop("b", L(0), n, <<OneHot("onehot_col", N("b"), 4)>>)>>,
    <<Loop("b", L(0), n, <<OneHot("onehot_col", N("b"), 3)>>)>>,
    <<OneHot("onehot_row", L(1), 2),
      Pair("exclude", Cell(L(0), L(0)), Cell(L(1), L(1)), 3),
      Pair("implies", Cell(L(0), L(0)), Cell(L(0), L(1)), 3)>>}

--------------------------------------------------------------------------
(* Outputs.                                                               *)

Sel == Output("sel", "Vec")
Outputs == {
    <<>>,
    <<Sel, Loop("o", L(0), n, <<Append_("sel", GetLine(N("o")))>>)>>,
    <<Sel, Loop("o", L(1), n, <<Append_("sel", GetLine(N("o"))), Append_("sel", L(9))>>),
      Append_("sel", GetLine(L(0)))>>,
    <<Sel, Append_("sel", GetLine(L(1))), Output("last", "Vec"),
      Loop("o", Minus(n, L(1)), n, <<Append_("last", GetLine(N("o")))>>)>>,
    \* Of a form the decoder is not made for.
    <<Sel, Output("last", "Vec"), Append_("sel", GetLine(L(0)))>>,
    <<Sel, Loop("o", L(0), n, <<Loop("u", L(0), n, <<Append_("sel", GetLine(N("o")))>>)>>)>>,
    <<Sel, Loop("o", L(1), n, <<Append_("sel", GetLine(Minus(N("o"), L(1))))>>)>>,
    <<Sel, Append_("sel", L(0)), SetItem("sel", L(0), GetLine(L(0)))>>,
    <<Sel, Iter("d", "o", "u", L(0), n, <<Append_("sel", N("u"))>>)>>,
    <<Output("sel", "Int")>>}
GridOutputs == {
    <<>>,
    <<Sel, Loop("o", L(0), n, <<Append_("sel", ColFind(N("o")))>>)>>,
    <<Sel, Append_("sel", ColFind(L(0)))>>,
    <<Sel, Append_("sel", RowFind(L(0)))>>}

--------------------------------------------------------------------------
(* Scripts.                                                               *)

Inputs == <<Input("n", "Int"), Input("d", "Vec")>>
Data(size) == <<IntVal(size), VecInt(IF size = 2 THEN <<1, 3, 2>> ELSE <<3, 1, 2>>)>>
Row(domain) == Inputs \o <<Define(domain, n)>>
Square_(domain) == Inputs \o <<DefineGrid(domain, BinOp("MUL", n, n), n, n)>>
With(calls, size) == [calls |-> calls, data |-> Data(size)]

Short == <<Loop("i", L(0), n, <<AddLinear(<<N("i")>>, N("i"))>>)>>
Late == <<StowNew("late", Plus1(n))>>

Encoded ==
    {With(Row("Binary") \o o \o c, 3) : o \in Objectives, c \in Constraints}
      \cup {With(Row("Binary") \o c \o o, 2) : o \in Objectives, c \in Constraints}
      \cup {With(Row("Spin") \o o, 3) : o \in Objectives}
      \cup {With(Square_("Binary") \o o \o c, 2) : o \in GridObjectives, c \in GridConstraints}
      \cup {With(Square_("Binary") \o c \o o, 2) : o \in GridObjectives, c \in GridConstraints}

Sampled ==
    {With(Row(domain) \o Short \o o, 2) : domain \in {"Binary", "Spin"}, o \in Outputs}
      \cup {With(Row("Binary") \o o \o <<Sel>>, 2) : o \in Objectives}
      \cup {With(Square_("Binary") \o c \o o, 2) : c \in GridConstraints, o \in GridOutputs}
      \cup {With(Inputs \o <<DefineGrid("Binary", L(2), L(1), L(2)),
                            Loop("b", L(0), L(2), <<OneHot("onehot_col", N("b"), 3)>>)>>
                   \o <<Sel, Append_("sel", ColFind(L(1)))>>, 1)}

\* Declared out of order, with calls that fail, or with too many registers.
Odd == {
    With(<<Define("Binary", L(2))>> \o Inputs \o Short, 2),
    With(Row("Discrete"), 2),
    With(Inputs \o Short, 2),
    With(Inputs \o Late, 2),
    With(Row("Binary") \o <<Branch(<<Otherwise(<<>>)>>)>>, 2),
    With(Row("Binary") \o <<Branch(<<Arm(n, <<Input("m", "Int")>>), Otherwise(Late)>>)>>, 2),
    With(Row("Binary") \o <<Output("sel", "Int"), Append_("sel", L(1))>>, 2),
    With(Row("Binary") \o <<Sel>> \o Short, 2),
    With(Row("Binary") \o [k \in 1 .. 12 |-> Vec("x")], 2)}

AllScripts == Encoded \cup Sampled \cup Odd
==========================================================================
