------------------------------- MODULE MCXqmx -------------------------------
(***************************************************************************)
(* Model checking of XqmxVm: the host fills the register file and runs one *)
(* short program over it, with a tracer.                                   *)
(***************************************************************************)
EXTENDS ModelParity

VARIABLE step        \* what the host has done so far

Pushes(values) == [i \in 1 .. Len(values) |-> OpImm("PUSH", values[i])]
Load(code) == [code |-> code, table |-> <<>>]

\* The models a host passes in: with coefficients, with a grid, one of spins
\* and one whose energies overflow.
Plain == [NewModel(<<"Binary">>, 2) EXCEPT
            !.coef = WithCoef(WithCoef(NewModel(<<"Binary">>, 2), <<0>>, 3),
                              <<0, 1>>, -2).coef]
Grid == [NewModel(<<"Binary">>, 4) EXCEPT !.rows = 2, !.cols = 2]
Spins == [WithCoef(NewModel(<<"Spin">>, 2), <<1>>, 1) EXCEPT !.rows = 1, !.cols = 2]
Heavy == [NewModel(<<"Binary">>, 3) EXCEPT
            !.coef = WithCoef(WithCoef(NewModel(<<"Binary">>, 3), <<0>>, MaxWord),
                              <<2>>, 1).coef]
Given == {Plain, Grid, Spins, Heavy}
GivenSample == [NewSample(<<"Binary">>, <<1, 0, 1>>) EXCEPT !.rows = 1, !.cols = 3]

\* Registers 0 to 3: a model or a sample, indices, coefficients, and a sample.
Firsts == {ModelVal(m) : m \in Given} \cup {SampleVal(GivenSample), IntVal(1)}
Indices == {VecInt(<<>>), VecInt(<<1, 0>>), VecInt(<<0, 1, 0>>), VecInt(<<0, 3>>),
            VecInt(<<-1, 2>>), VecInt(<<MaxWord>>), IntVal(0)}
Coeffs == {VecInt(<<>>), VecInt(<<1, 2>>), VecInt(<<2, 1, 1>>), VecInt(<<-1, 3>>)}
Values == Firsts \cup Indices \cup Coeffs

VecInstructions == {OpRegs("EQUALITY", 0, 1, 2), OpRegs("ATLEASTW", 0, 1, 2),
                    OpRegs("ATLEAST", 0, 1, 0)}
VecPrograms ==
    {Pushes(operands) \o <<i>> :
        i \in VecInstructions,
        operands \in {<<1>>} \cup {<<k, p>> : k \in {-1, 0, 1, 2, 3}, p \in {1, 2, MaxWord}}}

\* Everything that works on one register: on no operands, on some, and twice.
PlainInstructions ==
    {OpReg(op, 0) : op \in ModelOps \ {"EQUALITY", "ATLEASTW", "ATLEAST", "ENERGY"}}
Operands == {<<>>, <<2>>, <<-1>>} \cup {<<i, j>> : i, j \in {0, 1, 2, -1}}
              \cup {<<i, j, p>> : i, j \in {0, 1, 3, -1}, p \in {1, 2}}
              \cup {<<0, 1, MaxWord>>, <<0, 0, MinWord>>, <<1, MaxWord>>,
                    <<MaxWord, 0>>, <<MaxWord>>, <<31, 30>>}
PlainPrograms ==
    {Pushes(operands) \o <<i>> : operands \in Operands, i \in PlainInstructions}
Twice ==
    {Pushes(<<0, 1, 2>>) \o <<i>> \o Pushes(<<1, 2, 1>>) \o <<j, OpRegs("ENERGY", 0, 3, 0)>> :
        i, j \in {OpReg(op, 0) : op \in {"REDUCE", "IMPLIES", "SETQUAD", "ADDQUAD",
                                         "ADDLINE", "ONEHOTR", "RESIZE"}}}
WideGrid ==
    {Pushes(<<rows, cols>>) \o <<OpReg("RESIZE", 0)>> \o Pushes(<<at, 0>>)
        \o <<OpReg(op, 0)>> :
        rows \in {1, 3}, cols \in {1, 3, MaxWord}, at \in {0, 2, MaxWord},
        op \in {"ROWFIND", "COLFIND", "ROWSUM", "COLSUM", "ONEHOTC"}}

\* What the other handlers do to registers, for the trace.
BasePrograms ==
    {Pushes(<<2, 1>>) \o <<i>> \o <<OpReg("DROP", 1)>> :
        i \in {OpReg(op, r) : op \in (RegisterOps \cup VecOps) \ {"SLACK"}, r \in {0, 1}}
               \cup {OpRegs("SLACK", a, b, 0) : a, b \in {1, 2}}}
      \cup {Pushes(<<0, 2>>)
              \o <<opener, OpReg("LIDX", 2), OpReg("LVAL", 1), Op("NEXT"), OpImm("JUMP", 0)>> :
              opener \in {Op("RANGE"), OpReg("ITER", 1)}}

MCInit == TracedInit /\ step = 0

MCNext ==
    \/ TracedStep /\ UNCHANGED step
    \/ step = 0 /\ step' = 1 /\ \E v \in Firsts : Told(SetRegister(0, v))
    \/ /\ step = 1 /\ step' = 5
       /\ \E p \in PlainPrograms \cup WideGrid : TracedRun(Load(p))
    \/ step = 1 /\ step' = 2 /\ \E v \in Indices : Told(SetRegister(1, v))
    \/ step = 2 /\ step' = 3 /\ \E v \in Coeffs : Told(SetRegister(2, v))
    \/ step = 3 /\ step' = 5 /\ \E p \in VecPrograms \cup BasePrograms : TracedRun(Load(p))
    \/ step = 1 /\ step' = 4 /\ Told(SetRegister(3, SampleVal(GivenSample)))
    \/ step = 4 /\ step' = 5 /\ \E p \in Twice : TracedRun(Load(p))
    \/ step = 5 /\ status # "running" /\ step' = 6 /\ Told(Reset)

MCSpec == MCInit /\ [][MCNext]_<<vmVars, line, known, step>>
==========================================================================
