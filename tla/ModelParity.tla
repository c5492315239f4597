----------------------------- MODULE ModelParity -----------------------------
(***************************************************************************)
(* The model instructions of the two implementations, one instruction at a *)
(* time: whenever XqmxVm executes one, PyXqmx is asked what its handler    *)
(* makes of the same stack and registers, which src/xquad/vm.py converts.  *)
(***************************************************************************)
EXTENDS Tracer

Px == INSTANCE PyXqmx

--------------------------------------------------------------------------
\* _model_ffi_to_xqmx and _sample_ffi_to_xqmx: a sample's zeros have no entry.
AsXqmx(v) ==
    IF IsModel(v)
    THEN [Px!XqmxOf("model", v.model.domain, v.model.size) EXCEPT
            !.rows = v.model.rows, !.cols = v.model.cols, !.coef = v.model.coef]
    ELSE LET values == v.sample.values
             used == {<<k - 1>> : k \in {l \in DOMAIN values : values[l] # 0}}
         IN  [Px!XqmxOf("sample", v.sample.domain, Len(values)) EXCEPT
                !.rows = v.sample.rows, !.cols = v.sample.cols,
                !.coef = [key \in used |-> values[key[1] + 1]]]

\* The handler of the current instruction, dispatched on its operation: the
\* registers are looked at first.
PyHandler(s) ==
    LET x == AsXqmx(regs[Current.r1])
        ints(r) == regs[r].ints
        i == Operand(2)
        j == Operand(1)
        byRow == IsRowOp(Current.op)
    IN  CASE Current.op = "GETLINE" -> Px!GetPy(s, x, <<j>>, 1)
          [] Current.op = "SETLINE" -> Px!SetPy(s, x, <<i>>, j, 2)
          [] Current.op = "ADDLINE" -> Px!Added(Rest(2), x, <<Px!Plus(<<i>>, j)>>)
          [] Current.op = "GETQUAD" -> Px!GetPy(s, x, Px!Quadratic(i, j), 2)
          [] Current.op = "SETQUAD" ->
                Px!SetPy(s, x, Px!Quadratic(Operand(3), i), j, 3)
          [] Current.op = "ADDQUAD" ->
                Px!Added(Rest(3), x, <<Px!Plus(Px!Quadratic(Operand(3), i), j)>>)
          [] Current.op = "RESIZE"                -> Px!ResizePy(s, x)
          [] Current.op \in {"ROWFIND", "COLFIND"} -> Px!FindPy(s, x, byRow)
          [] Current.op \in {"ROWSUM", "COLSUM"}   -> Px!SumPy(s, x, byRow)
          [] Current.op \in {"ONEHOTR", "ONEHOTC"} -> Px!OneHotPy(s, x, byRow)
          [] Current.op = "EXCLUDE" -> Px!ExcludePy(s, x)
          [] Current.op = "IMPLIES" -> Px!ImpliesPy(s, x)
          [] Current.op = "EQUALITY" ->
                Px!EqualityPy(s, x, ints(Current.r2), ints(Current.r3))
          [] Current.op = "ATLEAST" -> Px!AtLeastPy(s, x, ints(Current.r2))
          [] Current.op = "ATLEASTW" ->
                Px!AtLeastWPy(s, x, ints(Current.r2), ints(Current.r3))
          [] Current.op = "REDUCE" -> Px!ReducePy(s, x)
          [] Current.op = "ENERGY" -> Px!EnergyPy(s, x, AsXqmx(regs[Current.r2]))

VectorsOf(i) ==
    CASE i.op \in {"EQUALITY", "ATLEASTW"} -> {i.r2, i.r3}
      [] i.op = "ATLEAST"                  -> {i.r2}
      [] OTHER                             -> {}
WellTyped ==
    /\ IsGrid(regs[Current.r1])
    /\ Current.op = "ENERGY" => IsGrid(regs[Current.r2])
    /\ \A r \in VectorsOf(Current) : IsVecInt(regs[r])

PyResult ==
    IF Len(stack) < Needs(Current.op) THEN Px!Raised
    ELSE IF Current.op \in ModelAllocators \cup SampleAllocators
    THEN Px!AllocatePy(Current.op, stack)
    ELSE IF WellTyped THEN Px!Checked(PyHandler(stack)) ELSE Px!Raised

--------------------------------------------------------------------------
(* Where the two are known to part.                                       *)

Pair == {Operand(3), Operand(2)}
Outside(indices, size) == \E i \in indices : ~InBounds(i, size)
Size == GridSize(regs[Current.r1])
Line == IF Current.op \in {"ROWSUM", "COLSUM"} THEN Operand(1) ELSE Operand(2)

\* A row or column outside the grid, or a grid that goes beyond the variables:
\* Python raises, the Rust VM reads zeros and writes coefficients.
OffGrid ==
    LET grid == GridOf(regs[Current.r1]) IN
    \/ Line >= (IF IsRowOp(Current.op) THEN grid.rows ELSE grid.cols)
    \/ grid.rows * grid.cols = 0
    \/ Current.op \in {"ONEHOTR", "ONEHOTC"} /\ grid.rows * grid.cols > Size

Allocates == Current.op \in ModelAllocators \cup SampleAllocators
KnownDifference ==
    \/ status' = "Panic"                       \* only the Rust VM overflows
    \/ /\ Len(stack) >= Needs(Current.op)
       /\ Allocates \/ WellTyped
       /\ CASE Allocates ->                     \* the Rust VM makes an empty one
                Operand(Needs(Current.op)) < 0
            [] Current.op = "GETLINE" ->        \* Python finds a zero
                Outside({Operand(1)}, Size)
            [] Current.op = "GETQUAD" ->        \* and asks for no mode
                Outside({Operand(2), Operand(1)}, Size) \/ ~IsModel(regs[Current.r1])
            [] Current.op \in {"SETQUAD", "ADDQUAD"} ->
                Outside(Pair, Size) \/ ~IsModel(regs[Current.r1])
            [] Current.op \in {"EXCLUDE", "IMPLIES"} -> Outside(Pair, Size)
            [] Current.op = "RESIZE" ->         \* Python takes any dimensions
                Operand(2) <= 0 \/ Operand(1) <= 0
            [] Current.op \in {"ROWFIND", "COLFIND", "ROWSUM", "COLSUM",
                               "ONEHOTR", "ONEHOTC"} -> OffGrid
            [] Current.op \in {"ATLEAST", "ATLEASTW"} ->
                \* Python looks at the indices when the slack variables are there
                \E k \in DOMAIN regs[Current.r2].ints :
                    regs[Current.r2].ints[k] >= Size
            [] Current.op = "ENERGY" ->
                \* the Rust VM wraps the sum and wants every index in range
                LET m == regs[Current.r1].model
                    s == regs[Current.r2].sample
                IN  IsModel(regs[Current.r1]) /\ ~IsModel(regs[Current.r2])
                      /\ Len(s.values) = m.size
                      /\ (~InRange(m) \/ Overflows(Hamiltonian(m, s.values)))
            [] OTHER -> FALSE

\* The Rust VM executes a model instruction.
ModelInstruction ==
    /\ status = "running" /\ skipDepth = 0 /\ steps' = steps + 1
    /\ pc <= Len(prog.code) /\ Current.op \in ModelOps

SameResult ==
    IF PyResult.raised THEN status' \notin {"running", "ok"}
    ELSE /\ status' = "running"
         /\ stack' = PyResult.stack
         /\ AsXqmx(regs'[Current.r1]) = PyResult.xqmx

\* On models and samples as the Rust VM has them, both implementations of every
\* model instruction fail or both leave the same stack and the same object,
\* outside the differences listed.
ModelInstructionsAgree ==
    [][(ModelInstruction /\ ~KnownDifference) => SameResult]_vmVars
=============================================================================
