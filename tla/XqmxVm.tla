------------------------------- MODULE XqmxVm -------------------------------
(***************************************************************************)
(* The handlers of src/xqvm/src/vm.rs that look inside models and samples: *)
(* the allocators, coefficient access, the grid, the constraint expansions *)
(* and ENERGY, as further steps of the VM of XqVm.                         *)
(*                                                                         *)
(* A model or sample made by a program is a record of Xqmx; the constant   *)
(* Models of XqVm is the set of those a host passes in.                    *)
(***************************************************************************)
EXTENDS XqVm, Xqmx

ModelOps == ModelAllocators \cup SampleAllocators \cup CoefficientOps
              \cup GridOps \cup ConstraintOps \cup {"ENERGY"}

SampleVal(s) == [tag |-> "Sample", sample |-> s]

--------------------------------------------------------------------------
(* Building blocks.                                                       *)

IsModel(v) == v.tag = "Model"
IsGrid(v) == v.tag \in {"Model", "Sample"}
IsVecInt(v) == v.tag = "VecInt"

\* XqmxGridRef: what models and samples have in common.
GridOf(v) == IF IsModel(v) THEN v.model ELSE v.sample
GridSize(v) == IF IsModel(v) THEN v.model.size ELSE Len(v.sample.values)
LinearAt(v, i) ==
    IF IsModel(v) THEN Coef(v.model, LinearKey(i))
    ELSE IF i < Len(v.sample.values) THEN v.sample.values[i + 1] ELSE 0

\* XqmxGridRefMut::linear_set.
WithLinear(v, i, x) ==
    IF IsModel(v) THEN ModelVal(WithCoef(v.model, LinearKey(i), x))
                  ELSE [v EXCEPT !.sample.values[i + 1] = x]

Stow(r, v) == regs' = [regs EXCEPT ![r] = v]
FaultKeepingRegs(error) == Fault(error) /\ UNCHANGED regs

\* A size popped as a signed word; a negative one counts as none.
SizeOf(x) == IF x < 0 THEN 0 ELSE x

\* Terms added to the model in register r, which was m before: they are all
\* added, or one of them panics.
Add(r, m, terms) ==
    LET result == Expand(m, terms, OverflowChecks)
    IN  /\ Stow(r, ModelVal(result.model))
        /\ IF result.panic THEN Fault("Panic") ELSE Continue

\* indices_to_usize: the variables 0 .. size - 1.
AllIndices(indices, size) ==
    \A k \in DOMAIN indices : InBounds(indices[k], size)

\* iter().sum() of unchecked additions.
SumOverflows(s) ==
    \E n \in 1 .. Len(s) : Overflows(SumFunction(SubSeq(s, 1, n)))

--------------------------------------------------------------------------
(* The handlers.                                                          *)

\* None of them looks at an operand before it pops it.
ModelUnderflow ==
    /\ status = "running" /\ skipDepth = 0
    /\ steps < stepLimit
    /\ pc <= Len(prog.code)
    /\ Current.op \in ModelOps
    /\ Len(stack) < Needs(Current.op)
    /\ steps' = steps + 1
    /\ stack' = <<>>
    /\ Fault("StackUnderflow")
    /\ UNCHANGED <<hostVars, regs, loopStack, outputs>>

ExecAllocate ==
    /\ Executing({"BQMX", "SQMX", "BSMX", "SSMX"})
    /\ stack' = Rest(1)
    /\ LET size == SizeOf(Operand(1))
           domain == IF Current.op \in {"BQMX", "BSMX"} THEN "Binary" ELSE "Spin"
           value == IF domain = "Binary" THEN 0 ELSE -1
       IN  Stow(Current.r1,
                IF Current.op \in ModelAllocators
                THEN ModelVal(NewModel(<<domain>>, size))
                ELSE SampleVal(NewSample(<<domain>>, [i \in 1 .. size |-> value])))
    /\ Continue
    /\ UNCHANGED <<loopStack, outputs>>

ExecAllocateDiscrete ==
    /\ Executing({"XQMX", "XSMX"})
    /\ stack' = Rest(2)
    /\ LET k == Operand(1)
           size == SizeOf(Operand(2))
           domain == <<"Discrete", k>>
       IN  IF k < 2
           THEN FaultKeepingRegs("InvalidDiscreteK")
           ELSE /\ Stow(Current.r1,
                        IF Current.op = "XQMX"
                        THEN ModelVal(NewModel(domain, size))
                        ELSE SampleVal(NewSample(domain, [i \in 1 .. size |-> 0])))
                /\ Continue
    /\ UNCHANGED <<loopStack, outputs>>

\* GETLINE takes a model or a sample and an index inside it.
ExecGetLine ==
    /\ Executing({"GETLINE"})
    /\ LET v == regs[Current.r1]
           i == Operand(1)
       IN  IF ~IsGrid(v)
           THEN stack' = Rest(1) /\ Fault("RegisterType")
           ELSE IF ~InBounds(i, GridSize(v))
           THEN stack' = Rest(1) /\ Fault("IndexOutOfBounds")
           ELSE stack' = Append(Rest(1), LinearAt(v, i)) /\ Continue
    /\ UNCHANGED <<regs, loopStack, outputs>>

ExecSetLine ==
    /\ Executing({"SETLINE", "ADDLINE"})
    /\ stack' = Rest(2)
    /\ LET v == regs[Current.r1]
           i == Operand(2)
           x == IF Current.op = "SETLINE" THEN Operand(1)
                ELSE LinearAt(v, i) + Operand(1)
       IN  IF ~IsGrid(v)
           THEN FaultKeepingRegs("RegisterType")
           ELSE IF ~InBounds(i, GridSize(v))
           THEN FaultKeepingRegs("IndexOutOfBounds")
           ELSE IF Overflows(x)
           THEN FaultKeepingRegs("Panic")
           ELSE Stow(Current.r1, WithLinear(v, i, Wrap(x))) /\ Continue
    /\ UNCHANGED <<loopStack, outputs>>

\* The quadratic handlers want a model and indices that are not negative; that
\* the indices are inside the model they do not ask.
ExecGetQuad ==
    /\ Executing({"GETQUAD"})
    /\ LET v == regs[Current.r1]
           i == Operand(2)
           j == Operand(1)
       IN  IF ~IsModel(v)
           THEN stack' = Rest(2) /\ Fault("RegisterType")
           ELSE IF i < 0 \/ j < 0
           THEN stack' = Rest(2) /\ Fault("IndexOutOfBounds")
           ELSE stack' = Append(Rest(2), Coef(v.model, QuadKey(i, j))) /\ Continue
    /\ UNCHANGED <<regs, loopStack, outputs>>

ExecSetQuad ==
    /\ Executing({"SETQUAD"})
    /\ stack' = Rest(3)
    /\ LET v == regs[Current.r1]
           i == Operand(3)
           j == Operand(2)
       IN  IF ~IsModel(v)
           THEN FaultKeepingRegs("RegisterType")
           ELSE IF i < 0 \/ j < 0
           THEN FaultKeepingRegs("IndexOutOfBounds")
           ELSE /\ Stow(Current.r1,
                        ModelVal(WithCoef(v.model, QuadKey(i, j), Operand(1))))
                /\ Continue
    /\ UNCHANGED <<loopStack, outputs>>

PairTerms(op, i, j, x) ==
    CASE op = "ADDQUAD" -> <<QuadTerm(i, j, <<x>>)>>
      [] op = "EXCLUDE" -> ExcludeTerms(i, j, x)
      [] OTHER          -> ImpliesTerms(i, j, x)

ExecAddPair ==
    /\ Executing({"ADDQUAD", "EXCLUDE", "IMPLIES"})
    /\ stack' = Rest(3)
    /\ LET v == regs[Current.r1]
           i == Operand(3)
           j == Operand(2)
       IN  IF ~IsModel(v)
           THEN FaultKeepingRegs("RegisterType")
           ELSE IF i < 0 \/ j < 0
           THEN FaultKeepingRegs("IndexOutOfBounds")
           ELSE Add(Current.r1, v.model, PairTerms(Current.op, i, j, Operand(1)))
    /\ UNCHANGED <<loopStack, outputs>>

--------------------------------------------------------------------------
\* RESIZE looks at the dimensions before it looks at the register, and not at
\* the number of variables.
ExecResize ==
    /\ Executing({"RESIZE"})
    /\ stack' = Rest(2)
    /\ LET v == regs[Current.r1]
           rows == Operand(2)
           cols == Operand(1)
       IN  IF rows <= 0 \/ cols <= 0
           THEN FaultKeepingRegs("InvalidGridDimensions")
           ELSE IF ~IsGrid(v)
           THEN FaultKeepingRegs("RegisterType")
           ELSE /\ Stow(Current.r1,
                        IF IsModel(v)
                        THEN ModelVal([v.model EXCEPT !.rows = rows, !.cols = cols])
                        ELSE SampleVal([v.sample EXCEPT !.rows = rows,
                                                        !.cols = cols]))
                /\ Continue
    /\ UNCHANGED <<loopStack, outputs>>

\* The cells of the row or the column an instruction is about.
IsRowOp(op) == op \in {"ROWFIND", "ROWSUM", "ONEHOTR"}
Cells(op, grid, n) == IF IsRowOp(op) THEN RowCells(grid, n) ELSE ColCells(grid, n)

\* ROWFIND, COLFIND: the first cell that holds the value, or -1.  The search
\* stops at an address that overflows.
ExecFind ==
    /\ Executing({"ROWFIND", "COLFIND"})
    /\ LET v == regs[Current.r1]
           cells == Cells(Current.op, GridOf(v), Operand(2))
           lost(k) == OverflowChecks /\ AddressOverflows(cells[k])
           stops == {k \in DOMAIN cells :
                        lost(k) \/ LinearAt(v, Address(cells[k])) = Operand(1)}
           first == CHOOSE k \in stops : \A l \in stops : k <= l
       IN  IF ~IsGrid(v)
           THEN stack' = Rest(2) /\ Fault("RegisterType")
           ELSE IF Operand(2) < 0
           THEN stack' = Rest(2) /\ Fault("IndexOutOfBounds")
           ELSE IF stops = {}
           THEN stack' = Append(Rest(2), -1) /\ Continue
           ELSE IF lost(first)
           THEN stack' = Rest(2) /\ Fault("Panic")
           ELSE stack' = Append(Rest(2), first - 1) /\ Continue
    /\ UNCHANGED <<regs, loopStack, outputs>>

ExecSum ==
    /\ Executing({"ROWSUM", "COLSUM"})
    /\ LET v == regs[Current.r1]
           cells == Cells(Current.op, GridOf(v), Operand(1))
           values == [k \in DOMAIN cells |-> LinearAt(v, Address(cells[k]))]
           lost == OverflowChecks /\ \E k \in DOMAIN cells : AddressOverflows(cells[k])
       IN  IF ~IsGrid(v)
           THEN stack' = Rest(1) /\ Fault("RegisterType")
           ELSE IF Operand(1) < 0
           THEN stack' = Rest(1) /\ Fault("IndexOutOfBounds")
           ELSE IF lost \/ SumOverflows(values)
           THEN stack' = Rest(1) /\ Fault("Panic")
           ELSE stack' = Append(Rest(1), Wrap(SumFunction(values))) /\ Continue
    /\ UNCHANGED <<regs, loopStack, outputs>>

ExecOneHot ==
    /\ Executing({"ONEHOTR", "ONEHOTC"})
    /\ stack' = Rest(2)
    /\ LET v == regs[Current.r1] IN
       IF ~IsModel(v)
       THEN FaultKeepingRegs("RegisterType")
       ELSE IF Operand(2) < 0
       THEN FaultKeepingRegs("IndexOutOfBounds")
       ELSE Add(Current.r1, v.model,
                OneHotTerms(Cells(Current.op, v.model, Operand(2)), Operand(1)))
    /\ UNCHANGED <<loopStack, outputs>>

--------------------------------------------------------------------------
\* EQUALITY makes the model as large as its largest index asks for.
GrownFor(m, indices) ==
    LET largest == CHOOSE k \in DOMAIN indices :
                       \A l \in DOMAIN indices : indices[l] <= indices[k]
        needed == Wrap(indices[largest] + 1)
    IN  IF indices # <<>> /\ needed > m.size THEN [m EXCEPT !.size = needed]
                                              ELSE m

\* It grows the model, then looks at the indices, and then adds the terms.
ExecEquality ==
    /\ Executing({"EQUALITY"})
    /\ stack' = Rest(2)
    /\ LET v == regs[Current.r1]
           indices == regs[Current.r2].ints
           coeffs == regs[Current.r3].ints
           grown == GrownFor(v.model, indices)
       IN  IF ~IsVecInt(regs[Current.r2]) \/ ~IsVecInt(regs[Current.r3])
           THEN FaultKeepingRegs("RegisterType")
           ELSE IF Len(indices) # Len(coeffs)
           THEN FaultKeepingRegs("VecLengthMismatch")
           ELSE IF ~IsModel(v)
           THEN FaultKeepingRegs("RegisterType")
           ELSE IF \E k \in DOMAIN indices : Overflows(indices[k] + 1)
           THEN FaultKeepingRegs("Panic")
           ELSE IF ~AllIndices(indices, grown.size)
           THEN Stow(Current.r1, ModelVal(grown)) /\ Fault("IndexOutOfBounds")
           ELSE Add(Current.r1, grown,
                    EqualityTerms(indices, coeffs, Operand(2), Operand(1)))
    /\ UNCHANGED <<loopStack, outputs>>

\* Mutant: the model grows before the indices are looked at.
AddAtLeastGrown(r, m, indices, weights, k, penalty) ==
    LET excess == Wrap(SumFunction(weights) - k)
        n == IF excess <= 0 THEN 0 ELSE SlackBits(excess)
        grown == [m EXCEPT !.size = @ + n]
    IN  IF ~AllIndices(indices, m.size)
        THEN Stow(r, ModelVal(grown)) /\ Fault("IndexOutOfBounds")
        ELSE Add(r, grown,
                 EqualityTerms(indices \o SlackIndices(m.size, n),
                               weights \o SlackCoeffs(n), k, penalty))

\* What ATLEAST and ATLEASTW do once they know the weights: an equality with
\* the target, in which new variables take up what exceeds it.
AddAtLeast(r, m, indices, weights, k, penalty) ==
    LET excess == Wrap(SumFunction(weights) - k)
        n == IF excess <= 0 THEN 0 ELSE SlackBits(excess)
    IN  IF ~AllIndices(indices, m.size)
        THEN FaultKeepingRegs("IndexOutOfBounds")
        ELSE Add(r, [m EXCEPT !.size = @ + n],
                 EqualityTerms(indices \o SlackIndices(m.size, n),
                               weights \o SlackCoeffs(n), k, penalty))

ExecAtLeast ==
    /\ Executing({"ATLEAST"})
    /\ stack' = Rest(2)
    /\ LET v == regs[Current.r1]
           indices == regs[Current.r2].ints
           k == Operand(2)
       IN  IF ~IsVecInt(regs[Current.r2])
           THEN FaultKeepingRegs("RegisterType")
           ELSE IF k <= 0 \/ k > Len(indices)
           THEN FaultKeepingRegs("IndexOutOfBounds")
           ELSE IF ~IsModel(v)
           THEN FaultKeepingRegs("RegisterType")
           ELSE AddAtLeast(Current.r1, v.model, indices,
                           [i \in DOMAIN indices |-> 1], k, Operand(1))
    /\ UNCHANGED <<loopStack, outputs>>

ExecAtLeastW ==
    /\ Executing({"ATLEASTW"})
    /\ stack' = Rest(2)
    /\ LET v == regs[Current.r1]
           indices == regs[Current.r2].ints
           weights == regs[Current.r3].ints
           k == Operand(2)
       IN  IF ~IsVecInt(regs[Current.r2]) \/ ~IsVecInt(regs[Current.r3])
           THEN FaultKeepingRegs("RegisterType")
           ELSE IF Len(indices) # Len(weights)
           THEN FaultKeepingRegs("VecLengthMismatch")
           ELSE IF k <= 0
           THEN FaultKeepingRegs("IndexOutOfBounds")
           ELSE IF ~IsModel(v)
           THEN FaultKeepingRegs("RegisterType")
           ELSE IF SumOverflows(weights) \/ Overflows(SumFunction(weights) - k)
           THEN FaultKeepingRegs("Panic")
           ELSE AddAtLeast(Current.r1, v.model, indices, weights, k, Operand(1))
    /\ UNCHANGED <<loopStack, outputs>>

\* REDUCE appends one variable and pushes its index.
ExecReduce ==
    /\ Executing({"REDUCE"})
    /\ LET v == regs[Current.r1]
           a == Operand(3)
           b == Operand(2)
           w == v.model.size
           result == Expand([v.model EXCEPT !.size = @ + 1],
                            ReduceTerms(a, b, w, Operand(1)), OverflowChecks)
       IN  IF ~IsModel(v)
           THEN stack' = Rest(3) /\ FaultKeepingRegs("RegisterType")
           ELSE IF ~InBounds(a, w) \/ ~InBounds(b, w)
           THEN stack' = Rest(3) /\ FaultKeepingRegs("IndexOutOfBounds")
           ELSE /\ Stow(Current.r1, ModelVal(result.model))
                /\ IF result.panic
                   THEN stack' = Rest(3) /\ Fault("Panic")
                   ELSE /\ stack' = Append(Rest(3), IF w > MaxWord THEN MaxWord
                                                                   ELSE w)
                        /\ Continue
    /\ UNCHANGED <<loopStack, outputs>>

EnergyDefined(m, s) == Len(s.values) = m.size /\ InRange(m)

ExecEnergy ==
    /\ Executing({"ENERGY"})
    /\ LET m == regs[Current.r1]
           s == regs[Current.r2]
       IN  IF s.tag # "Sample" \/ ~IsModel(m)
           THEN Fault("RegisterType") /\ UNCHANGED stack
           ELSE IF ~EnergyDefined(m.model, s.sample)
           THEN Fault("SizeMismatch") /\ UNCHANGED stack
           ELSE Push(Energy(m.model, s.sample.values), stack)
    /\ UNCHANGED <<regs, loopStack, outputs>>

ModelStep ==
    \/ ModelUnderflow \/ ExecAllocate \/ ExecAllocateDiscrete
    \/ ExecGetLine \/ ExecSetLine \/ ExecGetQuad \/ ExecSetQuad \/ ExecAddPair
    \/ ExecResize \/ ExecFind \/ ExecSum
    \/ ExecOneHot \/ ExecEquality \/ ExecAtLeast \/ ExecAtLeastW \/ ExecReduce
    \/ ExecEnergy

\* One step of a run of any program.
XqmxStep == VmStep \/ ModelStep
XqmxNext == XqmxStep \/ HostStep

XqmxSpec == Init /\ [][XqmxNext]_vmVars

--------------------------------------------------------------------------
(* Properties.                                                            *)

\* The maps of a model are sparse and their keys in normal form, so that a
\* coefficient has one place: get_quad(i, j) and get_quad(j, i) agree.
ModelOK(m) ==
    /\ m.size \in Nat /\ m.rows \in Nat /\ m.cols \in Nat
    /\ \A key \in DOMAIN m.coef :
          /\ Len(key) \in {1, 2} /\ \A k \in DOMAIN key : key[k] \in Nat
          /\ Len(key) = 2 => key[1] <= key[2]
          /\ m.coef[key] \in Word \ {0}
SampleOK(s) == s.values \in Seq(Word) /\ s.rows \in Nat /\ s.cols \in Nat

ValueOK(v) ==
    CASE v.tag = "Int"     -> v.int \in Word
      [] v.tag = "VecInt"  -> v.ints \in Seq(Word)
      [] v.tag = "VecXqmx" -> \A k \in DOMAIN v.models : ModelOK(v.models[k])
      [] v.tag = "Model"   -> ModelOK(v.model)
      [] v.tag = "Sample"  -> SampleOK(v.sample)
      [] OTHER             -> v = Unset

XqmxTypeOK ==
    /\ StackOK
    /\ status \in {"idle", "running", "ok"} \cup VmErrors
    /\ \A r \in Reg : ValueOK(regs[r])
    /\ \A i \in DOMAIN outputs : ValueOK(outputs[i])

\* The step executes one of ops to its end.
Executes(ops) ==
    /\ status = "running" /\ steps' = steps + 1 /\ pc <= Len(prog.code)
    /\ Current.op \in ops
    /\ pc' = Behind

\* The model an instruction works on, before and after it, and the binary
\* assignments of all the variables either of them mentions.  (A penalty of
\* zero may be about others; they do not matter.)
Before == regs[Current.r1].model
After == regs'[Current.r1].model
Mentioned(m) == UNION {{key[k] : k \in DOMAIN key} : key \in DOMAIN m.coef}
Assignments ==
    LET counts == {After.size} \cup {i + 1 : i \in Mentioned(Before)}
                    \cup {i + 1 : i \in Mentioned(After)}
        n == CHOOSE k \in counts : \A i \in counts : i <= k
    IN  [1 .. n -> {0, 1}]
At(x, i) == IF i < Len(x) THEN x[i + 1] ELSE 0
Weighed(indices, weights, x) ==
    SumFunction([k \in DOMAIN indices |-> weights[k] * At(x, indices[k])])
Ones(indices) == [k \in DOMAIN indices |-> 1]

\* What HLF.md promises each constraint adds to the energy of a binary
\* assignment, its constant dropped.
Penalty(x) ==
    LET P == Operand(1)
        cells == Cells(Current.op, Before, Operand(2))
    IN  CASE Current.op \in {"ONEHOTR", "ONEHOTC"} ->
                P * ((Weighed(cells, Ones(cells), x) - 1) ^ 2 - 1)
          [] Current.op = "EXCLUDE" ->
                P * At(x, Operand(3)) * At(x, Operand(2))
          [] Current.op = "IMPLIES" ->
                P * At(x, Operand(3)) * (1 - At(x, Operand(2)))
          [] OTHER ->                                            \* EQUALITY
                LET lhs == Weighed(regs[Current.r2].ints, regs[Current.r3].ints, x)
                IN  P * ((lhs - Operand(2)) ^ 2 - Operand(2) ^ 2)
Gain(x) == Hamiltonian(After, x) - Hamiltonian(Before, x)

\* ONEHOTR, ONEHOTC, EXCLUDE, IMPLIES and EQUALITY change the energy of every
\* binary assignment by exactly their penalty, on top of whatever the model
\* held and for repeated indices too, unless an addition overflowed.
ExpansionsExact ==
    [][(Executes({"ONEHOTR", "ONEHOTC", "EXCLUDE", "IMPLIES", "EQUALITY"})
          /\ Before.domain = <<"Binary">>)
         => \A x \in Assignments : Gain(x) = Penalty(x)]_vmVars

\* ATLEAST and ATLEASTW: an assignment of the variables can be completed by
\* the slack variables to one without penalty exactly when it satisfies the
\* constraint, and no completion is better than that.
Inequality ==
    LET indices == regs[Current.r2].ints
        weights == IF Current.op = "ATLEAST" THEN Ones(indices)
                                             ELSE regs[Current.r3].ints
        k == Operand(2)
        best == -(Operand(1) * k ^ 2)
        free == {x \in Assignments : Gain(x) = best}
        meets(x) == Weighed(indices, weights, x) >= k
        agree(x, y) == \A i \in 1 .. Before.size : x[i] = y[i]
    IN  \A x \in Assignments :
            /\ Gain(x) >= best
            /\ meets(x) <=> \E y \in free : agree(x, y)

SlacksExact ==
    [][(Executes({"ATLEAST", "ATLEASTW"})
          /\ Before.domain = <<"Binary">> /\ Operand(1) > 0
          /\ (Current.op = "ATLEASTW" =>
                 \A k \in DOMAIN regs[Current.r3].ints :
                     regs[Current.r3].ints[k] >= 0))
         => Inequality]_vmVars

\* HLF.md on ATLEASTW: it enforces the inequality for arbitrary weights.
ArbitraryWeights ==
    [][(Executes({"ATLEASTW"})
          /\ Before.domain = <<"Binary">> /\ Operand(1) > 0)
         => Inequality]_vmVars

\* REDUCE: the penalty is zero when the new variable is the product of the
\* two and positive otherwise, whatever the pair.
AuxiliaryForced ==
    [][(Executes({"REDUCE"}) /\ Before.domain = <<"Binary">> /\ Operand(1) > 0)
         => /\ stack'[Len(stack')] = Before.size
            /\ \A x \in Assignments :
                LET product == At(x, Operand(3)) * At(x, Operand(2))
                    w == x[Before.size + 1]
                IN  IF w = product THEN Gain(x) = 0 ELSE Gain(x) > 0]_vmVars

\* A model instruction that fails adds no coefficient and takes none away.
\* Nothing else of the register file changes either, but for the size of a
\* model that EQUALITY enlarged before it found an index it could not use.
\* (An addition that panics is the exception: it stops between two terms.)
FailedInstructionAddsNothing ==
    [][(status = "running" /\ status' \in VmErrors \ {"Panic"}
          /\ pc <= Len(prog.code) /\ Current.op \in ModelOps)
         => \/ UNCHANGED regs
            \/ /\ Current.op = "EQUALITY"
               /\ regs' = [regs EXCEPT ![Current.r1] =
                             ModelVal([@.model EXCEPT !.size = After.size])]
               /\ After.size > Before.size]_vmVars
==========================================================================
