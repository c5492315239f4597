------------------------------ MODULE Compiler ------------------------------
(***************************************************************************)
(* src/xqcp/compiler.py: from the recorded actions of a problem to the     *)
(* code of its three programs, with the expressions of expression.py and   *)
(* symbols.py that emit themselves.  Pure functions.                       *)
(*                                                                         *)
(* The text of a program is left out: a program is the code the assembler  *)
(* makes of it, and a label in the text is the number of its TARGET.       *)
(***************************************************************************)
EXTENDS Isa
LOCAL INSTANCE SequencesExt
LOCAL INSTANCE FiniteSets

--------------------------------------------------------------------------
(* Expressions.  The kind of an expression is its class, where the         *)
(* compiler asks for it; the others are of kind "Expr".                    *)

Loads == {"InputRef", "LoopVar", "RegLoad"}
Literal(v) == [kind |-> "Literal", value |-> v]
IsLiteral(e, v) == e.kind = "Literal" /\ e.value = v

\* x + 1, 1 + x and x - 1 have an instruction of their own.
IsIncrement(e) ==
    e.kind = "BinOp" /\ e.op = "ADD" /\ \E k \in 1 .. 2 : IsLiteral(e.args[k], 1)
IsDecrement(e) == e.kind = "BinOp" /\ e.op = "SUB" /\ IsLiteral(e.args[2], 1)
Stepped(e) == IF IsLiteral(e.args[2], 1) THEN e.args[1] ELSE e.args[2]

\* The methods emit: operands from the left, then the operation.
RECURSIVE Emit(_)
Emit(e) ==
    IF e.kind = "Literal" THEN <<OpImm("PUSH", e.value)>>
    ELSE IF e.kind \in Loads THEN <<OpReg("LOAD", e.reg)>>
    ELSE IF IsIncrement(e) THEN Emit(Stepped(e)) \o <<Op("INC")>>
    ELSE IF IsDecrement(e) THEN Emit(Stepped(e)) \o <<Op("DEC")>>
    ELSE FlattenSeq([k \in DOMAIN e.args |-> Emit(e.args[k])])
           \o <<OpReg(e.op, e.reg)>>

EmitAll(exprs) == FlattenSeq([k \in DOMAIN exprs |-> Emit(exprs[k])])

\* A coordinate of a model: one index, or a row and a column of its grid.
EmitCoord(model, coord) ==
    EmitAll(coord)
      \o IF model.is_2d THEN <<OpReg("LOAD", model.cols_reg), Op("IDXGRID")>> ELSE <<>>

--------------------------------------------------------------------------
(* The encoder.                                                           *)

\* An action is of a kind and has the registers of its instruction, the
\* coordinates and expressions it evaluates first and, if it is a branch, arms.
OpcodeOf == [
    stow |-> "STOW", vec_alloc |-> "VEC", vec_push |-> "VECPUSH",
    add_linear |-> "ADDLINE", set_linear |-> "SETLINE",
    add_quadratic |-> "ADDQUAD", set_quadratic |-> "SETQUAD",
    onehot_row |-> "ONEHOTR", onehot_col |-> "ONEHOTC",
    exclude |-> "EXCLUDE", implies |-> "IMPLIES", slack |-> "SLACK",
    equality |-> "EQUALITY", atleast |-> "ATLEAST", atleastw |-> "ATLEASTW",
    range_end |-> "NEXT", iter_end |-> "NEXT"]

WithRegs(op, regs) ==
    LET r(k) == IF k \in DOMAIN regs THEN regs[k] ELSE 0
    IN  <<OpRegs(op, r(1), r(2), r(3))>>

EmitOperands(a) ==
    FlattenSeq([k \in DOMAIN a.coords |-> EmitCoord(a.model, a.coords[k])])
      \o EmitAll(a.exprs)

\* Mutant: the second operand of RANGE is the end, not the count.
EmitBoundsAsEnd(start, end) == Emit(start) \o Emit(end)

\* RANGE takes a start and a count.
EmitBounds(start, end) ==
    Emit(start) \o Emit(end)
      \o IF IsLiteral(start, 0) THEN <<>> ELSE Emit(start) \o <<Op("SUB")>>

EmitRangeStart(a) ==
    EmitBounds(a.exprs[1], a.exprs[2]) \o <<Op("RANGE"), OpReg("LVAL", a.regs[1])>>

EmitIterStart(a) ==
    EmitAll(a.exprs)
      \o <<OpReg("ITER", a.regs[1]), OpReg("LIDX", a.regs[2]), OpReg("LVAL", a.regs[3])>>

EmitReduce(a) ==
    EmitAll(a.exprs) \o <<OpReg("REDUCE", a.regs[1]), OpReg("STOW", a.regs[2])>>

\* SLACK and EQUALITY, with the capacity as target of both.
EmitInequality(a) ==
    LET capacity == Emit(a.exprs[2])
    IN  Emit(a.exprs[1]) \o capacity \o WithRegs("SLACK", Tail(a.regs))
          \o capacity \o Emit(a.exprs[3]) \o WithRegs("EQUALITY", a.regs)

EmitPlain(a) ==
    CASE a.kind = "range_start" -> EmitRangeStart(a)
      [] a.kind = "iter_start"  -> EmitIterStart(a)
      [] a.kind = "reduce"      -> EmitReduce(a)
      [] a.kind = "inequality"  -> EmitInequality(a)
      [] a.kind \in DOMAIN OpcodeOf -> EmitOperands(a) \o WithRegs(OpcodeOf[a.kind], a.regs)
      [] OTHER -> <<>>

\* Code with the next label the allocator would give.
Code(code, next) == [code |-> code, next |-> next]
Then(c, more) == [c EXCEPT !.code = @ \o more]

\* _emit_body_actions and _emit_branch.  A branch takes the label of its end
\* before those of its arms; an arm with a condition is skipped when it is false
\* and jumps to the end when it is not.
RECURSIVE EmitBody(_, _)
EmitArm(c, arm, end) ==
    IF arm.default THEN EmitBody(arm.actions, c)
    ELSE LET test == Emit(arm.condition) \o <<Op("NOT"), OpImm("JUMPI", c.next)>>
             body == EmitBody(arm.actions, Code(c.code \o test, c.next + 1))
         IN  Then(body, <<OpImm("JUMP", end), OpImm("TARGET", c.next)>>)
EmitBranch(a, c) ==
    Then(FoldLeft(LAMBDA acc, arm : EmitArm(acc, arm, c.next),
                  Code(c.code, c.next + 1), a.arms),
         <<OpImm("TARGET", c.next)>>)
EmitBody(actions, c) ==
    FoldLeft(LAMBDA acc, a : IF a.kind = "branch" THEN EmitBranch(a, acc)
                             ELSE Then(acc, EmitPlain(a)),
             c, actions)

\* What the assembler makes of the labels: a jump names the number of its TARGET
\* in the order of the code.
TargetsBefore(code, k) == Cardinality({i \in 1 .. k - 1 : code[i].op = "TARGET"})
TargetOf(code, label) ==
    CHOOSE k \in DOMAIN code : code[k].op = "TARGET" /\ code[k].imm = label
Linked(code) ==
    [k \in DOMAIN code |->
        CASE code[k].op \in JumpOps ->
                [code[k] EXCEPT !.imm = TargetsBefore(code, TargetOf(code, @))]
          [] code[k].op = "TARGET" -> [code[k] EXCEPT !.imm = 0]
          [] OTHER -> code[k]]

--------------------------------------------------------------------------
IsKind(a, kinds) == a.kind \in kinds
OfKinds(actions, kinds) == SelectSeq(actions, LAMBDA a : IsKind(a, kinds))

\* What is declared before the first output is the body of the encoder.
OutputsAt(actions) == {k \in DOMAIN actions : actions[k].kind = "output_decl"}
BodyOf(actions) ==
    LET before == SelectInSeq(actions, LAMBDA a : a.kind = "output_decl")
        declared == IF before = 0 THEN actions ELSE SubSeq(actions, 1, before - 1)
    IN  SelectSeq(declared, LAMBDA a : ~IsKind(a, {"input", "define_model"}))

ConstraintKinds == {"onehot_row", "onehot_col", "exclude", "implies",
                    "equality", "atleast", "atleastw", "inequality"}

\* _partition_body: a block is an action outside of loops or a whole loop.
LoopDepth(body, k) ==
    Len(OfKinds(SubSeq(body, 1, k), {"range_start", "iter_start"}))
      - Len(OfKinds(SubSeq(body, 1, k), {"range_end", "iter_end"}))
EndsBlock(body, k) == LoopDepth(body, k) = 0
SameBlock(body, j, k) ==
    \A i \in DOMAIN body : (j <= i /\ i < k) \/ (k <= i /\ i < j) => ~EndsBlock(body, i)
IsConstrained(body, k) ==
    \E j \in DOMAIN body : SameBlock(body, j, k) /\ IsKind(body[j], ConstraintKinds)

\* Mutant: the constraints come before the objective.
PartitionSwapped(body) ==
    LET picked(constrained) ==
            SelectSeq([k \in DOMAIN body |-> k],
                      LAMBDA k : IsConstrained(body, k) = constrained)
        order == picked(TRUE) \o picked(FALSE)
    IN  [k \in DOMAIN order |-> body[order[k]]]

\* The blocks without a constraint, then those with one.
Partition(body) ==
    LET picked(constrained) ==
            SelectSeq([k \in DOMAIN body |-> k],
                      LAMBDA k : IsConstrained(body, k) = constrained)
        order == picked(FALSE) \o picked(TRUE)
    IN  [k \in DOMAIN order |-> body[order[k]]]

\* The register of a size's factor; register 0 counts only as an input's.
FactorReg(e) ==
    IF e.kind = "InputRef" \/ (e.kind = "RegLoad" /\ e.reg # 0) THEN e.reg ELSE -1
EmitSize(size) ==
    IF size.kind = "BinOp" /\ size.op = "MUL"
       /\ FactorReg(size.args[1]) # -1
       /\ FactorReg(size.args[1]) = FactorReg(size.args[2])
    THEN <<OpReg("LOAD", FactorReg(size.args[1])), Op("SQR")>>
    ELSE Emit(size)

\* exprs: the size and, for a grid, its rows and columns.
EmitModelAllocation(a) ==
    EmitSize(a.exprs[1])
      \o <<OpReg(IF a.model.domain = "Binary" THEN "BQMX" ELSE "SQMX", a.model.reg)>>
      \o IF a.model.is_2d
         THEN Emit(a.exprs[3]) \o <<OpReg("STOW", a.model.cols_reg)>>
                \o Emit(a.exprs[2])
                \o <<OpReg("LOAD", a.model.cols_reg), OpReg("RESIZE", a.model.reg)>>
         ELSE <<>>

\* An input is read from the slot with the number of its register.
EmitInput(a) == <<OpImm("PUSH", a.regs[1]), OpReg("INPUT", a.regs[1])>>
EmitInputs(actions) ==
    LET inputs == OfKinds(actions, {"input"})
    IN  FlattenSeq([k \in DOMAIN inputs |-> EmitInput(inputs[k])])

\* compile_encoder; of several models the last one declared counts.
CompileEncoder(actions) ==
    LET models == OfKinds(actions, {"define_model"})
        model == models[Len(models)]
        head == EmitInputs(actions)
                  \o IF models = <<>> THEN <<>> ELSE EmitModelAllocation(model)
        tail == <<OpImm("PUSH", 0)>>
                  \o IF models = <<>> THEN <<>> ELSE <<OpReg("OUTPUT", model.model.reg)>>
        all == EmitBody(Partition(BodyOf(actions)), Code(head, 0)).code
    IN  Linked(all \o tail \o <<Op("HALT")>>)

--------------------------------------------------------------------------
(* The verifier program: the model, a sample and N in slots 0 to 2.        *)

InputSlots(n) ==
    FlattenSeq([k \in 1 .. n |-> <<OpImm("PUSH", k - 1), OpReg("INPUT", k - 1)>>])
OutputSlot(slot, reg) == <<OpImm("PUSH", slot), OpReg("OUTPUT", reg)>>

R_MODEL == 0
R_SAMPLE == 1
R_N == 2
R_VALID == 3
R_ENERGY == 4
R_LOOP == 10

\* Mutant: the flag is set by the last line looked at.
CheckLoopLast(test) ==
    <<OpImm("PUSH", 0), OpReg("LOAD", R_N), Op("RANGE"), OpReg("LVAL", R_LOOP),
      OpReg("LOAD", R_LOOP)>>
      \o test \o <<OpReg("STOW", R_VALID), Op("NEXT")>>

\* A loop over 0 .. N-1 that keeps the flag only while its test holds.
CheckLoop(test) ==
    <<OpImm("PUSH", 0), OpReg("LOAD", R_N), Op("RANGE"), OpReg("LVAL", R_LOOP),
      OpReg("LOAD", R_LOOP)>>
      \o test
      \o <<OpReg("LOAD", R_VALID), Op("AND"), OpReg("STOW", R_VALID), Op("NEXT")>>
LineTest(op) == <<OpReg(op, R_SAMPLE), OpImm("PUSH", 1), Op("EQ")>>
BinaryTest ==
    <<OpReg("GETLINE", R_SAMPLE), Op("COPY"), OpImm("PUSH", 0), Op("EQ"),
      Op("SWAP"), OpImm("PUSH", 1), Op("EQ"), Op("OR")>>

\* compile_verifier: the constraints recorded choose the checks.
CompileVerifier(constraints) ==
    LET has(kind) == OfKinds(constraints, {kind}) # <<>>
        checks ==
            (IF has("onehot_row") THEN CheckLoop(LineTest("ROWSUM")) ELSE <<>>)
              \o (IF has("onehot_col") THEN CheckLoop(LineTest("COLSUM")) ELSE <<>>)
              \o (IF ~has("onehot_row") /\ ~has("onehot_col")
                  THEN CheckLoop(BinaryTest) ELSE <<>>)
    IN  InputSlots(3) \o <<OpImm("PUSH", 1), OpReg("STOW", R_VALID)>> \o checks
          \o <<OpRegs("ENERGY", R_MODEL, R_SAMPLE, 0), OpReg("STOW", R_ENERGY)>>
          \o OutputSlot(0, R_ENERGY) \o OutputSlot(1, R_VALID) \o <<Op("HALT")>>

--------------------------------------------------------------------------
(* The decoder: the sample and N in slots 0 and 1, outputs from register 2. *)

RD_SAMPLE == 0
RD_N == 1
FirstOutput == 2

\* _emit_decoder_expr: every input and every register is taken for N.
RECURSIVE EmitDecoderExpr(_)
EmitDecoderExpr(e) ==
    IF e.kind \in {"InputRef", "RegLoad"} THEN <<OpReg("LOAD", RD_N)>>
    ELSE IF e.kind = "BinOp"
    THEN EmitDecoderExpr(e.args[1]) \o EmitDecoderExpr(e.args[2]) \o <<Op(e.op)>>
    ELSE Emit(e)

\* _emit_decoder_value_expr: what is read of the sample, at the innermost loop
\* variable or at an index of its own.
EmitDecoderValue(e) ==
    IF e.kind \in {"ColFindExpr", "GetLineExpr"}
    THEN (IF e.args[1].kind \in {"LoopVar", "RegLoad"}
          THEN <<OpReg("LOAD", R_LOOP)>> ELSE Emit(e.args[1]))
           \o EmitAll(Tail(e.args)) \o <<OpReg(e.op, RD_SAMPLE)>>
    ELSE Emit(e)

\* Mutant: the second operand of RANGE is the end, not the count.
EmitDecoderBoundsAsEnd(start, end) == EmitDecoderExpr(start) \o EmitDecoderExpr(end)

EmitDecoderBounds(start, end) ==
    EmitDecoderExpr(start) \o EmitDecoderExpr(end)
      \o IF IsLiteral(start, 0) THEN <<>> ELSE EmitDecoderExpr(start) \o <<Op("SUB")>>

\* _emit_decoder_block; it passes over actions of other kinds.
EmitDecoderAction(a, out_reg) ==
    CASE a.kind = "range_start" ->
            EmitDecoderBounds(a.exprs[1], a.exprs[2])
              \o <<Op("RANGE"), OpReg("LVAL", R_LOOP)>>
      [] a.kind = "iter_start" ->
            EmitDecoderExpr(a.exprs[1]) \o EmitDecoderExpr(a.exprs[2])
              \o <<OpReg("ITER", a.regs[1]), OpReg("LIDX", a.regs[2]),
                   OpReg("LVAL", a.regs[3])>>
      [] a.kind \in {"range_end", "iter_end"} -> <<Op("NEXT")>>
      [] a.kind = "output_append" ->
            EmitDecoderValue(a.exprs[1]) \o <<OpReg("VECPUSH", out_reg)>>
      [] a.kind = "output_setitem" ->
            EmitDecoderExpr(a.exprs[1]) \o EmitDecoderValue(a.exprs[2])
              \o <<OpReg("VECSET", out_reg)>>
      [] OTHER -> <<>>

\* _collect_output_blocks: the block of an output is what is declared between
\* it and the next.
BlockOf(actions, k) ==
    LET later == {i \in OutputsAt(actions) : i > k}
        last == IF later = {} THEN Len(actions)
                ELSE (CHOOSE i \in later : \A j \in later : i <= j) - 1
    IN  SubSeq(actions, k + 1, last)

EmitOutput(output, block, out_reg) ==
    (IF output.type = "Vec"
     THEN <<OpReg("VECI", out_reg)>>
            \o FlattenSeq([k \in DOMAIN block |-> EmitDecoderAction(block[k], out_reg)])
     ELSE <<>>)
      \o OutputSlot(output.slot, out_reg)

CompileDecoder(actions) ==
    LET declared == SelectSeq([k \in DOMAIN actions |-> k],
                              LAMBDA k : k \in OutputsAt(actions))
    IN  InputSlots(2)
          \o FlattenSeq([k \in DOMAIN declared |->
                            EmitOutput(actions[declared[k]],
                                       BlockOf(actions, declared[k]),
                                       FirstOutput + k - 1)])
          \o <<Op("HALT")>>
==========================================================================
