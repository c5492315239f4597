------------------------------- MODULE XqVm -------------------------------
(***************************************************************************)
(* The XQVM interpreter of src/xqvm/src/vm.rs: the Vm struct, the host     *)
(* calls that change it (set_calldata, set_output_slots, set_step_limit,   *)
(* set_register, reset, run), the fetch-dispatch loop of run_trace and the *)
(* instruction handlers.                                                   *)
(*                                                                         *)
(* A run is a sequence of steps: one per executed instruction, one per     *)
(* instruction the empty-loop scan (StepResult::SkipLoop) passes over, and *)
(* one for each way the loop ends.  A VM is used by one thread, so host    *)
(* calls happen between runs only.                                         *)
(*                                                                         *)
(* What a run leaves behind is part of the state: run resets the step      *)
(* counter and nothing else, an instruction that fails has consumed the    *)
(* operands it popped before failing, and the stack, the registers and the *)
(* loop frames of a failed or halted run are those the next one starts     *)
(* with, whatever its program: a frame keeps the position its body starts  *)
(* at, and a NEXT of another program sends the stream to that position of  *)
(* its own code, into the middle of an instruction or past the end.        *)
(*                                                                         *)
(* Models and samples are opaque values here (elements of Models and       *)
(* Samples): INPUT, OUTPUT, ITER, LVAL and set_register move them without  *)
(* looking inside, and the handlers that do look inside are not among      *)
(* ExecOps.                                                                *)
(***************************************************************************)
EXTENDS Isa

CONSTANTS
    StackLimit,     \* Vm::STACK_LIMIT (8192 in the code)
    MaxSteps,       \* u64::MAX, the step limit that stands for "unlimited"
    DefaultStepLimit, \* the step limit of a new VM (10,000,000)
    OverflowChecks, \* whether the build panics on unchecked i64 overflow
    Models,         \* XqmxModel values
    Samples,        \* XqmxSample values
    Programs,       \* the programs a host may run
    Calldatas,      \* the calldata a host may set
    OutputCounts,   \* the output slot counts a host may set
    StepLimits,     \* the arguments a host may pass to set_step_limit
    HostValues      \* the values a host may write with set_register

\* The operations the handlers below execute.
ExecOps == StackOps \cup RegisterOps \cup ControlOps \cup UnaryOps
             \cup BinaryOps \cup VecOps \cup IndexOps \cup {"BAD"}

\* A loaded program: its code and its jump table, the positions of the
\* TARGET instructions by label id (Program::new computes it by a scan of
\* the code, see Verifier).  An instruction cut off by the end does not decode.
Program == [code : Seq([op : Ops, imm : Word, r1 : Reg, r2 : Reg, r3 : Reg,
                        width : Nat \ {0}]),
            table : Seq(Nat \ {0})]
WellFormed(p) ==
    /\ p \in Program
    /\ \A k \in 1 .. Len(p.code) : k + p.code[k].width <= Len(p.code) + 1
    /\ \A l \in 1 .. Len(p.table) : p.table[l] <= Len(p.code)

\* RegVal.
Unset == [tag |-> "Unset"]
IntVal(i) == [tag |-> "Int", int |-> i]
VecInt(s) == [tag |-> "VecInt", ints |-> s]
VecXqmx(s) == [tag |-> "VecXqmx", models |-> s]
ModelVal(m) == [tag |-> "Model", model |-> m]

RegVal == [tag : {"Unset"}]
            \cup [tag : {"Int"}, int : Word]
            \cup [tag : {"VecInt"}, ints : Seq(Word)]
            \cup [tag : {"VecXqmx"}, models : Seq(Models)]
            \cup [tag : {"Model"}, model : Models]
            \cup [tag : {"Sample"}, sample : Samples]

ASSUME VmAssumption ==
    /\ StackLimit \in Nat \ {0}
    /\ MaxSteps \in Nat \ {0}
    /\ DefaultStepLimit \in 1 .. MaxSteps
    /\ OverflowChecks \in BOOLEAN
    /\ \A p \in Programs : WellFormed(p)
    /\ Calldatas \subseteq Seq(RegVal)
    /\ OutputCounts \subseteq Nat
    /\ StepLimits \subseteq 0 .. MaxSteps
    /\ HostValues \subseteq RegVal

VARIABLES
    prog,        \* the program of the current or last run
    pc,          \* the instruction stream's position in prog.code
    status,      \* "idle" | "running" | "ok" | the error the run ended with
    skipDepth,   \* 0, or the nesting depth of the empty-loop scan
    stack,       \* the value stack, bottom first
    regs,        \* the register file
    loopStack,   \* the active loop frames, innermost last
    calldata,    \* the slots INPUT reads
    outputs,     \* the slots OUTPUT writes
    stepLimit,   \* how many steps a run may take
    steps        \* the steps taken by the current or last run

hostVars == <<calldata, stepLimit, prog>>
controlVars == <<pc, status, skipDepth>>
vmVars == <<prog, pc, status, skipDepth, stack, regs, loopStack, calldata,
            outputs, stepLimit, steps>>

VmErrors == {"StackUnderflow", "StackOverflow", "UnsetRegister",
             "RegisterType", "DivisionByZero", "InvalidShift",
             "IndexOutOfBounds", "CallDataIndex", "OutputIndex",
             "NoActiveLoop", "UnmatchedLoop", "InvalidLabel",
             "StepLimitExceeded", "DecodeError", "SeekOutOfBounds", "Panic",
             "InvalidDiscreteK", "InvalidGridDimensions",
             "VecLengthMismatch", "SizeMismatch"}

RangeFrame == [kind : {"range"}, body : Nat \ {0}, current : Word, end : Word]
IterFrame == [kind : {"iter"}, body : Nat \ {0}, elements : Seq(RegVal),
              start : Nat, index : Nat]

ControlOK ==
    /\ WellFormed(prog)
    /\ pc \in 1 .. Len(prog.code) + 1
    /\ status \in {"idle", "running", "ok"} \cup VmErrors
    /\ skipDepth \in Nat
    /\ stepLimit \in 1 .. MaxSteps
    /\ steps \in Nat
StackOK == stack \in Seq(Word) /\ Len(stack) <= StackLimit
RegsOK == regs \in [Reg -> RegVal]
LoopsOK == loopStack \in Seq(RangeFrame \cup IterFrame)
SlotsOK == calldata \in Seq(RegVal) /\ outputs \in Seq(RegVal)

\* The stack never exceeds its limit, and the stream never leaves the code, not
\* even at the NEXT of a loop that a longer program left behind.
TypeOK == ControlOK /\ StackOK /\ RegsOK /\ LoopsOK /\ SlotsOK

--------------------------------------------------------------------------
(* Building blocks of the handlers.                                       *)

Current == prog.code[pc]
Behind == pc + Current.width                   \* where the next one starts
Operand(k) == stack[Len(stack) - k + 1]        \* the k-th value from the top
Rest(n) == SubSeq(stack, 1, Len(stack) - n)    \* the stack after n pops
TopFrame == loopStack[Len(loopStack)]

\* Mutant: control flow is free, only the other operations count as steps.
ExecutingFreeControl(ops) ==
    /\ status = "running" /\ skipDepth = 0
    /\ steps < stepLimit
    /\ pc <= Len(prog.code)
    /\ Current.op \in ops
    /\ Len(stack) >= Needs(Current.op)
    /\ steps' = IF Current.op \in ControlOps THEN steps ELSE steps + 1
    /\ UNCHANGED hostVars

\* The common start of every handler: the step is counted, the instruction
\* is fetched and decoded, and its operands are there.
Executing(ops) ==
    /\ status = "running" /\ skipDepth = 0
    /\ steps < stepLimit
    /\ pc <= Len(prog.code)
    /\ Current.op \in ops
    /\ Len(stack) >= Needs(Current.op)
    /\ steps' = steps + 1
    /\ UNCHANGED hostVars

\* StepResult::Continue, and an Err return.
Continue == pc' = Behind /\ UNCHANGED <<status, skipDepth>>
Fault(error) == status' = error /\ UNCHANGED <<pc, skipDepth>>

\* Mutant: push_stack without its limit.
PushUnlimited(v, base) == stack' = Append(base, v) /\ Continue

\* push_stack as the last act of a handler that left base on the stack.
Push(v, base) ==
    IF Len(base) >= StackLimit
    THEN stack' = base /\ Fault("StackOverflow")
    ELSE stack' = Append(base, v) /\ Continue

\* Mutant: a stream that takes any position.
SeekAnywhere(target) == pc' = target /\ UNCHANGED <<status, skipDepth>>

\* stream.seek: to any byte of the code, or to its end.
Seek(target) ==
    IF target > Len(prog.code) + 1
    THEN Fault("SeekOutOfBounds")
    ELSE pc' = target /\ UNCHANGED <<status, skipDepth>>

\* StepResult::Jump(label): the label is looked up in the jump table.
JumpTo(label) ==
    IF label + 1 \in 1 .. Len(prog.table)
    THEN Seek(prog.table[label + 1])
    ELSE Fault("InvalidLabel")

\* i64 addition written with a plain + in the code.
Overflows(x) == OverflowChecks /\ x \notin Word

\* The slice ITER accepts: 0 <= start <= end <= len (resolve_iter_slice).
ValidSlice(start, end, len) == 0 <= start /\ start <= end /\ end <= len
InBounds(i, len) == 0 <= i /\ i < len

--------------------------------------------------------------------------
(* The handlers.                                                          *)

\* self.pop(pos)? and its kin on too short a stack.  The pops that succeeded
\* before the failing one are not undone; SWAP looks before it touches.
Underflow ==
    /\ status = "running" /\ skipDepth = 0
    /\ steps < stepLimit
    /\ pc <= Len(prog.code)
    /\ Current.op \in ExecOps
    /\ Len(stack) < Needs(Current.op)
    /\ steps' = steps + 1
    /\ stack' = IF Current.op = "SWAP" THEN stack ELSE <<>>
    /\ Fault("StackUnderflow")
    /\ UNCHANGED <<hostVars, regs, loopStack, outputs>>

ExecNop ==
    /\ Executing({"NOP", "TARGET"})
    /\ Continue
    /\ UNCHANGED <<stack, regs, loopStack, outputs>>

ExecHalt ==
    /\ Executing({"HALT"})
    /\ status' = "ok"
    /\ UNCHANGED <<pc, skipDepth, stack, regs, loopStack, outputs>>

ExecBad ==
    /\ Executing({"BAD"})
    /\ Fault("DecodeError")
    /\ UNCHANGED <<stack, regs, loopStack, outputs>>

ExecJump ==
    /\ Executing({"JUMP"})
    /\ JumpTo(Current.imm)
    /\ UNCHANGED <<stack, regs, loopStack, outputs>>

ExecJumpI ==
    /\ Executing({"JUMPI"})
    /\ stack' = Rest(1)
    /\ IF Operand(1) # 0 THEN JumpTo(Current.imm) ELSE Continue
    /\ UNCHANGED <<regs, loopStack, outputs>>

\* Mutant: the end of the range taken as inclusive.
HasMoreInclusive(f) ==
    IF f.kind = "range" THEN f.current <= f.end ELSE f.index < Len(f.elements)

\* exec_next: advance the innermost frame, then go back to the start of its
\* body or drop it.  The frame has advanced also when the seek then fails.
HasMore(f) ==
    IF f.kind = "range" THEN f.current < f.end ELSE f.index < Len(f.elements)
Advanced(f) ==
    IF f.kind = "range" THEN [f EXCEPT !.current = Wrap(@ + 1)]
                        ELSE [f EXCEPT !.index = @ + 1]

ExecNext ==
    /\ Executing({"NEXT"})
    /\ IF loopStack = <<>>
       THEN Fault("NoActiveLoop") /\ UNCHANGED loopStack
       ELSE IF TopFrame.kind = "range" /\ Overflows(TopFrame.current + 1)
       THEN Fault("Panic") /\ UNCHANGED loopStack
       ELSE LET f == Advanced(TopFrame) IN
            IF HasMore(f)
            THEN /\ loopStack' = [loopStack EXCEPT ![Len(loopStack)] = f]
                 /\ Seek(f.body)
            ELSE /\ loopStack' = SubSeq(loopStack, 1, Len(loopStack) - 1)
                 /\ Continue
    /\ UNCHANGED <<stack, regs, outputs>>

ExecLidx ==
    /\ Executing({"LIDX"})
    /\ IF loopStack = <<>>
       THEN Fault("NoActiveLoop") /\ UNCHANGED regs
       ELSE LET i == IF TopFrame.kind = "range" THEN TopFrame.current
                     ELSE TopFrame.start + TopFrame.index
            IN  /\ regs' = [regs EXCEPT ![Current.r1] =
                              IntVal(IF i > MaxWord THEN MaxWord ELSE i)]
                /\ Continue
    /\ UNCHANGED <<stack, loopStack, outputs>>

ExecLVal ==
    /\ Executing({"LVAL"})
    /\ IF loopStack = <<>>
       THEN Fault("NoActiveLoop") /\ UNCHANGED regs
       ELSE IF TopFrame.kind = "range"
       THEN regs' = [regs EXCEPT ![Current.r1] = IntVal(TopFrame.current)]
            /\ Continue
       ELSE IF TopFrame.index < Len(TopFrame.elements)
       THEN regs' = [regs EXCEPT ![Current.r1] =
                       TopFrame.elements[TopFrame.index + 1]]
            /\ Continue
       ELSE Fault("IndexOutOfBounds") /\ UNCHANGED regs
    /\ UNCHANGED <<stack, loopStack, outputs>>

\* exec_range: a count of zero or less starts the empty-loop scan, any other
\* pushes a frame whose body starts at the next instruction.
ExecRange ==
    /\ Executing({"RANGE"})
    /\ stack' = Rest(2)
    /\ LET count == Operand(1)
           start == Operand(2)
       IN  IF count <= 0
           THEN skipDepth' = 1 /\ UNCHANGED loopStack
           ELSE /\ loopStack' = Append(loopStack,
                     [kind |-> "range", body |-> Behind,
                      current |-> start, end |-> Wrap(start + count)])
                /\ UNCHANGED skipDepth
    /\ pc' = Behind
    /\ UNCHANGED <<status, regs, outputs>>

\* exec_iter: an empty slice pushes a frame all the same.
IsVec(v) == v.tag \in {"VecInt", "VecXqmx"}
VecElements(v) ==
    IF v.tag = "VecInt" THEN [i \in 1 .. Len(v.ints) |-> IntVal(v.ints[i])]
                        ELSE [i \in 1 .. Len(v.models) |-> ModelVal(v.models[i])]

ExecIter ==
    /\ Executing({"ITER"})
    /\ stack' = Rest(2)
    /\ LET end == Operand(1)
           start == Operand(2)
           vec == regs[Current.r1]
       IN  IF ~IsVec(vec)
           THEN Fault("RegisterType") /\ UNCHANGED loopStack
           ELSE IF ~ValidSlice(start, end, Len(VecElements(vec)))
           THEN Fault("IndexOutOfBounds") /\ UNCHANGED loopStack
           ELSE /\ loopStack' = Append(loopStack,
                     [kind |-> "iter", body |-> Behind, start |-> start,
                      elements |-> SubSeq(VecElements(vec), start + 1, end),
                      index |-> 0])
                /\ Continue
    /\ UNCHANGED <<regs, outputs>>

--------------------------------------------------------------------------
ExecPush ==
    /\ Executing({"PUSH"})
    /\ Push(Current.imm, stack)
    /\ UNCHANGED <<regs, loopStack, outputs>>

ExecPop ==
    /\ Executing({"POP"})
    /\ stack' = Rest(1) /\ Continue
    /\ UNCHANGED <<regs, loopStack, outputs>>

ExecCopy ==
    /\ Executing({"COPY"})
    /\ Push(Operand(1), stack)
    /\ UNCHANGED <<regs, loopStack, outputs>>

ExecSwap ==
    /\ Executing({"SWAP"})
    /\ stack' = Rest(2) \o <<Operand(1), Operand(2)>>
    /\ Continue
    /\ UNCHANGED <<regs, loopStack, outputs>>

ExecSclr ==
    /\ Executing({"SCLR"})
    /\ stack' = <<>> /\ Continue
    /\ UNCHANGED <<regs, loopStack, outputs>>

ExecLoad ==
    /\ Executing({"LOAD"})
    /\ LET v == regs[Current.r1] IN
       CASE v.tag = "Int"   -> Push(v.int, stack)
         [] v.tag = "Unset" -> Fault("UnsetRegister") /\ UNCHANGED stack
         [] OTHER           -> Fault("RegisterType") /\ UNCHANGED stack
    /\ UNCHANGED <<regs, loopStack, outputs>>

ExecStow ==
    /\ Executing({"STOW"})
    /\ regs' = [regs EXCEPT ![Current.r1] = IntVal(Operand(1))]
    /\ stack' = Rest(1) /\ Continue
    /\ UNCHANGED <<loopStack, outputs>>

ExecDrop ==
    /\ Executing({"DROP"})
    /\ regs' = [regs EXCEPT ![Current.r1] = Unset]
    /\ Continue
    /\ UNCHANGED <<stack, loopStack, outputs>>

ExecInput ==
    /\ Executing({"INPUT"})
    /\ stack' = Rest(1)
    /\ IF InBounds(Operand(1), Len(calldata))
       THEN /\ regs' = [regs EXCEPT ![Current.r1] = calldata[Operand(1) + 1]]
            /\ Continue
       ELSE Fault("CallDataIndex") /\ UNCHANGED regs
    /\ UNCHANGED <<loopStack, outputs>>

\* Mutant: the slot is written before the register is looked at.
OutputBeforeCheck ==
    /\ Executing({"OUTPUT"})
    /\ stack' = Rest(1)
    /\ IF ~InBounds(Operand(1), Len(outputs))
       THEN Fault("OutputIndex") /\ UNCHANGED outputs
       ELSE /\ outputs' = [outputs EXCEPT ![Operand(1) + 1] = regs[Current.r1]]
            /\ IF regs[Current.r1].tag = "Unset"
               THEN Fault("UnsetRegister") ELSE Continue
    /\ UNCHANGED <<regs, loopStack>>

ExecOutput ==
    /\ Executing({"OUTPUT"})
    /\ stack' = Rest(1)
    /\ IF ~InBounds(Operand(1), Len(outputs))
       THEN Fault("OutputIndex") /\ UNCHANGED outputs
       ELSE IF regs[Current.r1].tag = "Unset"
       THEN Fault("UnsetRegister") /\ UNCHANGED outputs
       ELSE /\ outputs' = [outputs EXCEPT ![Operand(1) + 1] = regs[Current.r1]]
            /\ Continue
    /\ UNCHANGED <<regs, loopStack>>

--------------------------------------------------------------------------
ExecUnary ==
    /\ Executing(UnaryOps)
    /\ stack' = Append(Rest(1), Unary(Current.op, Operand(1)))
    /\ Continue
    /\ UNCHANGED <<regs, loopStack, outputs>>

ExecBinary ==
    /\ Executing(BinaryOps)
    /\ LET b == Operand(1)
           a == Operand(2)
           error == BinaryError(Current.op, b)
       IN  IF error = "none"
           THEN stack' = Append(Rest(2), Binary(Current.op, a, b)) /\ Continue
           ELSE stack' = Rest(2) /\ Fault(error)
    /\ UNCHANGED <<regs, loopStack, outputs>>

ExecIdxGrid ==
    /\ Executing({"IDXGRID"})
    /\ stack' = Append(Rest(3), IdxGrid(Operand(3), Operand(2), Operand(1)))
    /\ Continue
    /\ UNCHANGED <<regs, loopStack, outputs>>

ExecIdxTriu ==
    /\ Executing({"IDXTRIU"})
    /\ IF OverflowChecks /\ TriuOverflows(Operand(2), Operand(1))
       THEN stack' = Rest(2) /\ Fault("Panic")
       ELSE /\ stack' = Append(Rest(2), IdxTriu(Operand(2), Operand(1)))
            /\ Continue
    /\ UNCHANGED <<regs, loopStack, outputs>>

--------------------------------------------------------------------------
ExecVecNew ==
    /\ Executing({"VEC", "VECI", "VECX"})
    /\ regs' = [regs EXCEPT ![Current.r1] =
                  IF Current.op = "VECX" THEN VecXqmx(<<>>) ELSE VecInt(<<>>)]
    /\ Continue
    /\ UNCHANGED <<stack, loopStack, outputs>>

ExecVecPush ==
    /\ Executing({"VECPUSH"})
    /\ stack' = Rest(1)
    /\ IF regs[Current.r1].tag = "VecInt"
       THEN /\ regs' = [regs EXCEPT ![Current.r1] =
                          VecInt(Append(@.ints, Operand(1)))]
            /\ Continue
       ELSE Fault("RegisterType") /\ UNCHANGED regs
    /\ UNCHANGED <<loopStack, outputs>>

ExecVecGet ==
    /\ Executing({"VECGET"})
    /\ LET v == regs[Current.r1]
           i == Operand(1)
       IN  IF v.tag # "VecInt"
           THEN stack' = Rest(1) /\ Fault("RegisterType")
           ELSE IF ~InBounds(i, Len(v.ints))
           THEN stack' = Rest(1) /\ Fault("IndexOutOfBounds")
           ELSE stack' = Append(Rest(1), v.ints[i + 1]) /\ Continue
    /\ UNCHANGED <<regs, loopStack, outputs>>

ExecVecSet ==
    /\ Executing({"VECSET"})
    /\ stack' = Rest(2)
    /\ LET v == regs[Current.r1]
           i == Operand(2)
       IN  IF v.tag # "VecInt"
           THEN Fault("RegisterType") /\ UNCHANGED regs
           ELSE IF ~InBounds(i, Len(v.ints))
           THEN Fault("IndexOutOfBounds") /\ UNCHANGED regs
           ELSE /\ regs' = [regs EXCEPT ![Current.r1] =
                              VecInt([@.ints EXCEPT ![i + 1] = Operand(1)])]
                /\ Continue
    /\ UNCHANGED <<loopStack, outputs>>

ExecVecLen ==
    /\ Executing({"VECLEN"})
    /\ LET v == regs[Current.r1]
           n == Len(VecElements(v))
       IN  IF IsVec(v) THEN Push(IF n > MaxWord THEN MaxWord ELSE n, stack)
                       ELSE Fault("RegisterType") /\ UNCHANGED stack
    /\ UNCHANGED <<regs, loopStack, outputs>>

\* exec_slack: one index and one power of two per bit of the capacity, first
\* all the indices, then, after a second look at the other register, all the
\* coefficients.  What was appended before a failure stays.
ExecSlack ==
    /\ Executing({"SLACK"})
    /\ stack' = Rest(2)
    /\ LET start == Operand(2)
           bits == BitLen(Operand(1))
           fit == IF Overflows(start + bits - 1) THEN MaxWord - start + 1
                                                 ELSE bits
           withIndices == [regs EXCEPT ![Current.r1] =
               VecInt(@.ints \o [i \in 1 .. fit |-> Wrap(start + i - 1)])]
       IN  IF Operand(1) <= 0
           THEN Continue /\ UNCHANGED regs
           ELSE IF regs[Current.r1].tag # "VecInt"
           THEN Fault("RegisterType") /\ UNCHANGED regs
           ELSE IF fit < bits
           THEN regs' = withIndices /\ Fault("Panic")
           ELSE IF withIndices[Current.r2].tag # "VecInt"
           THEN regs' = withIndices /\ Fault("RegisterType")
           ELSE /\ regs' = [withIndices EXCEPT ![Current.r2] =
                     VecInt(@.ints \o [i \in 1 .. bits |-> 2 ^ (i - 1)])]
                /\ Continue
    /\ UNCHANGED <<loopStack, outputs>>

--------------------------------------------------------------------------
(* The rest of run_trace's loop.                                          *)

\* The limit is looked at before the next instruction is fetched, so a fetch
\* past the last instruction counts as a step as well.
StepLimitHit ==
    /\ status = "running" /\ skipDepth = 0
    /\ steps >= stepLimit
    /\ Fault("StepLimitExceeded")
    /\ UNCHANGED <<hostVars, steps, stack, regs, loopStack, outputs>>

EndOfStream ==
    /\ status = "running" /\ skipDepth = 0
    /\ steps < stepLimit
    /\ pc > Len(prog.code)
    /\ steps' = steps + 1
    /\ status' = "ok"
    /\ UNCHANGED <<hostVars, pc, skipDepth, stack, regs, loopStack, outputs>>

\* Mutant: a scan that stops at the first NEXT, whatever loop it closes.
DepthIgnoringNesting(d, op) == IF op = "NEXT" THEN 0 ELSE d

\* The nesting depth after the empty-loop scan has passed an instruction.
DepthAfter(d, op) ==
    IF op \in LoopOpeners THEN d + 1 ELSE IF op = "NEXT" THEN d - 1 ELSE d

\* StepResult::SkipLoop: one instruction of the scan.  It takes no steps.
SkipScan ==
    /\ status = "running" /\ skipDepth > 0
    /\ IF pc > Len(prog.code) THEN Fault("UnmatchedLoop")
       ELSE IF Current.op = "BAD" THEN Fault("DecodeError")
       ELSE /\ skipDepth' = DepthAfter(skipDepth, Current.op)
            /\ pc' = Behind
            /\ UNCHANGED status
    /\ UNCHANGED <<hostVars, steps, stack, regs, loopStack, outputs>>

Execute ==
    \/ Underflow \/ ExecNop \/ ExecHalt \/ ExecBad
    \/ ExecJump \/ ExecJumpI
    \/ ExecNext \/ ExecLidx \/ ExecLVal \/ ExecRange \/ ExecIter
    \/ ExecPush \/ ExecPop \/ ExecCopy \/ ExecSwap \/ ExecSclr
    \/ ExecLoad \/ ExecStow \/ ExecDrop \/ ExecInput \/ ExecOutput
    \/ ExecUnary \/ ExecBinary \/ ExecIdxGrid \/ ExecIdxTriu
    \/ ExecVecNew \/ ExecVecPush \/ ExecVecGet \/ ExecVecSet \/ ExecVecLen
    \/ ExecSlack

\* One step of a run.
VmStep == Execute \/ StepLimitHit \/ EndOfStream \/ SkipScan

--------------------------------------------------------------------------
(* What the host does between runs.                                       *)

BetweenRuns == status # "running"

\* run: a new instruction stream, the step counter at zero, and everything
\* else as the host and the previous runs left it, the loop frames of another
\* program among them.
Run(p) ==
    /\ BetweenRuns
    /\ prog' = p /\ pc' = 1 /\ skipDepth' = 0
    /\ status' = "running"
    /\ steps' = 0
    /\ UNCHANGED <<stack, regs, loopStack, calldata, outputs, stepLimit>>

\* Mutant: a reset that forgets the loop frames.
ResetKeepingLoops ==
    /\ BetweenRuns
    /\ stack' = <<>> /\ regs' = [r \in Reg |-> Unset]
    /\ steps' = 0 /\ status' = "idle"
    /\ UNCHANGED <<hostVars, pc, skipDepth, loopStack, outputs>>

\* reset: calldata, outputs and the step limit are kept.
Reset ==
    /\ BetweenRuns
    /\ stack' = <<>> /\ regs' = [r \in Reg |-> Unset] /\ loopStack' = <<>>
    /\ steps' = 0 /\ status' = "idle"
    /\ UNCHANGED <<hostVars, pc, skipDepth, outputs>>

SetCalldata(data) ==
    /\ BetweenRuns
    /\ calldata' = data
    /\ UNCHANGED <<prog, controlVars, stack, regs, loopStack, outputs,
                   stepLimit, steps>>

SetOutputSlots(n) ==
    /\ BetweenRuns
    /\ outputs' = [i \in 1 .. n |-> Unset]
    /\ UNCHANGED <<hostVars, controlVars, stack, regs, loopStack, steps>>

SetStepLimit(limit) ==
    /\ BetweenRuns
    /\ stepLimit' = IF limit = 0 THEN MaxSteps ELSE limit
    /\ UNCHANGED <<prog, controlVars, stack, regs, loopStack, calldata,
                   outputs, steps>>

SetRegister(r, v) ==
    /\ BetweenRuns
    /\ regs' = [regs EXCEPT ![r] = v]
    /\ UNCHANGED <<hostVars, controlVars, stack, loopStack, outputs, steps>>

HostStep ==
    \/ \E p \in Programs : Run(p)
    \/ Reset
    \/ \E data \in Calldatas : SetCalldata(data)
    \/ \E n \in OutputCounts : SetOutputSlots(n)
    \/ \E limit \in StepLimits : SetStepLimit(limit)
    \/ \E r \in Reg, v \in HostValues : SetRegister(r, v)

Init ==
    /\ prog = [code |-> <<>>, table |-> <<>>]
    /\ pc = 1 /\ status = "idle" /\ skipDepth = 0
    /\ stack = <<>> /\ loopStack = <<>>
    /\ regs = [r \in Reg |-> Unset]
    /\ calldata = <<>> /\ outputs = <<>>
    /\ stepLimit = DefaultStepLimit
    /\ steps = 0

Next == VmStep \/ HostStep

\* run_trace is a loop: a started run is executed until it ends.  The host
\* is under no obligation.
Spec == Init /\ [][Next]_vmVars
FairSpec == Spec /\ WF_vmVars(VmStep)

--------------------------------------------------------------------------
(* Properties.                                                            *)

\* Every frame on the loop stack has a current element: NEXT drops a frame
\* when its last element is done, so LIDX and LVAL never read past the end of
\* a loop, in the run that opened it or in a later one that finds the frame
\* still there.  The exception of the code is ITER over an empty slice, which
\* pushes a frame with nothing in it.  (A RANGE whose end wrapped has its end
\* below its current value: the first NEXT drops it, unless the counter stands at
\* the largest word and wraps as well.)
FrameHasElement(f) ==
    IF f.kind = "range" THEN f.current # f.end
                        ELSE f.index < Len(f.elements) \/ f.elements = <<>>
FramesHaveElements ==
    \A k \in 1 .. Len(loopStack) : FrameHasElement(loopStack[k])

\* The ISA reference (spec/xqvm/ISA.md, Empty-loop skip) on ITER: a slice with
\* no element pushes no loop frame, its body is skipped.
EmptySlicesSkipped ==
    \A k \in 1 .. Len(loopStack) :
        loopStack[k].kind = "iter" => loopStack[k].elements # <<>>

\* An instruction that fails leaves the register file, the output slots and
\* the loop frames as they were (only operands may be gone from the stack):
\* a host that inspects the VM after an error sees no half-done write.  There
\* are two exceptions.  SLACK appends to its first register before it looks at
\* the second.  And NEXT moves the innermost frame on before it goes back to its
\* body, where the position may lie outside the code if an earlier, longer
\* program left the frame: the frame then stays, one element further, and is
\* the only one that changed.
OnlyTopMoved ==
    /\ status' = "SeekOutOfBounds"
    /\ DOMAIN loopStack' = DOMAIN loopStack
    /\ \A k \in 1 .. Len(loopStack) :
          /\ loopStack'[k].body = loopStack[k].body
          /\ k < Len(loopStack) => loopStack'[k] = loopStack[k]
Failing == status = "running" /\ status' \in VmErrors
FailureWritesNothing ==
    [][Failing =>
         /\ outputs' = outputs
         /\ \A r \in Reg : regs'[r] = regs[r]
                           \/ (Current.op = "SLACK" /\ Current.r1 = r)
         /\ loopStack' = loopStack \/ OnlyTopMoved]_vmVars

\* Every run ends, whatever the program and whatever earlier runs left behind:
\* each instruction counts against the step limit and the empty-loop scan,
\* which does not, only moves forward.
RunsEnd == status = "running" ~> status # "running"

==========================================================================
