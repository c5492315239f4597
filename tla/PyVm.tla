-------------------------------- MODULE PyVm --------------------------------
(***************************************************************************)
(* The reference VM of src/xqvm_py: MachineState and JumpControl of        *)
(* state.py, Vec of vector.py, and the fetch-execute loop and the handlers *)
(* of executor.py for the operations XqVm executes.                        *)
(*                                                                         *)
(* Integers are unbounded, only a push checks that its value is a word.    *)
(* A Vec is an object: registers, input and output slots hold references   *)
(* to it, and heap is what the references stand for.  Which exception an   *)
(* instruction raises is not told apart, except for the step limit: a host *)
(* that uses xquad gets no result from a run that raised one.              *)
(*                                                                         *)
(* unportable is a history variable: the ways in which the run went where  *)
(* the specification says implementations may differ, or where this one    *)
(* and XqVm are known to.  It is read by no action.                        *)
(***************************************************************************)
EXTENDS Isa

CONSTANT StackLimit          \* MAX_STACK_SIZE

VARIABLES
    program,     \* the Program being executed
    state,       \* the MachineState
    heap,        \* the Vec objects, by reference
    outcome,     \* "idle" | "running" | "ok" | "limit" | "raised"
    unportable   \* what the run met that is not portable

pyVars == <<program, state, heap, outcome, unportable>>

\* What registers and slots hold.
PyInt(i) == [tag |-> "Int", int |-> i]
Ref(n) == [tag |-> "Vec", at |-> n]
None == [tag |-> "None"]
Absent == [tag |-> "Absent"]           \* no entry in the dict

\* A Vec: its element type, its elements, and whether this run wrote to it.
NewVec(kind, elements) ==
    [kind |-> kind, elements |-> elements, changed |-> FALSE]

\* MachineState.reset, and the input of execute.
Fresh(input) ==
    [pc |-> 1, stack |-> <<>>, registers |-> [r \in Reg |-> Absent],
     loops |-> <<>>, input |-> input, output |-> <<>>, halted |-> FALSE, steps |-> 0]

Instr == program.code[state.pc]
Reg1 == state.registers[Instr.r1]
IsVec(v) == v.tag = "Vec"
Elements(v) == heap[v.at].elements
Top(k) == state.stack[Len(state.stack) - k + 1]
Below(n) == SubSeq(state.stack, 1, Len(state.stack) - n)
Frame == state.loops[Len(state.loops)]

--------------------------------------------------------------------------
(* How a step ends.                                                       *)

\* Mutant: control flow is not counted.
AdvancedFree(s) ==
    [s EXCEPT !.steps = IF Instr.op \in ControlOps THEN @ ELSE @ + 1,
              !.pc = IF @ = state.pc /\ ~s.halted THEN @ + 1 ELSE @]

\* step: the program counter advances unless the handler moved it.
Advanced(s) ==
    [s EXCEPT !.steps = @ + 1,
              !.pc = IF @ = state.pc /\ ~s.halted THEN @ + 1 ELSE @]

Done(s) == state' = Advanced(s) /\ UNCHANGED outcome
Raise == outcome' = "raised" /\ UNCHANGED state
Note(reasons) == unportable' = unportable \cup reasons
When(condition, reason) == IF condition THEN {reason} ELSE {}
KeepHeap == UNCHANGED heap

\* Mutant: a push that lets any integer onto the stack.
PushUnchecked(v, base, reasons) ==
    /\ IF Len(base) >= StackLimit THEN Raise
       ELSE Done([state EXCEPT !.stack = Append(base, v)])
    /\ Note(reasons \cup When(v \notin Word, "Overflow"))

\* MachineState.push, the last act of a handler: the limit, then check_i64.
PushNoting(v, base, reasons) ==
    /\ IF Len(base) >= StackLimit \/ v \notin Word THEN Raise
       ELSE Done([state EXCEPT !.stack = Append(base, v)])
    /\ Note(reasons \cup When(v \notin Word, "Overflow"))
Push(v, base) == PushNoting(v, base, {})

\* execute's loop is about to execute an instruction of ops, with the operands
\* it pops on the stack.
Executing(ops) ==
    /\ outcome = "running"
    /\ ~state.halted /\ state.pc <= Len(program.code)
    /\ program.limit = 0 \/ state.steps < program.limit
    /\ Instr.op \in ops
    /\ Len(state.stack) >= Needs(Instr.op)
    /\ UNCHANGED program

SetRegister(v, base) ==
    Done([state EXCEPT !.registers[Instr.r1] = v, !.stack = base])

--------------------------------------------------------------------------
(* Control flow.                                                          *)

Underflow ==
    /\ outcome = "running"
    /\ ~state.halted /\ state.pc <= Len(program.code)
    /\ program.limit = 0 \/ state.steps < program.limit
    /\ Len(state.stack) < Needs(Instr.op)
    /\ Raise /\ Note({}) /\ KeepHeap /\ UNCHANGED program

PyNop ==
    /\ Executing({"NOP", "TARGET"}) /\ Done(state) /\ Note({}) /\ KeepHeap

PyHalt ==
    /\ Executing({"HALT"})
    /\ Done([state EXCEPT !.halted = TRUE]) /\ Note({}) /\ KeepHeap

\* resolve_target and jump_to, with base left on the stack.
JumpTo(label, base) ==
    IF label + 1 \in DOMAIN program.table
    THEN Done([state EXCEPT !.pc = program.table[label + 1], !.stack = base])
    ELSE Raise

PyJump ==
    /\ Executing({"JUMP"})
    /\ JumpTo(Instr.imm, state.stack) /\ Note({}) /\ KeepHeap

PyJumpI ==
    /\ Executing({"JUMPI"})
    /\ IF Top(1) # 0 THEN JumpTo(Instr.imm, Below(1))
                     ELSE Done([state EXCEPT !.stack = Below(1)])
    /\ Note({}) /\ KeepHeap

\* How deep in loops the scan of _skip_to_matching_next is after passing n,
\* and where it ends.
CountOf(ops, n) ==
    Cardinality({k \in state.pc + 1 .. n : program.code[k].op \in ops})
ScanDepth(n) == 1 + CountOf(LoopOpeners, n) - CountOf({"NEXT"}, n)

\* Mutant: the first NEXT, whatever loop it closes.
FirstNext == {n \in state.pc + 1 .. Len(program.code) : program.code[n].op = "NEXT"}

ClosingNexts == {n \in state.pc + 1 .. Len(program.code) : ScanDepth(n) = 0}
First(S) == CHOOSE n \in S : \A k \in S : n <= k

PushLoop(values, start, base) ==
    Done([state EXCEPT
            !.stack = base,
            !.loops = Append(@, [target |-> state.pc + 1, values |-> values,
                                 index |-> 0, start_offset |-> start])])

PyRange ==
    /\ Executing({"RANGE"})
    /\ LET count == Top(1)
           start == Top(2)
       IN  /\ IF count > 0
              THEN PushLoop([i \in 1 .. count |-> start + i - 1], start, Below(2))
              ELSE IF ClosingNexts = {} THEN Raise
              ELSE Done([state EXCEPT !.stack = Below(2),
                                      !.pc = First(ClosingNexts) + 1])
           /\ Note(When(count > 0 /\ start + count \notin Word, "Overflow"))
    /\ KeepHeap

\* The elements from start to end are read one by one: an empty range of
\* indices reads none, wherever it lies.
PyIter ==
    /\ Executing({"ITER"})
    /\ LET end == Top(1)
           start == Top(2)
           readable == \A i \in start .. end - 1 : i + 1 \in DOMAIN Elements(Reg1)
       IN  IF ~IsVec(Reg1) THEN Raise /\ Note({})
           ELSE /\ IF readable
                   THEN PushLoop([i \in 1 .. (IF start < end THEN end - start ELSE 0)
                                    |-> Elements(Reg1)[start + i]], start, Below(2))
                   ELSE Raise
                /\ Note(When(~(0 <= start /\ start <= end /\ end <= Len(Elements(Reg1))),
                             "Slice"))
    /\ KeepHeap

\* advance_loop, and the jump back: where the body is empty the frame's target
\* is this NEXT, the program counter does not move, and step advances it.
PyNext ==
    /\ Executing({"NEXT"})
    /\ IF state.loops = <<>> THEN Raise /\ Note({})
       ELSE IF Frame.index + 1 >= Len(Frame.values)
       THEN /\ Done([state EXCEPT !.loops = SubSeq(@, 1, Len(@) - 1)])
            /\ Note({})
       ELSE /\ Done([state EXCEPT !.loops[Len(state.loops)].index = @ + 1,
                                  !.pc = Frame.target])
            /\ Note(When(Frame.target = state.pc, "EmptyBody"))
    /\ KeepHeap

PyLval ==
    /\ Executing({"LVAL"})
    /\ IF state.loops # <<>> /\ Frame.index < Len(Frame.values)
       THEN SetRegister(PyInt(Frame.values[Frame.index + 1]), state.stack) ELSE Raise
    /\ Note({}) /\ KeepHeap

PyLidx ==
    /\ Executing({"LIDX"})
    /\ IF state.loops # <<>>
       THEN SetRegister(PyInt(Frame.index + Frame.start_offset), state.stack) ELSE Raise
    /\ Note({}) /\ KeepHeap

--------------------------------------------------------------------------
(* Stack, registers and slots.                                            *)

PyStack ==
    /\ Executing(StackOps)
    /\ CASE Instr.op = "PUSH" -> Push(Instr.imm, state.stack)
         [] Instr.op = "COPY" -> Push(Top(1), state.stack)
         [] OTHER ->
              /\ Done([state EXCEPT !.stack =
                         CASE Instr.op = "POP"  -> Below(1)
                           [] Instr.op = "SWAP" -> Below(2) \o <<Top(1), Top(2)>>
                           [] OTHER             -> <<>>])
              /\ Note({})
    /\ KeepHeap

PyLoad ==
    /\ Executing({"LOAD"})
    /\ IF Reg1.tag = "Int" THEN Push(Reg1.int, state.stack) ELSE Raise /\ Note({})
    /\ KeepHeap

PyStow ==
    /\ Executing({"STOW"})
    /\ SetRegister(PyInt(Top(1)), Below(1)) /\ Note({}) /\ KeepHeap

PyDrop ==
    /\ Executing({"DROP"})
    /\ SetRegister(Absent, state.stack) /\ Note({}) /\ KeepHeap

\* A slot nobody set is None; a Vec is the host's object, as earlier
\* instructions of the run left it.
PyInput ==
    /\ Executing({"INPUT"})
    /\ LET value == IF Top(1) + 1 \in DOMAIN state.input THEN state.input[Top(1) + 1]
                                                         ELSE None
       IN  /\ SetRegister(value, Below(1))
           /\ Note(When(value = None, "MissingInput")
                     \cup When(IsVec(value) /\ heap[value.at].changed, "Shared"))
    /\ KeepHeap

\* Any slot number will do, and a Vec is put there itself.
PyOutput ==
    /\ Executing({"OUTPUT"})
    /\ IF Reg1 = Absent THEN Raise
       ELSE Done([state EXCEPT
                    !.stack = Below(1),
                    !.output = [slot \in DOMAIN @ \cup {Top(1)} |->
                                   IF slot = Top(1) THEN Reg1 ELSE @[slot]]])
    /\ Note({}) /\ KeepHeap

--------------------------------------------------------------------------
(* Arithmetic.                                                            *)

\* The exact results; comparisons, Boolean and bitwise operators are the same
\* expressions in both implementations.
PyUnary(op, a) ==
    CASE op = "NEG" -> -a
      [] op = "SQR" -> a * a
      [] op = "ABS" -> Magnitude(a)
      [] op = "INC" -> a + 1
      [] op = "DEC" -> a - 1
      [] OTHER      -> Unary(op, a)

\* Python's // and %, which round towards minus infinity.
FloorQuotient(a, b) == IF b > 0 THEN a \div b ELSE (-a) \div (-b)
PyBinary(op, a, b) ==
    CASE op = "ADD" -> a + b
      [] op = "SUB" -> a - b
      [] op = "MUL" -> a * b
      [] op = "DIV" -> FloorQuotient(a, b)
      [] op = "MOD" -> a - b * FloorQuotient(a, b)
      [] op = "SHL" -> a * 2 ^ b
      [] op = "SHR" -> a \div 2 ^ b
      [] OTHER      -> Binary(op, a, b)

PyUnaryOp ==
    /\ Executing(UnaryOps) /\ Push(PyUnary(Instr.op, Top(1)), Below(1)) /\ KeepHeap

PyArithmetic ==
    /\ Executing(BinaryOps)
    /\ IF \/ Instr.op \in {"DIV", "MOD"} /\ Top(1) = 0
          \/ Instr.op \in {"SHL", "SHR"} /\ Top(1) < 0
       THEN Raise /\ Note({})
       ELSE PushNoting(PyBinary(Instr.op, Top(2), Top(1)), Below(2),
                       When(Instr.op \in {"SHL", "SHR"} /\ Top(1) >= WordBits, "WideShift"))
    /\ KeepHeap

PyIdxGrid ==
    /\ Executing({"IDXGRID"})
    /\ Push(Top(3) * Top(1) + Top(2), Below(3)) /\ KeepHeap

\* The pair is put in order first.  (XqVm computes
\* the product in 64 bits, so one that is no word counts as an overflow.)
PyIdxTriu ==
    /\ Executing({"IDXTRIU"})
    /\ LET i == IF Top(2) <= Top(1) THEN Top(2) ELSE Top(1)
           j == IF Top(2) <= Top(1) THEN Top(1) ELSE Top(2)
       IN  PushNoting((j * (j - 1)) \div 2 + i, Below(2),
                      When(Top(2) > Top(1), "UnsortedPair")
                        \cup When({j * (j - 1), j - 1} \ Word # {}, "Overflow"))
    /\ KeepHeap

--------------------------------------------------------------------------
(* Vectors.                                                               *)

\* The vector in register r may be reached by another way than r: another
\* register, or an output slot.
SharedBy(r) ==
    LET v == state.registers[r] IN
    \/ \E other \in Reg \ {r} : state.registers[other] = v
    \/ \E slot \in DOMAIN state.output : state.output[slot] = v

\* Vec.push of integers: the type of a vector without one becomes int.
Pushed(vec, values) ==
    [vec EXCEPT !.elements = @ \o values, !.kind = "int", !.changed = TRUE]
TakesInts(v) == IsVec(v) /\ heap[v.at].kind # "xqmx"

PyVecNew ==
    /\ Executing({"VEC", "VECI", "VECX"})
    /\ heap' = Append(heap, NewVec(CASE Instr.op = "VECI" -> "int"
                                     [] Instr.op = "VECX" -> "xqmx"
                                     [] OTHER             -> "unset", <<>>))
    /\ SetRegister(Ref(Len(heap) + 1), state.stack)
    /\ Note({})

PyVecPush ==
    /\ Executing({"VECPUSH"})
    /\ IF TakesInts(Reg1)
       THEN /\ heap' = [heap EXCEPT ![Reg1.at] = Pushed(@, <<Top(1)>>)]
            /\ Done([state EXCEPT !.stack = Below(1)])
            /\ Note(When(SharedBy(Instr.r1), "Shared"))
       ELSE Raise /\ Note({}) /\ KeepHeap

PyVecGet ==
    /\ Executing({"VECGET"})
    /\ IF IsVec(Reg1) /\ Top(1) + 1 \in DOMAIN Elements(Reg1)
       THEN Push(Elements(Reg1)[Top(1) + 1], Below(1)) ELSE Raise /\ Note({})
    /\ KeepHeap

PyVecSet ==
    /\ Executing({"VECSET"})
    /\ IF IsVec(Reg1) /\ Top(2) + 1 \in DOMAIN Elements(Reg1)
       THEN /\ heap' = [heap EXCEPT ![Reg1.at].elements[Top(2) + 1] = Top(1),
                                    ![Reg1.at].changed = TRUE]
            /\ Done([state EXCEPT !.stack = Below(2)])
            /\ Note(When(SharedBy(Instr.r1), "Shared"))
       ELSE Raise /\ Note({}) /\ KeepHeap

PyVecLen ==
    /\ Executing({"VECLEN"})
    /\ IF IsVec(Reg1) THEN Push(Len(Elements(Reg1)), state.stack) ELSE Raise /\ Note({})
    /\ KeepHeap

\* Both registers are looked at before anything else, and indices and
\* coefficients are pushed in turns.
PySlack ==
    /\ Executing({"SLACK"})
    /\ LET start == Top(2)
           bits == BitLen(Top(1))
           coeffs == state.registers[Instr.r2]
           index(n) == start + n - 1
           first == Pushed(heap[Reg1.at], <<start>>)
       IN  IF ~IsVec(Reg1) \/ ~IsVec(coeffs)
           THEN Raise /\ KeepHeap /\ Note(When(bits = 0, "SlackRegisters"))
           ELSE IF bits = 0
           THEN Done([state EXCEPT !.stack = Below(2)]) /\ KeepHeap /\ Note({})
           ELSE IF ~TakesInts(Reg1)
           THEN Raise /\ KeepHeap /\ Note({})
           ELSE IF ~TakesInts(coeffs)
           THEN Raise /\ heap' = [heap EXCEPT ![Reg1.at] = first] /\ Note({})
           ELSE /\ heap' =
                     IF coeffs = Reg1
                     THEN [heap EXCEPT ![Reg1.at] = Pushed(@,
                             [n \in 1 .. 2 * bits |->
                                IF n % 2 = 1 THEN index((n + 1) \div 2)
                                             ELSE 2 ^ (n \div 2 - 1)])]
                     ELSE [heap EXCEPT
                             ![Reg1.at] = Pushed(@, [n \in 1 .. bits |-> index(n)]),
                             ![coeffs.at] = Pushed(@, [n \in 1 .. bits |-> 2 ^ (n - 1)])]
                /\ Done([state EXCEPT !.stack = Below(2)])
                /\ Note(When(Instr.r1 = Instr.r2, "SlackRegisters")
                          \cup When(SharedBy(Instr.r1) \/ SharedBy(Instr.r2), "Shared")
                          \cup When(index(bits) \notin Word, "Overflow"))

--------------------------------------------------------------------------
(* The rest of execute's loop.                                            *)

PyLimit ==
    /\ outcome = "running"
    /\ ~state.halted /\ state.pc <= Len(program.code)
    /\ program.limit # 0 /\ state.steps >= program.limit
    /\ outcome' = "limit"
    /\ UNCHANGED <<program, state, heap, unportable>>

\* The end of the program is looked at before the limit.
PyEnd ==
    /\ outcome = "running"
    /\ state.halted \/ state.pc > Len(program.code)
    /\ outcome' = "ok"
    /\ UNCHANGED <<program, state, heap, unportable>>

PyStep ==
    \/ Underflow \/ PyNop \/ PyHalt \/ PyJump \/ PyJumpI
    \/ PyRange \/ PyIter \/ PyNext \/ PyLval \/ PyLidx
    \/ PyStack \/ PyLoad \/ PyStow \/ PyDrop \/ PyInput \/ PyOutput
    \/ PyUnaryOp \/ PyArithmetic \/ PyIdxGrid \/ PyIdxTriu
    \/ PyVecNew \/ PyVecPush \/ PyVecGet \/ PyVecSet \/ PyVecLen \/ PySlack
    \/ PyLimit \/ PyEnd

PyInit ==
    /\ program = [code |-> <<>>, table |-> <<>>, limit |-> 0]
    /\ state = Fresh(<<>>) /\ heap = <<>>
    /\ outcome = "idle" /\ unportable = {}

--------------------------------------------------------------------------
\* The stack holds words and keeps its limit although registers and vectors
\* may hold larger integers, references lead to vectors, and a frame has a
\* current value unless it never had one.
PyTypeOK ==
    /\ state.stack \in Seq(Word) /\ Len(state.stack) <= StackLimit
    /\ \A r \in Reg :
          IsVec(state.registers[r]) => state.registers[r].at \in DOMAIN heap
    /\ \A slot \in DOMAIN state.output :
          IsVec(state.output[slot]) => state.output[slot].at \in DOMAIN heap
    /\ \A k \in DOMAIN state.loops :
          LET f == state.loops[k] IN f.index < Len(f.values) \/ f.values = <<>>
    /\ \A n \in DOMAIN heap : heap[n].kind \in {"xqmx", "unset"} => heap[n].elements = <<>>
=============================================================================
