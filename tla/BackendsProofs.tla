--------------------------- MODULE BackendsProofs ---------------------------
(***************************************************************************)
(* The VM object on both of its backends, for every word width, register   *)
(* file, stack limit, set of programs and whatever a host hands over.      *)
(*                                                                         *)
(* What a host may rely on in the Python VM (PyTypeOK) is inductive only   *)
(* together with the types of its whole state: a reference from an input   *)
(* slot becomes one from a register and then one from an output slot, an   *)
(* element of a vector becomes the value of a frame, and the next run      *)
(* starts with the host's vectors as the last one left them.  BackendsInv  *)
(* adds those to the types of the Rust VM, which runs first on what is     *)
(* copied out of the same vectors, and says that the host's vectors never  *)
(* leave the front of the heap.                                            *)
(***************************************************************************)
EXTENDS Backends, XqVmProofs, Inductions

--------------------------------------------------------------------------
(* What PyVm takes from Isa and Alu is what XqVm takes from them.          *)

LEMMA SameWord == Py!Word = Word
BY DEF Py!Word, Word, Py!MinWord, MinWord, Py!MaxWord, MaxWord, Py!Half, Half

LEMMA SameNeeds == \A op : Py!Needs(op) = Needs(op)
BY DEF Py!Needs, Needs, Py!NeedOne, NeedOne, Py!NeedTwo, NeedTwo, Py!NeedThree,
       NeedThree, Py!UnaryOps, UnaryOps, Py!BinaryOps, BinaryOps

LEMMA SomeBits == ASSUME NEW a \in Word PROVE Py!BitLen(a) \in 0 .. WordBits - 1
<1>1. Py!BitLen(a) = BitLen(a)
  BY DEF Py!BitLen, BitLen, Py!Cardinality, Cardinality
<1> QED BY <1>1, BitLenInWord

--------------------------------------------------------------------------
(* The state of the Python VM.                                             *)

PyVal == [tag : {"None", "Absent"}] \cup [tag : {"Int"}, int : Int]
           \cup [tag : {"Vec"}, at : Nat \ {0}]
PyVec == [kind : {"int", "xqmx", "unset"}, elements : Seq(Int), changed : BOOLEAN]
PyFrame == [target : Nat \ {0}, values : Seq(Int), index : Nat, start_offset : Int]
PySlots == UNION {[S -> PyVal] : S \in SUBSET Int}
MachineState ==
    [pc : Nat \ {0}, stack : Seq(Word), registers : [Reg -> PyVal],
     loops : Seq(PyFrame), input : Seq(PyVal), output : PySlots,
     halted : BOOLEAN, steps : Nat]

\* A reference leads to a vector of heap h, a frame has a current value unless it
\* never had one, and only a vector of integers has elements.
Leads(v, h) == v.tag = "Vec" => v.at \in DOMAIN h
PyFrameOK(f) == f.index < Len(f.values) \/ f.values = <<>>
VecOK(v) == v.kind # "int" => v.elements = <<>>

StateOK(s, h) ==
    /\ s \in MachineState
    /\ Len(s.stack) <= StackLimit
    /\ \A r \in Reg : Leads(s.registers[r], h)
    /\ \A k \in DOMAIN s.input : Leads(s.input[k], h)
    /\ \A slot \in DOMAIN s.output : Leads(s.output[slot], h)
    /\ \A k \in DOMAIN s.loops : PyFrameOK(s.loops[k])
HeapOK(h) == h \in Seq(PyVec) /\ \A n \in DOMAIN h : VecOK(h[n])
ProgramOK(p) == p \in [code : Seq(VmInstr), table : Seq(Nat \ {0}), limit : Nat]

PyInv == StateOK(state, heap) /\ HeapOK(heap) /\ ProgramOK(program)

LEMMA StateFields ==
    ASSUME NEW s \in MachineState
    PROVE  /\ s.pc \in Nat \ {0} /\ s.stack \in Seq(Word) /\ s.registers \in [Reg -> PyVal]
           /\ s.loops \in Seq(PyFrame) /\ s.input \in Seq(PyVal) /\ s.output \in PySlots
           /\ s.halted \in BOOLEAN /\ s.steps \in Nat
BY DEF MachineState

\* The changes handlers make to the state.
LEMMA StackSet ==
    ASSUME NEW s, NEW h, StateOK(s, h),
           NEW base \in Seq(Word), Len(base) <= StackLimit
    PROVE  StateOK([s EXCEPT !.stack = base], h)
BY DEF StateOK, MachineState

LEMMA PcSet ==
    ASSUME NEW s, NEW h, StateOK(s, h), NEW pos \in Nat \ {0},
           NEW base \in Seq(Word), Len(base) <= StackLimit
    PROVE  /\ StateOK([s EXCEPT !.pc = pos, !.stack = base], h)
           /\ StateOK([s EXCEPT !.stack = base, !.pc = pos], h)
BY DEF StateOK, MachineState

LEMMA RegisterWritten ==
    ASSUME NEW s, NEW h, StateOK(s, h), NEW r, NEW v \in PyVal, Leads(v, h),
           NEW base \in Seq(Word), Len(base) <= StackLimit
    PROVE  StateOK([s EXCEPT !.registers[r] = v, !.stack = base], h)
<1>1. [s.registers EXCEPT ![r] = v] \in [Reg -> PyVal]
  BY DEF StateOK, MachineState
<1>2. \A q \in Reg : Leads([s.registers EXCEPT ![r] = v][q], h)
  BY DEF StateOK, MachineState
<1> QED BY <1>1, <1>2 DEF StateOK, MachineState

LEMMA LoopsSet ==
    ASSUME NEW s, NEW h, StateOK(s, h), NEW frames \in Seq(PyFrame),
           \A k \in DOMAIN frames : PyFrameOK(frames[k])
    PROVE  StateOK([s EXCEPT !.loops = frames], h)
BY DEF StateOK, MachineState

LEMMA OutputSet ==
    ASSUME NEW s, NEW h, StateOK(s, h), NEW out \in PySlots,
           \A slot \in DOMAIN out : Leads(out[slot], h)
    PROVE  StateOK([s EXCEPT !.output = out], h)
BY DEF StateOK, MachineState

LEMMA HaltedSet ==
    ASSUME NEW s, NEW h, StateOK(s, h) PROVE StateOK([s EXCEPT !.halted = TRUE], h)
BY DEF StateOK, MachineState

\* The heap only grows, so that references lead where they led.
LEMMA HeapGrown ==
    ASSUME NEW s, NEW h, NEW h2, StateOK(s, h), DOMAIN h \subseteq DOMAIN h2
    PROVE  StateOK(s, h2)
BY DEF StateOK, Leads

LEMMA DoneOK ==
    ASSUME NEW s, StateOK(s, heap'), Py!Done(s)
    PROVE  StateOK(state', heap')
<1>1. state' = Py!Advanced(s)
  BY DEF Py!Done
<1> DEFINE pos == IF s.pc = state.pc /\ ~s.halted THEN s.pc + 1 ELSE s.pc
<1>2. state' = [s EXCEPT !.steps = s.steps + 1, !.pc = pos]
  BY <1>1 DEF Py!Advanced
<1>3. s.steps + 1 \in Nat /\ pos \in Nat \ {0}
  BY StateFields DEF StateOK
<1> HIDE DEF pos
<1> QED BY <1>2, <1>3 DEF StateOK, MachineState

--------------------------------------------------------------------------
(* A step of the Python VM.                                                *)

LEMMA Start ==
    ASSUME PyInv, NEW ops, Py!Executing(ops)
    PROVE  /\ Py!Instr \in VmInstr /\ Py!Instr.op \in ops
           /\ state.pc \in 1 .. Len(program.code)
           /\ Len(state.stack) \in Nat /\ Len(state.stack) >= Needs(Py!Instr.op)
           /\ program' = program
<1>1. program.code \in Seq(VmInstr) /\ Len(program.code) \in Nat
  BY LenProperties DEF PyInv, ProgramOK
<1>2. state.pc \in Nat \ {0} /\ state.stack \in Seq(Word)
  BY StateFields DEF PyInv, StateOK
<1>3. state.pc <= Len(program.code) /\ Len(state.stack) >= Py!Needs(Py!Instr.op)
      /\ Py!Instr.op \in ops /\ program' = program
  BY DEF Py!Executing
<1>4. state.pc \in 1 .. Len(program.code)
  BY <1>1, <1>2, <1>3
<1>5. Py!Instr \in VmInstr
  BY <1>1, <1>4, ElementOfSeq DEF Py!Instr
<1> QED BY <1>2, <1>3, <1>4, <1>5, SameNeeds, LenProperties

LEMMA TopIsWord ==
    ASSUME PyInv, NEW k \in 1 .. Len(state.stack) PROVE Py!Top(k) \in Word
<1>1. state.stack \in Seq(Word) /\ Len(state.stack) \in Nat
  BY StateFields, LenProperties DEF PyInv, StateOK
<1>2. Len(state.stack) - k + 1 \in 1 .. Len(state.stack)
  BY <1>1
<1> QED BY <1>1, <1>2, ElementOfSeq DEF Py!Top

LEMMA BelowIsStack ==
    ASSUME PyInv, NEW n \in 0 .. Len(state.stack)
    PROVE  /\ Py!Below(n) \in Seq(Word) /\ Len(Py!Below(n)) = Len(state.stack) - n
           /\ Len(Py!Below(n)) <= StackLimit
<1>1. /\ state.stack \in Seq(Word) /\ Len(state.stack) \in Nat
      /\ Len(state.stack) <= StackLimit
  BY StateFields, LenProperties DEF PyInv, StateOK
<1>2. Len(state.stack) - n \in 0 .. Len(state.stack)
  BY <1>1
<1>3. Py!Below(n) \in Seq(Word) /\ Len(Py!Below(n)) = Len(state.stack) - n
  BY <1>1, <1>2, Prefix DEF Py!Below
<1> QED BY <1>1, <1>2, <1>3, LimitIsNat

\* What a handler pops is there.
LEMMA Popped ==
    ASSUME PyInv, NEW ops, Py!Executing(ops)
    PROVE  /\ Needs(Py!Instr.op) >= 1 =>
                /\ Py!Top(1) \in Word
                /\ Py!Below(1) \in Seq(Word) /\ Len(Py!Below(1)) <= StackLimit
           /\ Needs(Py!Instr.op) >= 2 =>
                /\ Py!Top(2) \in Word
                /\ Py!Below(2) \in Seq(Word) /\ Len(Py!Below(2)) = Len(state.stack) - 2
                /\ Len(Py!Below(2)) <= StackLimit
           /\ Needs(Py!Instr.op) >= 3 =>
                /\ Py!Top(3) \in Word
                /\ Py!Below(3) \in Seq(Word) /\ Len(Py!Below(3)) <= StackLimit
           /\ state.stack \in Seq(Word) /\ Len(state.stack) <= StackLimit
<1>1. Len(state.stack) \in Nat /\ Len(state.stack) >= Needs(Py!Instr.op)
  BY Start
<1>2. Needs(Py!Instr.op) \in {0, 1, 2, 3}
  BY DEF Needs
<1>3. state.stack \in Seq(Word) /\ Len(state.stack) <= StackLimit
  BY StateFields DEF PyInv, StateOK
<1>4. ASSUME Needs(Py!Instr.op) >= 1
      PROVE  1 \in 1 .. Len(state.stack) /\ 1 \in 0 .. Len(state.stack)
  BY <1>1, <1>2, <1>4
<1>5. ASSUME Needs(Py!Instr.op) >= 2
      PROVE  2 \in 1 .. Len(state.stack) /\ 2 \in 0 .. Len(state.stack)
  BY <1>1, <1>2, <1>5
<1>6. ASSUME Needs(Py!Instr.op) >= 3
      PROVE  3 \in 1 .. Len(state.stack) /\ 3 \in 0 .. Len(state.stack)
  BY <1>1, <1>2, <1>6
<1> QED BY <1>3, <1>4, <1>5, <1>6, TopIsWord, BelowIsStack

\* How a handler ends.
LEMMA Ended ==
    ASSUME PyInv, program' = program, HeapOK(heap'), NEW s, StateOK(s, heap'), Py!Done(s)
    PROVE  PyInv'
<1>1. StateOK(state', heap')
  BY DoneOK
<1> QED BY <1>1 DEF PyInv

LEMMA Raised ==
    ASSUME PyInv, program' = program, HeapOK(heap'), DOMAIN heap \subseteq DOMAIN heap',
           Py!Raise
    PROVE  PyInv'
<1>1. state' = state
  BY DEF Py!Raise
<1>2. StateOK(state, heap')
  BY HeapGrown DEF PyInv
<1> QED BY <1>1, <1>2 DEF PyInv

LEMMA EndedInPlace ==
    ASSUME PyInv, program' = program, heap' = heap, NEW s,
           StateOK(s, heap), Py!Done(s)
    PROVE  PyInv'
<1>1. StateOK(s, heap') /\ HeapOK(heap')
  BY DEF PyInv
<1> QED BY <1>1, Ended

LEMMA RaisedInPlace ==
    ASSUME PyInv, program' = program, heap' = heap, Py!Raise
    PROVE  PyInv'
<1>1. HeapOK(heap') /\ DOMAIN heap \subseteq DOMAIN heap'
  BY DEF PyInv
<1> QED BY <1>1, Raised

LEMMA PushEnds ==
    ASSUME PyInv, program' = program, heap' = heap,
           NEW base \in Seq(Word), Len(base) <= StackLimit, NEW v, NEW reasons,
           Py!PushNoting(v, base, reasons)
    PROVE  PyInv'
<1>1. CASE Len(base) >= StackLimit \/ v \notin Py!Word
  <2>1. Py!Raise
    BY <1>1 DEF Py!PushNoting
  <2> QED BY <2>1, RaisedInPlace
<1>2. CASE ~(Len(base) >= StackLimit \/ v \notin Py!Word)
  <2>1. v \in Word /\ Len(base) \in Nat /\ Len(base) < StackLimit
    BY <1>2, SameWord, LimitIsNat, LenProperties
  <2>2. Append(base, v) \in Seq(Word) /\ Len(Append(base, v)) <= StackLimit
    BY <2>1, AppendWord, LimitIsNat
  <2>3. StateOK([state EXCEPT !.stack = Append(base, v)], heap)
    BY <2>2, StackSet DEF PyInv
  <2>4. Py!Done([state EXCEPT !.stack = Append(base, v)])
    BY <1>2 DEF Py!PushNoting
  <2> QED BY <2>3, <2>4, EndedInPlace
<1> QED BY <1>1, <1>2

--------------------------------------------------------------------------
(* Control flow.                                                           *)

LEMMA PyUnderflowOK == ASSUME PyInv, Py!Underflow PROVE PyInv'
<1>1. Py!Raise /\ heap' = heap /\ program' = program
  BY DEF Py!Underflow, Py!KeepHeap
<1> QED BY <1>1, RaisedInPlace

LEMMA PyEndsOK == ASSUME PyInv, Py!PyLimit \/ Py!PyEnd PROVE PyInv'
<1>1. state' = state /\ heap' = heap /\ program' = program
  BY DEF Py!PyLimit, Py!PyEnd
<1> QED BY <1>1 DEF PyInv

LEMMA PyNopOK == ASSUME PyInv, Py!PyNop PROVE PyInv'
<1>1. Py!Executing({"NOP", "TARGET"}) /\ Py!Done(state) /\ heap' = heap
  BY DEF Py!PyNop, Py!KeepHeap
<1>2. StateOK(state, heap)
  BY DEF PyInv
<1> QED BY <1>1, <1>2, Start, EndedInPlace

LEMMA PyHaltOK == ASSUME PyInv, Py!PyHalt PROVE PyInv'
<1>1. Py!Executing({"HALT"}) /\ Py!Done([state EXCEPT !.halted = TRUE]) /\ heap' = heap
  BY DEF Py!PyHalt, Py!KeepHeap
<1>2. StateOK([state EXCEPT !.halted = TRUE], heap)
  BY HaltedSet DEF PyInv
<1> QED BY <1>1, <1>2, Start, EndedInPlace

LEMMA PyJumped ==
    ASSUME PyInv, program' = program, heap' = heap, NEW label,
           NEW base \in Seq(Word), Len(base) <= StackLimit, Py!JumpTo(label, base)
    PROVE  PyInv'
<1>1. CASE label + 1 \in DOMAIN program.table
  <2>1. program.table \in Seq(Nat \ {0})
    BY DEF PyInv, ProgramOK
  <2>2. program.table[label + 1] \in Nat \ {0}
    BY <1>1, <2>1, ElementOfSeq, LenProperties
  <2>3. StateOK([state EXCEPT !.pc = program.table[label + 1], !.stack = base], heap)
    BY <2>2, PcSet DEF PyInv
  <2>4. Py!Done([state EXCEPT !.pc = program.table[label + 1], !.stack = base])
    BY <1>1 DEF Py!JumpTo
  <2> QED BY <2>3, <2>4, EndedInPlace
<1>2. CASE label + 1 \notin DOMAIN program.table
  <2>1. Py!Raise
    BY <1>2 DEF Py!JumpTo
  <2> QED BY <2>1, RaisedInPlace
<1> QED BY <1>1, <1>2

LEMMA PyJumpOK == ASSUME PyInv, Py!PyJump PROVE PyInv'
<1>1. Py!Executing({"JUMP"}) /\ Py!JumpTo(Py!Instr.imm, state.stack) /\ heap' = heap
  BY DEF Py!PyJump, Py!KeepHeap
<1> QED BY <1>1, Start, Popped, PyJumped

LEMMA StackOnly ==
    ASSUME PyInv, program' = program, heap' = heap,
           NEW base \in Seq(Word), Len(base) <= StackLimit,
           Py!Done([state EXCEPT !.stack = base])
    PROVE  PyInv'
<1>1. StateOK([state EXCEPT !.stack = base], heap)
  BY StackSet DEF PyInv
<1> QED BY <1>1, EndedInPlace

LEMMA PyJumpIOK == ASSUME PyInv, Py!PyJumpI PROVE PyInv'
<1>1. Py!Executing({"JUMPI"}) /\ heap' = heap
  BY DEF Py!PyJumpI, Py!KeepHeap
<1>2. Py!Instr.op = "JUMPI" /\ program' = program
  BY <1>1, Start
<1>3. Py!Below(1) \in Seq(Word) /\ Len(Py!Below(1)) <= StackLimit
  BY <1>1, <1>2, Popped, NeedsOf DEF Needs, NeedOne
<1>4. \/ Py!JumpTo(Py!Instr.imm, Py!Below(1))
      \/ Py!Done([state EXCEPT !.stack = Py!Below(1)])
  BY DEF Py!PyJumpI
<1> QED BY <1>1, <1>2, <1>3, <1>4, PyJumped, StackOnly

--------------------------------------------------------------------------
(* Stack, registers and slots.                                             *)

LEMMA PyStackOK == ASSUME PyInv, Py!PyStack PROVE PyInv'
<1>1. Py!Executing(Py!StackOps) /\ heap' = heap
  BY DEF Py!PyStack, Py!KeepHeap
<1>2. /\ Py!Instr.op \in {"PUSH", "POP", "COPY", "SWAP", "SCLR"} /\ program' = program
      /\ state.stack \in Seq(Word) /\ Len(state.stack) <= StackLimit
  BY <1>1, Start, Popped DEF Py!StackOps
<1>3. CASE Py!Instr.op = "PUSH"
  <2>1. Py!PushNoting(Py!Instr.imm, state.stack, {})
    BY <1>3 DEF Py!PyStack, Py!Push
  <2> QED BY <1>1, <1>2, <2>1, PushEnds
<1>4. CASE Py!Instr.op = "COPY"
  <2>1. Py!PushNoting(Py!Top(1), state.stack, {})
    BY <1>4 DEF Py!PyStack, Py!Push
  <2> QED BY <1>1, <1>2, <2>1, PushEnds
<1>5. CASE Py!Instr.op = "POP"
  <2>1. Py!Done([state EXCEPT !.stack = Py!Below(1)])
    BY <1>5 DEF Py!PyStack
  <2>2. Needs(Py!Instr.op) >= 1
    BY <1>5 DEF Needs, NeedOne
  <2> QED BY <1>1, <1>2, <2>1, <2>2, Popped, StackOnly
<1>6. CASE Py!Instr.op = "SWAP"
  <2> DEFINE base == Py!Below(2) \o <<Py!Top(1), Py!Top(2)>>
  <2>1. Py!Done([state EXCEPT !.stack = base])
    BY <1>6 DEF Py!PyStack
  <2>2. Needs(Py!Instr.op) = 2
    BY <1>6 DEF Needs, NeedOne, NeedTwo, UnaryOps
  <2>3. /\ Py!Below(2) \in Seq(Word) /\ Len(Py!Below(2)) = Len(state.stack) - 2
        /\ Py!Top(1) \in Word /\ Py!Top(2) \in Word
    BY <1>1, <2>2, Popped
  <2>4. <<Py!Top(1), Py!Top(2)>> \in Seq(Word) /\ Len(<<Py!Top(1), Py!Top(2)>>) = 2
    BY <2>3
  <2>5. base \in Seq(Word) /\ Len(base) = Len(Py!Below(2)) + 2
    BY <2>3, <2>4, ConcatProperties
  <2>6. Len(base) <= StackLimit
    BY <1>2, <2>3, <2>5, LenProperties
  <2> HIDE DEF base
  <2> QED BY <1>1, <1>2, <2>1, <2>5, <2>6, StackOnly
<1>7. CASE Py!Instr.op = "SCLR"
  <2>1. Py!Done([state EXCEPT !.stack = <<>>])
    BY <1>7 DEF Py!PyStack
  <2>2. <<>> \in Seq(Word) /\ Len(<<>>) <= StackLimit
    BY LimitIsNat
  <2> QED BY <1>1, <1>2, <2>1, <2>2, StackOnly
<1> QED BY <1>2, <1>3, <1>4, <1>5, <1>6, <1>7

LEMMA RegisterIs ==
    ASSUME PyInv, NEW ops, Py!Executing(ops)
    PROVE  Py!Reg1 \in PyVal /\ Leads(Py!Reg1, heap) /\ Py!Instr.r1 \in Reg
<1>1. Py!Instr.r1 \in Reg
  BY Start DEF VmInstr
<1>2. state.registers \in [Reg -> PyVal] /\ Leads(state.registers[Py!Instr.r1], heap)
  BY <1>1, StateFields DEF PyInv, StateOK
<1> QED BY <1>1, <1>2 DEF Py!Reg1

LEMMA RegisterEnds ==
    ASSUME PyInv, program' = program, HeapOK(heap'), DOMAIN heap \subseteq DOMAIN heap',
           NEW v \in PyVal, Leads(v, heap'),
           NEW base \in Seq(Word), Len(base) <= StackLimit, Py!SetRegister(v, base)
    PROVE  PyInv'
<1>1. StateOK(state, heap')
  BY HeapGrown DEF PyInv
<1>2. StateOK([state EXCEPT !.registers[Py!Instr.r1] = v, !.stack = base], heap')
  BY <1>1, RegisterWritten
<1>3. Py!Done([state EXCEPT !.registers[Py!Instr.r1] = v, !.stack = base])
  BY DEF Py!SetRegister
<1> QED BY <1>2, <1>3, Ended

LEMMA RegisterEndsInPlace ==
    ASSUME PyInv, program' = program, heap' = heap, NEW v \in PyVal, Leads(v, heap),
           NEW base \in Seq(Word), Len(base) <= StackLimit, Py!SetRegister(v, base)
    PROVE  PyInv'
<1>1. HeapOK(heap') /\ DOMAIN heap \subseteq DOMAIN heap' /\ Leads(v, heap')
  BY DEF PyInv
<1> QED BY <1>1, RegisterEnds

LEMMA Scalars ==
    /\ \A i \in Int : Py!PyInt(i) \in PyVal /\ \A h : Leads(Py!PyInt(i), h)
    /\ Py!Absent \in PyVal /\ \A h : Leads(Py!Absent, h)
    /\ Py!None \in PyVal /\ \A h : Leads(Py!None, h)
    /\ \A n \in Nat \ {0} : Py!Ref(n) \in PyVal
BY DEF PyVal, Leads, Py!PyInt, Py!Absent, Py!None, Py!Ref

LEMMA WordsAreInts == Word \subseteq Int
BY WordIsInterval

LEMMA PyLoadOK == ASSUME PyInv, Py!PyLoad PROVE PyInv'
<1>1. Py!Executing({"LOAD"}) /\ heap' = heap
  BY DEF Py!PyLoad, Py!KeepHeap
<1>2. /\ program' = program
      /\ state.stack \in Seq(Word) /\ Len(state.stack) <= StackLimit
  BY <1>1, Start, Popped
<1>3. Py!PushNoting(Py!Reg1.int, state.stack, {}) \/ Py!Raise
  BY DEF Py!PyLoad, Py!Push
<1> QED BY <1>1, <1>2, <1>3, PushEnds, RaisedInPlace

LEMMA PyStowOK == ASSUME PyInv, Py!PyStow PROVE PyInv'
<1>1. Py!Executing({"STOW"}) /\ heap' = heap /\ Py!SetRegister(Py!PyInt(Py!Top(1)), Py!Below(1))
  BY DEF Py!PyStow, Py!KeepHeap
<1>2. Py!Instr.op = "STOW" /\ program' = program
  BY <1>1, Start
<1>3. Needs(Py!Instr.op) >= 1
  BY <1>2 DEF Needs, NeedOne
<1>4. Py!Top(1) \in Int /\ Py!Below(1) \in Seq(Word) /\ Len(Py!Below(1)) <= StackLimit
  BY <1>1, <1>3, Popped, WordsAreInts
<1> QED BY <1>1, <1>2, <1>4, Scalars, RegisterEndsInPlace

LEMMA PyDropOK == ASSUME PyInv, Py!PyDrop PROVE PyInv'
<1>1. Py!Executing({"DROP"}) /\ heap' = heap /\ Py!SetRegister(Py!Absent, state.stack)
  BY DEF Py!PyDrop, Py!KeepHeap
<1> QED BY <1>1, Start, Popped, Scalars, RegisterEndsInPlace

LEMMA PyInputOK == ASSUME PyInv, Py!PyInput PROVE PyInv'
<1> DEFINE value == IF Py!Top(1) + 1 \in DOMAIN state.input
                    THEN state.input[Py!Top(1) + 1] ELSE Py!None
<1>1. Py!Executing({"INPUT"}) /\ heap' = heap /\ Py!SetRegister(value, Py!Below(1))
  BY DEF Py!PyInput, Py!KeepHeap
<1>2. Py!Instr.op = "INPUT" /\ program' = program
  BY <1>1, Start
<1>3. Needs(Py!Instr.op) >= 1
  BY <1>2 DEF Needs, NeedOne
<1>4. Py!Below(1) \in Seq(Word) /\ Len(Py!Below(1)) <= StackLimit
  BY <1>1, <1>3, Popped
<1>5. value \in PyVal /\ Leads(value, heap)
  <2>1. state.input \in Seq(PyVal) /\ \A k \in DOMAIN state.input : Leads(state.input[k], heap)
    BY StateFields DEF PyInv, StateOK
  <2>2. \A k \in DOMAIN state.input : state.input[k] \in PyVal
    BY <2>1, ElementOfSeq, LenProperties
  <2> QED BY <2>1, <2>2, Scalars
<1> HIDE DEF value
<1> QED BY <1>1, <1>2, <1>4, <1>5, RegisterEndsInPlace

LEMMA PyOutputOK == ASSUME PyInv, Py!PyOutput PROVE PyInv'
<1>1. Py!Executing({"OUTPUT"}) /\ heap' = heap
  BY DEF Py!PyOutput, Py!KeepHeap
<1>2. Py!Instr.op = "OUTPUT" /\ program' = program
  BY <1>1, Start
<1>3. Needs(Py!Instr.op) >= 1
  BY <1>2 DEF Needs, NeedOne
<1>4. Py!Top(1) \in Int /\ Py!Below(1) \in Seq(Word) /\ Len(Py!Below(1)) <= StackLimit
  BY <1>1, <1>3, Popped, WordsAreInts
<1>5. CASE Py!Reg1 = Py!Absent
  <2>1. Py!Raise
    BY <1>5 DEF Py!PyOutput
  <2> QED BY <1>1, <1>2, <2>1, RaisedInPlace
<1>6. CASE Py!Reg1 # Py!Absent
  <2> DEFINE out == [slot \in DOMAIN state.output \cup {Py!Top(1)} |->
                        IF slot = Py!Top(1) THEN Py!Reg1 ELSE state.output[slot]]
             popped == [state EXCEPT !.stack = Py!Below(1)]
  <2>1. StateOK(popped, heap) /\ popped.output = state.output
    BY <1>4, StackSet DEF PyInv, StateOK, MachineState
  <2>2. Py!Done([popped EXCEPT !.output = out])
    BY <1>6, <2>1 DEF Py!PyOutput
  <2>3. Py!Reg1 \in PyVal /\ Leads(Py!Reg1, heap)
    BY <1>1, RegisterIs
  <2>4. /\ state.output \in PySlots
        /\ \A slot \in DOMAIN state.output : Leads(state.output[slot], heap)
    BY StateFields DEF PyInv, StateOK
  <2>5. PICK S \in SUBSET Int : state.output \in [S -> PyVal]
    BY <2>4 DEF PySlots
  <2>6. out \in [S \cup {Py!Top(1)} -> PyVal] /\ S \cup {Py!Top(1)} \in SUBSET Int
    BY <1>4, <2>3, <2>5
  <2>7. \A slot \in DOMAIN out : Leads(out[slot], heap)
    BY <2>3, <2>4
  <2>8. out \in PySlots
    BY <2>6 DEF PySlots
  <2> HIDE DEF out, popped
  <2>9. StateOK([popped EXCEPT !.output = out], heap)
    BY <2>1, <2>7, <2>8, OutputSet
  <2> QED BY <1>1, <1>2, <2>2, <2>9, EndedInPlace
<1> QED BY <1>5, <1>6

--------------------------------------------------------------------------
(* Arithmetic: whatever a handler computes, push lets only words through.  *)

LEMMA OperatorsNeed ==
    /\ \A op \in UnaryOps : Needs(op) >= 1
    /\ \A op \in BinaryOps : Needs(op) >= 2
<1>1. ASSUME NEW op \in UnaryOps PROVE Needs(op) >= 1
  <2>1. Needs(op) = 1
    BY NeedsOf, Zenon
  <2> QED BY <2>1
<1>2. ASSUME NEW op \in BinaryOps PROVE Needs(op) >= 2
  <2>1. Needs(op) = 2
    BY NeedsOf, Zenon
  <2> QED BY <2>1
<1> QED BY <1>1, <1>2

LEMMA PyUnaryOpOK == ASSUME PyInv, Py!PyUnaryOp PROVE PyInv'
<1>1. /\ Py!Executing(Py!UnaryOps) /\ heap' = heap
      /\ Py!PushNoting(Py!PyUnary(Py!Instr.op, Py!Top(1)), Py!Below(1), {})
  BY DEF Py!PyUnaryOp, Py!KeepHeap, Py!Push
<1>2. Py!Instr.op \in UnaryOps /\ program' = program
  BY <1>1, Start DEF Py!UnaryOps, UnaryOps
<1>3. Needs(Py!Instr.op) >= 1
  BY <1>2, OperatorsNeed
<1> QED BY <1>1, <1>2, <1>3, Popped, PushEnds

LEMMA PyArithmeticOK == ASSUME PyInv, Py!PyArithmetic PROVE PyInv'
<1>1. Py!Executing(Py!BinaryOps) /\ heap' = heap
  BY DEF Py!PyArithmetic, Py!KeepHeap
<1>2. Py!Instr.op \in BinaryOps /\ program' = program
  BY <1>1, Start DEF Py!BinaryOps, BinaryOps
<1>3. Needs(Py!Instr.op) >= 2
  BY <1>2, OperatorsNeed
<1>4. \/ Py!Raise
      \/ \E v, reasons : Py!PushNoting(v, Py!Below(2), reasons)
  BY DEF Py!PyArithmetic
<1> QED BY <1>1, <1>2, <1>3, <1>4, Popped, PushEnds, RaisedInPlace

LEMMA PyIndexOK == ASSUME PyInv, Py!PyIdxGrid \/ Py!PyIdxTriu PROVE PyInv'
<1>1. CASE Py!PyIdxGrid
  <2>1. /\ Py!Executing({"IDXGRID"}) /\ heap' = heap
        /\ \E v : Py!PushNoting(v, Py!Below(3), {})
    BY <1>1 DEF Py!PyIdxGrid, Py!KeepHeap, Py!Push
  <2>2. Py!Instr.op = "IDXGRID" /\ program' = program
    BY <2>1, Start
  <2>3. Needs(Py!Instr.op) >= 3
    BY <2>2, NeedsOf
  <2> QED BY <2>1, <2>2, <2>3, Popped, PushEnds
<1>2. CASE Py!PyIdxTriu
  <2>1. /\ Py!Executing({"IDXTRIU"}) /\ heap' = heap
        /\ \E v, reasons : Py!PushNoting(v, Py!Below(2), reasons)
    BY <1>2 DEF Py!PyIdxTriu, Py!KeepHeap
  <2>2. Py!Instr.op = "IDXTRIU" /\ program' = program
    BY <2>1, Start
  <2>3. Needs(Py!Instr.op) >= 2
    BY <2>2, NeedsOf
  <2> QED BY <2>1, <2>2, <2>3, Popped, PushEnds
<1> QED BY <1>1, <1>2

--------------------------------------------------------------------------
(* Vectors.                                                                *)

LEMMA HeapIsSeq ==
    ASSUME NEW h, HeapOK(h)
    PROVE  /\ Len(h) \in Nat /\ DOMAIN h = 1 .. Len(h)
           /\ \A n \in DOMAIN h : h[n] \in PyVec /\ VecOK(h[n])
BY LenProperties, ElementOfSeq DEF HeapOK

LEMMA VecChanged ==
    ASSUME NEW h, HeapOK(h), NEW n \in DOMAIN h, NEW v \in PyVec, VecOK(v)
    PROVE  HeapOK([h EXCEPT ![n] = v]) /\ DOMAIN [h EXCEPT ![n] = v] = DOMAIN h
<1>1. h \in Seq(PyVec) /\ n \in 1 .. Len(h)
  BY HeapIsSeq DEF HeapOK
<1>2. [h EXCEPT ![n] = v] \in Seq(PyVec)
  BY <1>1, ExceptSeq
<1> QED BY <1>2, HeapIsSeq DEF HeapOK

LEMMA VecFields ==
    ASSUME NEW v \in PyVec
    PROVE  /\ v.kind \in {"int", "xqmx", "unset"} /\ v.elements \in Seq(Int)
           /\ v.changed \in BOOLEAN
BY DEF PyVec

LEMMA PushedIsVec ==
    ASSUME NEW v \in PyVec, NEW values \in Seq(Int)
    PROVE  Py!Pushed(v, values) \in PyVec /\ VecOK(Py!Pushed(v, values))
<1>1. v.elements \o values \in Seq(Int)
  BY VecFields, ConcatProperties
<1> QED BY <1>1 DEF Py!Pushed, PyVec, VecOK

\* A vector a register refers to.
LEMMA VecOfRegister ==
    ASSUME PyInv, NEW r \in Reg, Py!IsVec(state.registers[r])
    PROVE  /\ state.registers[r].at \in DOMAIN heap
           /\ heap[state.registers[r].at] \in PyVec
           /\ VecOK(heap[state.registers[r].at])
<1>1. Leads(state.registers[r], heap)
  BY DEF PyInv, StateOK
<1>2. state.registers[r].at \in DOMAIN heap
  BY <1>1 DEF Leads, Py!IsVec
<1> QED BY <1>2, HeapIsSeq DEF PyInv

LEMMA PyVecNewOK == ASSUME PyInv, Py!PyVecNew PROVE PyInv'
<1> DEFINE kind == CASE Py!Instr.op = "VECI" -> "int"
                     [] Py!Instr.op = "VECX" -> "xqmx"
                     [] OTHER                -> "unset"
           vec == Py!NewVec(kind, <<>>)
<1>1. /\ Py!Executing({"VEC", "VECI", "VECX"}) /\ heap' = Append(heap, vec)
      /\ Py!SetRegister(Py!Ref(Len(heap) + 1), state.stack)
  BY DEF Py!PyVecNew
<1>2. vec \in PyVec /\ VecOK(vec)
  <2>1. kind \in {"int", "xqmx", "unset"}
    OBVIOUS
  <2> HIDE DEF kind
  <2> QED BY <2>1 DEF Py!NewVec, PyVec, VecOK
<1> HIDE DEF vec
<1>3. heap \in Seq(PyVec) /\ Len(heap) \in Nat /\ DOMAIN heap = 1 .. Len(heap)
  BY HeapIsSeq DEF PyInv, HeapOK
<1>4. /\ Append(heap, vec) \in Seq(PyVec)
      /\ Len(Append(heap, vec)) = Len(heap) + 1
      /\ \A n \in 1 .. Len(heap) : Append(heap, vec)[n] = heap[n]
      /\ Append(heap, vec)[Len(heap) + 1] = vec
  BY <1>2, <1>3, AppendProperties
<1>5. DOMAIN Append(heap, vec) = 1 .. Len(heap) + 1
  BY <1>4, LenProperties
<1>6. /\ HeapOK(heap') /\ DOMAIN heap \subseteq DOMAIN heap'
      /\ Len(heap) + 1 \in Nat \ {0} /\ Len(heap) + 1 \in DOMAIN heap'
  <2>1. \A n \in 1 .. Len(heap) : VecOK(heap[n])
    BY <1>3, HeapIsSeq DEF PyInv
  <2>2. \A n \in 1 .. Len(heap) + 1 : n \in 1 .. Len(heap) \/ n = Len(heap) + 1
    BY <1>3
  <2>3. \A n \in DOMAIN heap' : VecOK(heap'[n])
    BY <1>1, <1>2, <1>4, <1>5, <2>1, <2>2
  <2>4. HeapOK(heap')
    BY <1>1, <1>4, <2>3 DEF HeapOK
  <2> QED BY <1>1, <1>3, <1>5, <2>4
<1>7. Leads(Py!Ref(Len(heap) + 1), heap')
  BY <1>6 DEF Leads, Py!Ref
<1> QED BY <1>1, <1>6, <1>7, Start, Popped, Scalars, RegisterEnds

\* One vector is changed, and operands are popped.
LEMMA VecEnds ==
    ASSUME PyInv, program' = program, NEW n \in DOMAIN heap,
           NEW v \in PyVec, VecOK(v), heap' = [heap EXCEPT ![n] = v]
    PROVE  /\ \A base \in Seq(Word) :
                 Len(base) <= StackLimit /\ Py!Done([state EXCEPT !.stack = base]) => PyInv'
           /\ Py!Raise => PyInv'
<1>1. HeapOK(heap') /\ DOMAIN heap' = DOMAIN heap
  BY VecChanged DEF PyInv
<1>2. StateOK(state, heap')
  BY <1>1, HeapGrown DEF PyInv
<1>3. ASSUME NEW base \in Seq(Word), Len(base) <= StackLimit,
             Py!Done([state EXCEPT !.stack = base])
      PROVE  PyInv'
  <2>1. StateOK([state EXCEPT !.stack = base], heap')
    BY <1>2, <1>3, StackSet
  <2> QED BY <1>1, <1>3, <2>1, Ended
<1> QED BY <1>1, <1>3, Raised

LEMMA PyVecPushOK == ASSUME PyInv, Py!PyVecPush PROVE PyInv'
<1>1. Py!Executing({"VECPUSH"})
  BY DEF Py!PyVecPush
<1>2. Py!Instr.op = "VECPUSH" /\ program' = program /\ Py!Instr.r1 \in Reg
  BY <1>1, Start, RegisterIs
<1>3. Needs(Py!Instr.op) >= 1
  BY <1>2, NeedsOf
<1>4. Py!Top(1) \in Int /\ Py!Below(1) \in Seq(Word) /\ Len(Py!Below(1)) <= StackLimit
  BY <1>1, <1>3, Popped, WordsAreInts
<1>5. CASE Py!TakesInts(Py!Reg1)
  <2>1. /\ heap' = [heap EXCEPT ![Py!Reg1.at] = Py!Pushed(heap[Py!Reg1.at], <<Py!Top(1)>>)]
        /\ Py!Done([state EXCEPT !.stack = Py!Below(1)])
    BY <1>5 DEF Py!PyVecPush
  <2>2. Py!Reg1.at \in DOMAIN heap /\ heap[Py!Reg1.at] \in PyVec
    BY <1>2, <1>5, VecOfRegister DEF Py!TakesInts, Py!Reg1
  <2>3. <<Py!Top(1)>> \in Seq(Int)
    BY <1>4
  <2> QED BY <1>2, <1>4, <2>1, <2>2, <2>3, PushedIsVec, VecEnds
<1>6. CASE ~Py!TakesInts(Py!Reg1)
  <2>1. Py!Raise /\ heap' = heap
    BY <1>6 DEF Py!PyVecPush, Py!KeepHeap
  <2> QED BY <1>2, <2>1, RaisedInPlace
<1> QED BY <1>5, <1>6

LEMMA PyVecReadOK == ASSUME PyInv, Py!PyVecGet \/ Py!PyVecLen PROVE PyInv'
<1>1. CASE Py!PyVecGet
  <2>1. /\ Py!Executing({"VECGET"}) /\ heap' = heap
        /\ Py!Raise \/ \E v : Py!PushNoting(v, Py!Below(1), {})
    BY <1>1 DEF Py!PyVecGet, Py!KeepHeap, Py!Push
  <2>2. Py!Instr.op = "VECGET" /\ program' = program
    BY <2>1, Start
  <2>3. Needs(Py!Instr.op) >= 1
    BY <2>2, NeedsOf
  <2> QED BY <2>1, <2>2, <2>3, Popped, PushEnds, RaisedInPlace
<1>2. CASE Py!PyVecLen
  <2>1. /\ Py!Executing({"VECLEN"}) /\ heap' = heap
        /\ Py!Raise \/ \E v : Py!PushNoting(v, state.stack, {})
    BY <1>2 DEF Py!PyVecLen, Py!KeepHeap, Py!Push
  <2> QED BY <2>1, Start, Popped, PushEnds, RaisedInPlace
<1> QED BY <1>1, <1>2

LEMMA PyVecSetOK == ASSUME PyInv, Py!PyVecSet PROVE PyInv'
<1>1. Py!Executing({"VECSET"})
  BY DEF Py!PyVecSet
<1>2. Py!Instr.op = "VECSET" /\ program' = program /\ Py!Instr.r1 \in Reg
  BY <1>1, Start, RegisterIs
<1>3. Needs(Py!Instr.op) = 2
  BY <1>2, NeedsOf
<1>4. Py!Top(1) \in Int /\ Py!Below(2) \in Seq(Word) /\ Len(Py!Below(2)) <= StackLimit
  <2>1. Py!Top(1) \in Word /\ Py!Below(2) \in Seq(Word) /\ Len(Py!Below(2)) <= StackLimit
    BY <1>1, <1>3, Popped
  <2> QED BY <2>1, WordsAreInts
<1> DEFINE n == Py!Reg1.at
           i == Py!Top(2) + 1
<1>5. CASE Py!IsVec(Py!Reg1) /\ i \in DOMAIN Py!Elements(Py!Reg1)
  <2>1. /\ heap' = [heap EXCEPT ![n].elements[i] = Py!Top(1), ![n].changed = TRUE]
        /\ Py!Done([state EXCEPT !.stack = Py!Below(2)])
    BY <1>5 DEF Py!PyVecSet
  <2>2. n \in DOMAIN heap /\ heap[n] \in PyVec /\ VecOK(heap[n])
    BY <1>2, <1>5, VecOfRegister DEF Py!Reg1
  <2>3. i \in DOMAIN heap[n].elements
    BY <1>5 DEF Py!Elements
  <2> HIDE DEF n, i
  <2> DEFINE v == [heap[n] EXCEPT !.elements = [heap[n].elements EXCEPT ![i] = Py!Top(1)],
                                  !.changed = TRUE]
  <2>4. heap[n].elements \in Seq(Int) /\ heap[n].kind = "int"
    BY <2>2, <2>3, VecFields DEF VecOK
  <2>5. [heap[n].elements EXCEPT ![i] = Py!Top(1)] \in Seq(Int)
    BY <1>4, <2>3, <2>4, ExceptSeq, LenProperties
  <2>6. v \in PyVec /\ VecOK(v)
    BY <2>2, <2>4, <2>5 DEF PyVec, VecOK
  <2>7. heap' = [heap EXCEPT ![n] = v]
    BY <2>1, <2>2
  <2> HIDE DEF v
  <2> QED BY <1>2, <1>4, <2>1, <2>2, <2>6, <2>7, VecEnds
<1>6. CASE ~(Py!IsVec(Py!Reg1) /\ i \in DOMAIN Py!Elements(Py!Reg1))
  <2>1. Py!Raise /\ heap' = heap
    BY <1>6 DEF Py!PyVecSet, Py!KeepHeap
  <2> QED BY <1>2, <2>1, RaisedInPlace
<1> QED BY <1>5, <1>6

LEMMA IntSeq ==
    ASSUME NEW n \in Nat, NEW f \in [1 .. n -> Int] PROVE f \in Seq(Int)
BY SeqDef

\* The weights of the bits of a word.
LEMMA Weights ==
    ASSUME NEW bits \in 0 .. WordBits - 1
    PROVE  [n \in 1 .. bits |-> 2 ^ (n - 1)] \in Seq(Int)
<1>1. bits \in Nat
  BY WordAssumption
<1>2. ASSUME NEW n \in 1 .. bits PROVE 2 ^ (n - 1) \in Int
  <2>1. n - 1 \in 0 .. WordBits
    BY WordAssumption
  <2> QED BY <2>1, PowerOfBit
<1> QED BY <1>1, <1>2, IntSeq

\* Indices and weights in turns.
LEMMA IndicesAndWeights ==
    ASSUME NEW bits \in 0 .. WordBits - 1, NEW start \in Int
    PROVE  [n \in 1 .. 2 * bits |->
               IF n % 2 = 1 THEN start + (n + 1) \div 2 - 1 ELSE 2 ^ (n \div 2 - 1)]
             \in Seq(Int)
<1>1. bits \in Nat /\ 2 * bits \in Nat
  BY WordAssumption
<1>2. ASSUME NEW n \in 1 .. 2 * bits
      PROVE  (IF n % 2 = 1 THEN start + (n + 1) \div 2 - 1 ELSE 2 ^ (n \div 2 - 1)) \in Int
  <2>1. CASE n % 2 = 1
    <3>1. (n + 1) \div 2 \in Int
      BY <1>1
    <3> QED BY <2>1, <3>1
  <2>2. CASE n % 2 # 1
    <3>1. n \div 2 - 1 \in 0 .. WordBits
      BY <1>1, <2>2, WordAssumption
    <3>2. 2 ^ (n \div 2 - 1) \in Int
      BY <3>1, PowerOfBit
    <3> QED BY <2>2, <3>2
  <2> QED BY <2>1, <2>2
<1> QED BY <1>1, <1>2, IntSeq

LEMMA PySlackOK == ASSUME PyInv, Py!PySlack PROVE PyInv'
<1> DEFINE r1 == Py!Instr.r1
           coeffs == state.registers[Py!Instr.r2]
           start == Py!Top(2)
           bits == Py!BitLen(Py!Top(1))
           n == Py!Reg1.at
           c == coeffs.at
           first == Py!Pushed(heap[n], <<start>>)
           indices == [k \in 1 .. bits |-> start + k - 1]
           weights == [k \in 1 .. bits |-> 2 ^ (k - 1)]
           turns == [k \in 1 .. 2 * bits |->
                       IF k % 2 = 1 THEN start + (k + 1) \div 2 - 1 ELSE 2 ^ (k \div 2 - 1)]
<1>1. Py!Executing({"SLACK"})
  BY DEF Py!PySlack
<1>2. /\ Py!Instr.op = "SLACK" /\ program' = program
      /\ r1 \in Reg /\ Py!Instr.r2 \in Reg
  BY <1>1, Start DEF VmInstr
<1>3. Needs(Py!Instr.op) = 2
  BY <1>2, NeedsOf
<1>4. /\ start \in Int /\ bits \in 0 .. WordBits - 1
      /\ Py!Below(2) \in Seq(Word) /\ Len(Py!Below(2)) <= StackLimit
  <2>1. /\ Py!Top(1) \in Word /\ Py!Top(2) \in Word
        /\ Py!Below(2) \in Seq(Word) /\ Len(Py!Below(2)) <= StackLimit
    BY <1>1, <1>3, Popped
  <2> QED BY <2>1, WordsAreInts, SomeBits
<1>5. \/ Py!Raise /\ heap' = heap
      \/ Py!Done([state EXCEPT !.stack = Py!Below(2)]) /\ heap' = heap
      \/ /\ Py!IsVec(Py!Reg1) /\ Py!IsVec(coeffs)
         /\ Py!Raise /\ heap' = [heap EXCEPT ![n] = first]
      \/ /\ Py!IsVec(Py!Reg1) /\ Py!IsVec(coeffs)
         /\ Py!Done([state EXCEPT !.stack = Py!Below(2)])
         /\ \/ heap' = [heap EXCEPT ![n] = Py!Pushed(@, turns)]
            \/ heap' = [heap EXCEPT ![n] = Py!Pushed(heap[n], indices),
                                    ![c] = Py!Pushed(heap[c], weights)]
  BY DEF Py!PySlack, Py!KeepHeap, Zenon
<1>6. <<start>> \in Seq(Int) /\ weights \in Seq(Int) /\ indices \in Seq(Int) /\ turns \in Seq(Int)
  <2>1. indices \in [1 .. bits -> Int] /\ bits \in Nat
    BY <1>4, WordAssumption
  <2>2. indices \in Seq(Int)
    BY <2>1, IntSeq
  <2>3. weights \in Seq(Int) /\ turns \in Seq(Int)
    BY <1>4, Weights, IndicesAndWeights, Zenon
  <2>4. <<start>> \in Seq(Int)
    BY <1>4
  <2> QED BY <2>2, <2>3, <2>4
<1> HIDE DEF start, bits, indices, weights, turns
<1>7. CASE Py!Raise /\ heap' = heap
  BY <1>2, <1>7, RaisedInPlace
<1>8. CASE Py!Done([state EXCEPT !.stack = Py!Below(2)]) /\ heap' = heap
  BY <1>2, <1>4, <1>8, StackOnly
<1>9. ASSUME Py!IsVec(Py!Reg1), Py!IsVec(coeffs)
      PROVE  /\ n \in DOMAIN heap /\ heap[n] \in PyVec
             /\ c \in DOMAIN heap /\ heap[c] \in PyVec
  BY <1>2, <1>9, VecOfRegister DEF Py!Reg1
<1> HIDE DEF n, c
<1>10. CASE /\ Py!IsVec(Py!Reg1) /\ Py!IsVec(coeffs)
            /\ Py!Raise /\ heap' = [heap EXCEPT ![n] = first]
  BY <1>2, <1>6, <1>9, <1>10, PushedIsVec, VecEnds
<1>11. CASE /\ Py!IsVec(Py!Reg1) /\ Py!IsVec(coeffs)
            /\ Py!Done([state EXCEPT !.stack = Py!Below(2)])
            /\ heap' = [heap EXCEPT ![n] = Py!Pushed(@, turns)]
  <2>1. heap' = [heap EXCEPT ![n] = Py!Pushed(heap[n], turns)]
    BY <1>11
  <2> QED BY <1>2, <1>4, <1>6, <1>9, <1>11, <2>1, PushedIsVec, VecEnds
<1>12. CASE /\ Py!IsVec(Py!Reg1) /\ Py!IsVec(coeffs)
            /\ Py!Done([state EXCEPT !.stack = Py!Below(2)])
            /\ heap' = [heap EXCEPT ![n] = Py!Pushed(heap[n], indices),
                                    ![c] = Py!Pushed(heap[c], weights)]
  <2> DEFINE v == Py!Pushed(heap[n], indices)
             h == [heap EXCEPT ![n] = v]
             w == Py!Pushed(heap[c], weights)
  <2>1. v \in PyVec /\ VecOK(v)
    BY <1>6, <1>9, <1>12, PushedIsVec
  <2>2. heap' = [h EXCEPT ![c] = w]
    BY <1>9, <1>12
  <2> HIDE DEF v
  <2>3. HeapOK(h) /\ DOMAIN h = DOMAIN heap
    BY <1>9, <1>12, <2>1, VecChanged DEF PyInv
  <2> HIDE DEF h
  <2>4. c \in DOMAIN h
    BY <1>9, <1>12, <2>3
  <2>5. w \in PyVec /\ VecOK(w)
    BY <1>6, <1>9, <1>12, PushedIsVec
  <2> HIDE DEF w
  <2>6. HeapOK(heap') /\ DOMAIN heap' = DOMAIN heap
    BY <2>2, <2>3, <2>4, <2>5, VecChanged
  <2>7. StateOK(state, heap')
    BY <2>6, HeapGrown DEF PyInv
  <2>8. StateOK([state EXCEPT !.stack = Py!Below(2)], heap')
    BY <1>4, <2>7, StackSet
  <2> QED BY <1>2, <1>12, <2>6, <2>8, Ended
<1> QED BY <1>5, <1>7, <1>8, <1>10, <1>11, <1>12

--------------------------------------------------------------------------
(* Loops.                                                                  *)

LEMMA LoopsAre ==
    ASSUME PyInv
    PROVE  /\ state.loops \in Seq(PyFrame) /\ Len(state.loops) \in Nat
           /\ \A k \in DOMAIN state.loops : PyFrameOK(state.loops[k])
BY StateFields, LenProperties DEF PyInv, StateOK

LEMMA FrameThere ==
    ASSUME PyInv, state.loops # <<>>
    PROVE  /\ Len(state.loops) \in 1 .. Len(state.loops)
           /\ Py!Frame \in PyFrame /\ PyFrameOK(Py!Frame)
<1>1. Len(state.loops) \in 1 .. Len(state.loops)
  <2>1. Len(state.loops) # 0
    BY LoopsAre, EmptySeq
  <2> QED BY <2>1, LoopsAre
<1> QED BY <1>1, LoopsAre, ElementOfSeq, LenProperties DEF Py!Frame

LEMMA FrameFields ==
    ASSUME NEW f \in PyFrame
    PROVE  /\ f.target \in Nat \ {0} /\ f.values \in Seq(Int) /\ f.index \in Nat
           /\ f.start_offset \in Int
BY DEF PyFrame

LEMMA LoopPushed ==
    ASSUME PyInv, program' = program, heap' = heap,
           NEW values \in Seq(Int), NEW start \in Int,
           NEW base \in Seq(Word), Len(base) <= StackLimit,
           Py!PushLoop(values, start, base)
    PROVE  PyInv'
<1> DEFINE frame == [target |-> state.pc + 1, values |-> values,
                     index |-> 0, start_offset |-> start]
           below == [state EXCEPT !.stack = base]
<1>1. state.pc \in Nat \ {0} /\ state \in MachineState
  BY StateFields DEF PyInv, StateOK
<1>2. frame \in PyFrame
  BY <1>1 DEF PyFrame
<1>3. PyFrameOK(frame)
  <2>1. values = <<>> \/ 0 < Len(values)
    BY EmptySeq, LenProperties
  <2> QED BY <2>1 DEF PyFrameOK
<1>4. StateOK(below, heap) /\ below.loops = state.loops
  BY <1>1, StackSet DEF PyInv, MachineState
<1>5. Py!Done([below EXCEPT !.loops = Append(state.loops, frame)])
  BY <1>1 DEF Py!PushLoop, MachineState
<1> HIDE DEF frame, below
<1>6. state.loops \in Seq(PyFrame) /\ Len(state.loops) \in Nat
  BY LoopsAre
<1>7. /\ Append(state.loops, frame) \in Seq(PyFrame)
      /\ Len(Append(state.loops, frame)) = Len(state.loops) + 1
      /\ \A n \in 1 .. Len(state.loops) : Append(state.loops, frame)[n] = state.loops[n]
      /\ Append(state.loops, frame)[Len(state.loops) + 1] = frame
  BY <1>2, <1>6, AppendProperties
<1>8. /\ DOMAIN Append(state.loops, frame) = 1 .. Len(state.loops) + 1
      /\ DOMAIN state.loops = 1 .. Len(state.loops)
  BY <1>6, <1>7, LenProperties
<1>9. \A n \in 1 .. Len(state.loops) + 1 :
          n \in 1 .. Len(state.loops) \/ n = Len(state.loops) + 1
  <2>1. PICK d \in Nat : d = Len(state.loops)
    BY <1>6
  <2>2. \A n \in 1 .. d + 1 : n \in 1 .. d \/ n = d + 1
    BY <2>1
  <2> QED BY <2>1, <2>2
<1>10. \A k \in DOMAIN Append(state.loops, frame) : PyFrameOK(Append(state.loops, frame)[k])
  BY <1>3, <1>7, <1>8, <1>9, LoopsAre
<1>11. StateOK([below EXCEPT !.loops = Append(state.loops, frame)], heap)
  BY <1>4, <1>7, <1>10, LoopsSet
<1> QED BY <1>5, <1>11, EndedInPlace

LEMMA PyRangeOK == ASSUME PyInv, Py!PyRange PROVE PyInv'
<1> DEFINE count == Py!Top(1)
           start == Py!Top(2)
           values == [i \in 1 .. count |-> start + i - 1]
<1>1. Py!Executing({"RANGE"}) /\ heap' = heap
  BY DEF Py!PyRange, Py!KeepHeap
<1>2. Py!Instr.op = "RANGE" /\ program' = program
  BY <1>1, Start
<1>3. Needs(Py!Instr.op) = 2
  BY <1>2, NeedsOf
<1>4. /\ count \in Int /\ start \in Int
      /\ Py!Below(2) \in Seq(Word) /\ Len(Py!Below(2)) <= StackLimit
  <2>1. /\ Py!Top(1) \in Word /\ Py!Top(2) \in Word
        /\ Py!Below(2) \in Seq(Word) /\ Len(Py!Below(2)) <= StackLimit
    BY <1>1, <1>3, Popped
  <2> QED BY <2>1, WordsAreInts
<1>5. \/ count > 0 /\ Py!PushLoop(values, start, Py!Below(2))
      \/ Py!Raise
      \/ /\ Py!ClosingNexts # {}
         /\ Py!Done([state EXCEPT !.stack = Py!Below(2),
                                  !.pc = Py!First(Py!ClosingNexts) + 1])
  BY DEF Py!PyRange
<1>6. CASE count > 0 /\ Py!PushLoop(values, start, Py!Below(2))
  <2>1. count \in Nat /\ values \in [1 .. count -> Int]
    BY <1>4, <1>6
  <2>2. values \in Seq(Int)
    BY <2>1, IntSeq
  <2> HIDE DEF values, start
  <2> QED BY <1>1, <1>2, <1>4, <1>6, <2>2, LoopPushed
<1>7. CASE Py!Raise
  BY <1>1, <1>2, <1>7, RaisedInPlace
<1>8. CASE /\ Py!ClosingNexts # {}
           /\ Py!Done([state EXCEPT !.stack = Py!Below(2),
                                    !.pc = Py!First(Py!ClosingNexts) + 1])
  <2>1. state.pc + 1 \in Nat /\ Len(program.code) \in Nat
    BY <1>1, Start, LenProperties DEF PyInv, ProgramOK
  <2>2. Py!ClosingNexts \in SUBSET Nat
    BY <2>1 DEF Py!ClosingNexts
  <2>3. \E k \in Py!ClosingNexts : \A l \in Py!ClosingNexts : k <= l
    BY <1>8, <2>2, LeastOfSome
  <2>4. Py!First(Py!ClosingNexts) \in Py!ClosingNexts
    BY <2>3 DEF Py!First
  <2>5. Py!First(Py!ClosingNexts) + 1 \in Nat \ {0}
    <3>1. PICK n \in Nat : n = Py!First(Py!ClosingNexts)
      BY <2>2, <2>4
    <3> QED BY <3>1
  <2>6. StateOK([state EXCEPT !.stack = Py!Below(2),
                              !.pc = Py!First(Py!ClosingNexts) + 1], heap)
    BY <1>4, <2>5, PcSet DEF PyInv
  <2> QED BY <1>1, <1>2, <1>8, <2>6, EndedInPlace
<1> QED BY <1>5, <1>6, <1>7, <1>8

LEMMA PyIterOK == ASSUME PyInv, Py!PyIter PROVE PyInv'
<1> DEFINE end == Py!Top(1)
           start == Py!Top(2)
           elements == Py!Elements(Py!Reg1)
           count == IF start < end THEN end - start ELSE 0
           values == [i \in 1 .. count |-> elements[start + i]]
<1>1. Py!Executing({"ITER"}) /\ heap' = heap
  BY DEF Py!PyIter, Py!KeepHeap
<1>2. Py!Instr.op = "ITER" /\ program' = program /\ Py!Instr.r1 \in Reg
  BY <1>1, Start, RegisterIs
<1>3. Needs(Py!Instr.op) = 2
  BY <1>2, NeedsOf
<1>4. /\ end \in Int /\ start \in Int
      /\ Py!Below(2) \in Seq(Word) /\ Len(Py!Below(2)) <= StackLimit
  <2>1. /\ Py!Top(1) \in Word /\ Py!Top(2) \in Word
        /\ Py!Below(2) \in Seq(Word) /\ Len(Py!Below(2)) <= StackLimit
    BY <1>1, <1>3, Popped
  <2> QED BY <2>1, WordsAreInts
<1>5. \/ Py!Raise
      \/ /\ Py!IsVec(Py!Reg1) /\ \A i \in start .. end - 1 : i + 1 \in DOMAIN elements
         /\ Py!PushLoop(values, start, Py!Below(2))
  BY DEF Py!PyIter
<1>6. CASE Py!Raise
  BY <1>1, <1>2, <1>6, RaisedInPlace
<1>7. CASE /\ Py!IsVec(Py!Reg1) /\ \A i \in start .. end - 1 : i + 1 \in DOMAIN elements
           /\ Py!PushLoop(values, start, Py!Below(2))
  <2>1. elements \in Seq(Int)
    BY <1>2, <1>7, VecOfRegister, VecFields DEF Py!Reg1, Py!Elements
  <2> HIDE DEF start, end, elements
  <2>2. ASSUME NEW i \in 1 .. count PROVE elements[start + i] \in Int
    <3>1. start + i - 1 \in start .. end - 1 /\ (start + i - 1) + 1 = start + i
      BY <1>4
    <3>2. start + i \in DOMAIN elements
      BY <1>7, <3>1
    <3> QED BY <2>1, <3>2, ElementOfSeq, LenProperties
  <2>3. count \in Nat
    BY <1>4
  <2>4. values \in Seq(Int)
    BY <2>2, <2>3, IntSeq
  <2> HIDE DEF values
  <2> QED BY <1>1, <1>2, <1>4, <1>7, <2>4, LoopPushed
<1> QED BY <1>5, <1>6, <1>7

LEMMA PyNextOK == ASSUME PyInv, Py!PyNext PROVE PyInv'
<1> DEFINE n == Len(state.loops)
           dropped == SubSeq(state.loops, 1, n - 1)
           turned == [Py!Frame EXCEPT !.index = Py!Frame.index + 1]
           frames == [state.loops EXCEPT ![n] = turned]
<1>1. Py!Executing({"NEXT"}) /\ heap' = heap
  BY DEF Py!PyNext, Py!KeepHeap
<1>2. program' = program
  BY <1>1, Start
<1>3. CASE state.loops = <<>>
  <2>1. Py!Raise
    BY <1>3 DEF Py!PyNext
  <2> QED BY <1>1, <1>2, <2>1, RaisedInPlace
<1>4. CASE state.loops # <<>> /\ Py!Frame.index + 1 >= Len(Py!Frame.values)
  <2>1. Py!Done([state EXCEPT !.loops = dropped])
    BY <1>4 DEF Py!PyNext
  <2>2. state.loops \in Seq(PyFrame) /\ n - 1 \in 0 .. n
    BY <1>4, LoopsAre, FrameThere
  <2>3. /\ dropped \in Seq(PyFrame) /\ Len(dropped) = n - 1
        /\ \A k \in 1 .. n - 1 : dropped[k] = state.loops[k]
    BY <2>2, Prefix
  <2> HIDE DEF dropped
  <2>4. \A k \in DOMAIN dropped : PyFrameOK(dropped[k])
    BY <2>2, <2>3, LoopsAre, LenProperties
  <2>5. StateOK([state EXCEPT !.loops = dropped], heap)
    BY <2>3, <2>4, LoopsSet DEF PyInv
  <2> QED BY <1>1, <1>2, <2>1, <2>5, EndedInPlace
<1>5. CASE state.loops # <<>> /\ ~(Py!Frame.index + 1 >= Len(Py!Frame.values))
  <2> DEFINE moved == [state EXCEPT !.pc = Py!Frame.target, !.stack = state.stack]
  <2>1. /\ Py!Frame.target \in Nat \ {0} /\ Py!Frame.index \in Nat
        /\ Len(Py!Frame.values) \in Nat
    BY <1>5, FrameThere, FrameFields, LenProperties
  <2>2. state \in MachineState /\ state.stack \in Seq(Word) /\ Len(state.stack) <= StackLimit
    BY StateFields DEF PyInv, StateOK
  <2>3. StateOK(moved, heap) /\ moved.loops = state.loops
    BY <2>1, <2>2, PcSet DEF PyInv, MachineState
  <2>4. Py!Done([moved EXCEPT !.loops = frames])
    <3>1. Py!Done([state EXCEPT !.loops[n].index = @ + 1, !.pc = Py!Frame.target])
      BY <1>5 DEF Py!PyNext
    <3>2. [state EXCEPT !.loops[n].index = @ + 1, !.pc = Py!Frame.target]
            = [moved EXCEPT !.loops = frames]
      BY <2>2 DEF MachineState, Py!Frame
    <3> QED BY <3>1, <3>2
  <2>5. turned \in PyFrame /\ PyFrameOK(turned)
    BY <1>5, <2>1, FrameThere DEF PyFrame, PyFrameOK
  <2> HIDE DEF moved, turned
  <2>6. n \in 1 .. n /\ state.loops \in Seq(PyFrame) /\ DOMAIN state.loops = 1 .. n
    BY <1>5, LoopsAre, FrameThere, LenProperties
  <2>7. frames \in Seq(PyFrame)
    BY <2>5, <2>6, ExceptSeq
  <2>8. \A k \in DOMAIN frames : PyFrameOK(frames[k])
    BY <2>5, <2>6, LoopsAre
  <2> HIDE DEF frames
  <2>9. StateOK([moved EXCEPT !.loops = frames], heap)
    BY <2>3, <2>7, <2>8, LoopsSet
  <2> QED BY <1>1, <1>2, <2>4, <2>9, EndedInPlace
<1> QED BY <1>3, <1>4, <1>5

LEMMA PyLoopReadOK == ASSUME PyInv, Py!PyLval \/ Py!PyLidx PROVE PyInv'
<1>1. CASE Py!PyLval
  <2>1. Py!Executing({"LVAL"}) /\ heap' = heap
    BY <1>1 DEF Py!PyLval, Py!KeepHeap
  <2>2. /\ program' = program /\ state.stack \in Seq(Word) /\ Len(state.stack) <= StackLimit
    BY <2>1, Start, Popped
  <2>3. CASE state.loops # <<>> /\ Py!Frame.index < Len(Py!Frame.values)
    <3>1. Py!SetRegister(Py!PyInt(Py!Frame.values[Py!Frame.index + 1]), state.stack)
      BY <1>1, <2>3 DEF Py!PyLval
    <3>2. Py!Frame.values \in Seq(Int) /\ Py!Frame.index \in Nat
      BY <2>3, FrameThere, FrameFields
    <3>3. Py!Frame.index + 1 \in 1 .. Len(Py!Frame.values)
      BY <2>3, <3>2, LenProperties
    <3>4. Py!Frame.values[Py!Frame.index + 1] \in Int
      BY <3>2, <3>3, ElementOfSeq
    <3> QED BY <2>1, <2>2, <3>1, <3>4, Scalars, RegisterEndsInPlace
  <2>4. CASE ~(state.loops # <<>> /\ Py!Frame.index < Len(Py!Frame.values))
    <3>1. Py!Raise
      BY <1>1, <2>4 DEF Py!PyLval
    <3> QED BY <2>1, <2>2, <3>1, RaisedInPlace
  <2> QED BY <2>3, <2>4
<1>2. CASE Py!PyLidx
  <2>1. Py!Executing({"LIDX"}) /\ heap' = heap
    BY <1>2 DEF Py!PyLidx, Py!KeepHeap
  <2>2. /\ program' = program /\ state.stack \in Seq(Word) /\ Len(state.stack) <= StackLimit
    BY <2>1, Start, Popped
  <2>3. CASE state.loops # <<>>
    <3>1. Py!SetRegister(Py!PyInt(Py!Frame.index + Py!Frame.start_offset), state.stack)
      BY <1>2, <2>3 DEF Py!PyLidx
    <3>2. Py!Frame.index + Py!Frame.start_offset \in Int
      BY <2>3, FrameThere, FrameFields
    <3> QED BY <2>1, <2>2, <3>1, <3>2, Scalars, RegisterEndsInPlace
  <2>4. CASE state.loops = <<>>
    <3>1. Py!Raise
      BY <1>2, <2>4 DEF Py!PyLidx
    <3> QED BY <2>1, <2>2, <3>1, RaisedInPlace
  <2> QED BY <2>3, <2>4
<1> QED BY <1>1, <1>2

\* A step of the Python VM.
LEMMA PyStepOK == ASSUME PyInv, Py!PyStep PROVE PyInv'
BY PyUnderflowOK, PyEndsOK, PyNopOK, PyHaltOK, PyJumpOK, PyJumpIOK, PyRangeOK, PyIterOK,
   PyNextOK, PyLoopReadOK, PyStackOK, PyLoadOK, PyStowOK, PyDropOK, PyInputOK, PyOutputOK,
   PyUnaryOpOK, PyArithmeticOK, PyIndexOK, PyVecNewOK, PyVecPushOK, PyVecReadOK,
   PyVecSetOK, PySlackOK
   DEF Py!PyStep

--------------------------------------------------------------------------
(* The VM object on both backends.                                         *)

SettingsOK == data \in Seq(HostItem) /\ slots \in Nat
              /\ limit \in 0 .. MaxSteps /\ vmLimit \in 1 .. MaxSteps

\* The host's Vec objects are the first of the heap in every run.
BackendsInv == TypeOK /\ SettingsOK /\ PyInv /\ Len(HostVecs) <= Len(heap)

\* What a run starts with.
LEMMA FreshOK ==
    ASSUME NEW input \in Seq(PyVal), NEW h, \A k \in DOMAIN input : Leads(input[k], h)
    PROVE  StateOK(Py!Fresh(input), h)
<1>1. /\ <<>> \in Seq(Word) /\ <<>> \in Seq(PyFrame) /\ <<>> \in Seq(PyVal) /\ Len(<<>>) = 0
  BY EmptySeq
<1>2. [r \in Reg |-> Py!Absent] \in [Reg -> PyVal]
  BY Scalars
<1>3. \A r \in Reg : Leads(Py!Absent, h)
  BY Scalars
<1>4. <<>> \in PySlots /\ DOMAIN <<>> = {}
  <2>1. <<>> \in [1 .. 0 -> PyVal] /\ 1 .. 0 \in SUBSET Int
    OBVIOUS
  <2>2. DOMAIN <<>> = {}
    OBVIOUS
  <2> QED BY <2>1, <2>2 DEF PySlots
<1>5. Py!Fresh(input) \in MachineState
  BY <1>1, <1>2, <1>4 DEF MachineState, Py!Fresh
<1> QED BY <1>1, <1>3, <1>4, <1>5, LimitIsNat DEF StateOK, Py!Fresh

LEMMA NewVecOK ==
    ASSUME NEW ints \in Seq(Int)
    PROVE  /\ Py!NewVec(Kind(ints), ints) \in PyVec
           /\ VecOK(Py!NewVec(Kind(ints), ints))
<1>1. Kind(ints) \in {"int", "unset"} /\ (Kind(ints) # "int" => ints = <<>>)
  BY DEF Kind
<1> QED BY <1>1 DEF Py!NewVec, PyVec, VecOK

LEMMA ItemIs ==
    ASSUME SettingsOK, NEW k \in DOMAIN data
    PROVE  /\ data[k] \in HostItem
           /\ data[k].tag \in {"Int", "List", "Vec", "None"}
           /\ data[k].tag = "List" => data[k].ints \in Seq(Int)
<1>1. data[k] \in HostItem
  BY ElementOfSeq, LenProperties DEF SettingsOK
<1> QED BY <1>1 DEF HostItem

LEMMA NewVecOfOK ==
    ASSUME SettingsOK, NEW k \in DOMAIN data
    PROVE  NewVecOf(data[k]) \in PyVec /\ VecOK(NewVecOf(data[k]))
<1> DEFINE ints == IF data[k].tag = "List" THEN data[k].ints ELSE <<>>
<1>1. ints \in Seq(Int)
  BY ItemIs, EmptySeq
<1>2. NewVecOf(data[k]) = Py!NewVec(Kind(ints), ints)
  BY DEF NewVecOf
<1> HIDE DEF ints
<1> QED BY <1>1, <1>2, NewVecOK

\* The heap of a run: the host's vectors, and one place for every item.
LEMMA PreparedHeapOK ==
    ASSUME BackendsInv
    PROVE  /\ HeapOK(PreparedHeap) /\ Len(HostVecs) \in Nat
           /\ Len(PreparedHeap) = Len(HostVecs) + Len(data)
<1>1. PICK m \in Nat : m = Len(HostVecs)
  BY HostAssumption, LenProperties
<1>2. PICK n \in Nat : n = Len(data)
  BY LenProperties DEF BackendsInv, SettingsOK
<1>3. /\ Len(heap) \in Nat /\ DOMAIN heap = 1 .. Len(heap) /\ heap \in Seq(PyVec)
      /\ \A i \in DOMAIN heap : heap[i] \in PyVec /\ VecOK(heap[i])
  BY HeapIsSeq DEF BackendsInv, PyInv, HeapOK
<1>4. m \in 0 .. Len(heap)
  BY <1>1, <1>3 DEF BackendsInv
<1>5. /\ HostHeap \in Seq(PyVec) /\ Len(HostHeap) = m
      /\ \A i \in 1 .. m : HostHeap[i] = heap[i]
  BY <1>1, <1>3, <1>4, Prefix DEF HostHeap
<1> DEFINE old == [i \in DOMAIN HostHeap |-> [HostHeap[i] EXCEPT !.changed = FALSE]]
           new == [k \in DOMAIN data |-> NewVecOf(data[k])]
<1>6. PreparedHeap = old \o new
  BY DEF PreparedHeap
<1>7. DOMAIN HostHeap = 1 .. m /\ DOMAIN data = 1 .. n
  BY <1>1, <1>2, <1>5, LenProperties DEF BackendsInv, SettingsOK
<1>8. \A i \in 1 .. m : old[i] \in PyVec /\ VecOK(old[i])
  <2> TAKE i \in 1 .. m
  <2>1. HostHeap[i] \in PyVec /\ VecOK(HostHeap[i])
    BY <1>3, <1>4, <1>5
  <2>2. old[i] = [HostHeap[i] EXCEPT !.changed = FALSE]
    BY <1>7
  <2> QED BY <2>1, <2>2 DEF PyVec, VecOK
<1>9. \A k \in 1 .. n : new[k] \in PyVec /\ VecOK(new[k])
  BY <1>7, NewVecOfOK DEF BackendsInv
<1>10. old \in Seq(PyVec) /\ Len(old) = m
  <2>1. old \in [1 .. m -> PyVec]
    BY <1>7, <1>8
  <2> HIDE DEF old
  <2> QED BY <1>1, <2>1, SeqDef, LenProperties
<1>11. new \in Seq(PyVec) /\ Len(new) = n
  <2>1. new \in [1 .. n -> PyVec]
    BY <1>7, <1>9
  <2> HIDE DEF new
  <2> QED BY <1>2, <2>1, SeqDef, LenProperties
<1> HIDE DEF old, new
<1>12. /\ old \o new \in Seq(PyVec) /\ Len(old \o new) = m + n
       /\ \A i \in 1 .. m : (old \o new)[i] = old[i]
       /\ \A i \in 1 .. n : (old \o new)[m + i] = new[i]
  BY <1>10, <1>11, ConcatPlaces
<1>13. \A i \in 1 .. m + n : i \in 1 .. m \/ (i - m \in 1 .. n /\ m + (i - m) = i)
  OBVIOUS
<1>14. \A i \in 1 .. m + n : VecOK((old \o new)[i])
  <2> TAKE i \in 1 .. m + n
  <2>1. CASE i \in 1 .. m
    BY <1>8, <1>12, <2>1
  <2>2. CASE i - m \in 1 .. n /\ m + (i - m) = i
    <3>1. (old \o new)[m + (i - m)] = new[i - m]
      BY <1>12, <2>2
    <3> QED BY <1>9, <2>2, <3>1
  <2> QED BY <1>13, <2>1, <2>2
<1>15. DOMAIN (old \o new) = 1 .. m + n
  BY <1>12, LenProperties
<1> QED BY <1>1, <1>2, <1>6, <1>12, <1>14, <1>15 DEF HeapOK

LEMMA PreparedInputOK ==
    ASSUME BackendsInv
    PROVE  StateOK(Py!Fresh(PreparedInput), PreparedHeap)
<1>1. PICK m \in Nat : m = Len(HostVecs)
  BY HostAssumption, LenProperties
<1>2. PICK n \in Nat : n = Len(data)
  BY LenProperties DEF BackendsInv, SettingsOK
<1>3. DOMAIN data = 1 .. n /\ DOMAIN HostVecs = 1 .. m
  BY <1>1, <1>2, HostAssumption, LenProperties DEF BackendsInv, SettingsOK
<1>4. DOMAIN PreparedHeap = 1 .. m + n
  BY <1>1, <1>2, PreparedHeapOK, LenProperties DEF HeapOK
<1> DEFINE item(k) == IF data[k].tag = "List" THEN Py!Ref(Len(HostVecs) + k) ELSE data[k]
<1>5. ASSUME NEW k \in 1 .. n PROVE item(k) \in PyVal /\ Leads(item(k), PreparedHeap)
  <2>1. data[k] \in HostItem
    BY <1>3, ItemIs DEF BackendsInv
  <2>2. CASE data[k].tag = "List"
    <3>1. m + k \in Nat \ {0} /\ m + k \in 1 .. m + n
      OBVIOUS
    <3>2. Py!Ref(m + k) \in PyVal /\ Leads(Py!Ref(m + k), PreparedHeap)
      BY <1>4, <3>1, Scalars DEF Leads, Py!Ref
    <3> QED BY <1>1, <2>2, <3>2
  <2>3. CASE data[k].tag # "List"
    <3>1. \A i \in DOMAIN HostVecs : i \in Nat \ {0} /\ i \in 1 .. m + n
      BY <1>3
    <3>2. data[k] \in PyVal /\ Leads(data[k], PreparedHeap)
      BY <1>4, <2>1, <2>3, <3>1 DEF HostItem, PyVal, Leads
    <3> QED BY <2>3, <3>2
  <2> QED BY <2>2, <2>3
<1>6. PreparedInput = [k \in 1 .. n |-> item(k)]
  BY <1>3 DEF PreparedInput
<1> HIDE DEF item
<1>7. PreparedInput \in [1 .. n -> PyVal]
  BY <1>5, <1>6
<1>8. PreparedInput \in Seq(PyVal) /\ DOMAIN PreparedInput = 1 .. n
  BY <1>2, <1>7, SeqDef
<1>9. \A k \in DOMAIN PreparedInput : Leads(PreparedInput[k], PreparedHeap)
  BY <1>5, <1>6, <1>8
<1> QED BY <1>8, <1>9, FreshOK

\* No step of a run takes a vector off the heap.
LEMMA HeapStays == ASSUME PyInv, Py!PyStep, PyInv' PROVE Len(heap) <= Len(heap')
<1>1. PICK m \in Nat, n \in Nat : /\ m = Len(heap) /\ DOMAIN heap = 1 .. m
                                  /\ n = Len(heap') /\ DOMAIN heap' = 1 .. n
  BY HeapIsSeq DEF PyInv
<1> SUFFICES DOMAIN heap \subseteq DOMAIN heap'
  <2>1. ASSUME DOMAIN heap \subseteq DOMAIN heap' PROVE m <= n
    <3>1. CASE m = 0
      BY <3>1
    <3>2. CASE m # 0
      <4>1. m \in 1 .. n
        BY <1>1, <2>1, <3>2
      <4> QED BY <4>1
    <3> QED BY <3>1, <3>2
  <2> QED BY <1>1, <2>1
<1>2. CASE Py!PyVecNew
  <2>1. PICK vec : heap' = Append(heap, vec)
    BY <1>2 DEF Py!PyVecNew
  <2>2. Len(heap') = m + 1
    BY <1>1, <2>1 DEF PyInv, HeapOK
  <2> QED BY <1>1, <2>2
<1>3. CASE Py!PyVecPush
  <2>1. heap' = heap \/ \E n1, v : heap' = [heap EXCEPT ![n1] = v]
    BY <1>3 DEF Py!PyVecPush, Py!KeepHeap
  <2> QED BY <2>1
<1>4. CASE Py!PyVecSet
  <2>1. \/ heap' = heap
        \/ \E n1, v1, n2, v2 : heap' = [[heap EXCEPT ![n1] = v1] EXCEPT ![n2] = v2]
    BY <1>4 DEF Py!PyVecSet, Py!KeepHeap
  <2> QED BY <2>1
<1>5. CASE Py!PySlack
  <2> DEFINE n1 == Py!Reg1.at
             n2 == state.registers[Py!Instr.r2].at
             bits == Py!BitLen(Py!Top(1))
             start == Py!Top(2)
             turns == [k \in 1 .. 2 * bits |->
                        IF k % 2 = 1 THEN start + (k + 1) \div 2 - 1 ELSE 2 ^ (k \div 2 - 1)]
             v1 == Py!Pushed(heap[n1], <<start>>)
             v2 == Py!Pushed(heap[n1], turns)
             v3 == Py!Pushed(heap[n1], [k \in 1 .. bits |-> start + k - 1])
             v4 == Py!Pushed(heap[n2], [k \in 1 .. bits |-> 2 ^ (k - 1)])
  <2>1. \/ heap' = heap
        \/ heap' = [heap EXCEPT ![n1] = v1]
        \/ heap' = [heap EXCEPT ![n1] = v2]
        \/ heap' = [heap EXCEPT ![n1] = v3, ![n2] = v4]
    BY <1>5, Zenon DEF Py!PySlack, Py!KeepHeap
  <2> HIDE DEF n1, n2, v1, v2, v3, v4
  <2> QED BY <2>1
<1>6. CASE ~(Py!PyVecNew \/ Py!PyVecPush \/ Py!PyVecSet \/ Py!PySlack)
  <2>1. heap' = heap
    BY <1>6 DEF Py!PyStep, Py!Underflow, Py!PyNop, Py!PyHalt, Py!PyJump, Py!PyJumpI,
                Py!PyRange, Py!PyIter, Py!PyNext, Py!PyLval, Py!PyLidx, Py!PyStack,
                Py!PyLoad, Py!PyStow, Py!PyDrop, Py!PyInput, Py!PyOutput, Py!PyUnaryOp,
                Py!PyArithmetic, Py!PyIdxGrid, Py!PyIdxTriu, Py!PyVecGet, Py!PyVecLen,
                Py!PyLimit, Py!PyEnd, Py!KeepHeap
  <2> QED BY <2>1
<1> QED BY <1>2, <1>3, <1>4, <1>5, <1>6
--------------------------------------------------------------------------
(* The steps of the composition.                                           *)

LEMMA StartRustOK ==
    ASSUME BackendsInv, NEW p, WellFormed(p), NEW newLimit \in 1 .. MaxSteps,
           StartRust(p, newLimit), vmLimit' \in 1 .. MaxSteps
    PROVE  BackendsInv'
<1>1. /\ prog' = p /\ pc' = 1 /\ skipDepth' = 0 /\ status' = "running" /\ steps' = 0
      /\ stack' = <<>> /\ regs' = [r \in Reg |-> Unset] /\ loopStack' = <<>>
      /\ calldata' = [k \in DOMAIN data |-> ToRegVal(data[k])]
      /\ outputs' = [k \in 1 .. slots |-> Unset] /\ stepLimit' = newLimit
      /\ UNCHANGED <<data, slots, limit>> /\ UNCHANGED pyVars
  BY DEF StartRust
<1>2. ControlOK'
  <2>1. Len(p.code) \in Nat
    BY LenProperties DEF WellFormed, Program
  <2>2. WellFormed(prog)'
    BY <1>1 DEF WellFormed
  <2>3. 1 \in 1 .. Len(p.code) + 1
    BY <2>1
  <2> QED BY <1>1, <2>2, <2>3 DEF ControlOK
<1>3. StackOK' /\ LoopsOK' /\ RegsOK'
  BY <1>1, EmptySeq, LimitIsNat, Values DEF StackOK, LoopsOK, RegsOK
<1>4. calldata' \in Seq(RegVal)
  <2>1. PICK n \in Nat : n = Len(data) /\ DOMAIN data = 1 .. n
    BY LenProperties DEF BackendsInv, SettingsOK
  <2>2. \A k \in 1 .. n : ToRegVal(data[k]) \in RegVal
    BY <2>1 DEF StartRust, Convertible
  <2>3. calldata' \in [1 .. n -> RegVal]
    BY <1>1, <2>1, <2>2
  <2> QED BY <2>3, SeqDef
<1>5. outputs' \in Seq(RegVal)
  <2>1. PICK n \in Nat : n = slots
    BY DEF BackendsInv, SettingsOK
  <2>2. outputs' \in [1 .. n -> RegVal]
    BY <1>1, <2>1, Values
  <2> QED BY <2>2, SeqDef
<1>6. TypeOK'
  BY <1>2, <1>3, <1>4, <1>5 DEF TypeOK, SlotsOK
<1>7. SettingsOK' /\ PyInv' /\ Len(HostVecs) <= Len(heap')
  BY <1>1 DEF pyVars, BackendsInv, SettingsOK, PyInv
<1> QED BY <1>6, <1>7 DEF BackendsInv

\* Both ways of choosing the limit of a Rust run give one.
LEMMA RunOfHostOK ==
    ASSUME BackendsInv, NEW p \in Programs, RunVm(p) \/ RunSession(p)
    PROVE  BackendsInv'
<1>1. vmLimit \in 1 .. MaxSteps /\ DefaultStepLimit \in 1 .. MaxSteps
      /\ WellFormed(p) /\ limit \in 0 .. MaxSteps /\ MaxSteps \in Nat
  BY VmAssumption DEF BackendsInv, SettingsOK
<1>2. limit # 0 => limit \in 1 .. MaxSteps
  BY <1>1
<1>3. /\ vmLimit' \in 1 .. MaxSteps
      /\ \E newLimit \in 1 .. MaxSteps : StartRust(p, newLimit)
  <2>1. CASE RunVm(p)
    BY <1>1, <1>2, <2>1 DEF RunVm
  <2>2. CASE RunSession(p)
    BY <1>1, <1>2, <2>2 DEF RunSession
  <2> QED BY <2>1, <2>2
<1> QED BY <1>1, <1>3, StartRustOK

LEMMA RustStepOK == ASSUME BackendsInv, RustStep PROVE BackendsInv'
<1>1. VmStep /\ UNCHANGED settingVars /\ UNCHANGED pyVars
  BY DEF RustStep
<1>2. TypeOK'
  BY <1>1, NextPreservesTypeOK DEF BackendsInv, Next
<1> QED BY <1>1, <1>2 DEF BackendsInv, settingVars, pyVars, SettingsOK, PyInv

\* The Rust VM keeps its types when it is left alone.
LEMMA VmKept == ASSUME TypeOK, UNCHANGED vmVars PROVE TypeOK'
BY NextPreservesTypeOK

LEMMA StartPythonOK == ASSUME BackendsInv, StartPython PROVE BackendsInv'
<1>1. /\ program' = [code |-> prog.code, table |-> prog.table, limit |-> limit]
      /\ state' = Py!Fresh(PreparedInput) /\ heap' = PreparedHeap
      /\ UNCHANGED vmVars /\ UNCHANGED settingVars
  BY DEF StartPython
<1>2. ProgramOK(program')
  <2>1. prog.code \in Seq(VmInstr) /\ prog.table \in Seq(Nat \ {0})
    BY DEF BackendsInv, TypeOK, ControlOK, WellFormed, Program, VmInstr
  <2>2. limit \in Nat
    BY VmAssumption DEF BackendsInv, SettingsOK
  <2> QED BY <1>1, <2>1, <2>2 DEF ProgramOK
<1>3. StateOK(state', heap') /\ HeapOK(heap')
  BY <1>1, PreparedInputOK, PreparedHeapOK
<1>4. Len(HostVecs) <= Len(heap')
  <2>1. Len(data) \in Nat
    BY LenProperties DEF BackendsInv, SettingsOK
  <2>2. Len(HostVecs) \in Nat /\ Len(heap') = Len(HostVecs) + Len(data)
    BY <1>1, PreparedHeapOK
  <2> QED BY <2>1, <2>2
<1>5. TypeOK'
  BY <1>1, VmKept DEF BackendsInv
<1>6. SettingsOK'
  BY <1>1 DEF BackendsInv, SettingsOK, settingVars
<1> QED BY <1>2, <1>3, <1>4, <1>5, <1>6 DEF BackendsInv, PyInv

\* The host's vectors stay where they are: the heap of a run never shrinks.
LEMMA PythonStepOK == ASSUME BackendsInv, PythonStep PROVE BackendsInv'
<1>1. Py!PyStep /\ UNCHANGED vmVars /\ UNCHANGED settingVars
  BY DEF PythonStep
<1>2. PyInv'
  BY <1>1, PyStepOK DEF BackendsInv
<1>3. Len(HostVecs) <= Len(heap')
  BY <1>1, <1>2, HeapStays DEF BackendsInv
<1>4. TypeOK'
  BY <1>1, VmKept DEF BackendsInv
<1> QED BY <1>1, <1>2, <1>3, <1>4 DEF BackendsInv, SettingsOK, settingVars

\* Showing a run's results, and the host's calls between runs.
LEMMA BetweenOK ==
    ASSUME BackendsInv,
           \/ ShowPython \/ RefuseRun \/ ResetBoth
           \/ \E d \in HostData : GiveCalldata(d)
           \/ \E n \in OutputCounts : ReserveSlots(n)
           \/ \E n \in StepLimits : LimitSteps(n)
    PROVE  BackendsInv'
<1>1. UNCHANGED pyVars
  BY DEF ShowPython, RefuseRun, ResetBoth, GiveCalldata, ReserveSlots, LimitSteps
<1>2. PyInv' /\ Len(HostVecs) <= Len(heap')
  BY <1>1 DEF BackendsInv, PyInv, pyVars
<1>3. TypeOK'
  <2>1. UNCHANGED vmVars \/ Reset
    BY DEF ShowPython, RefuseRun, ResetBoth, GiveCalldata, ReserveSlots, LimitSteps
  <2> QED BY <2>1, VmKept, ResetOK DEF BackendsInv
<1>4. SettingsOK'
  <2>1. /\ data' = data \/ data' = <<>> \/ data' \in HostData
        /\ slots' = slots \/ slots' = 0 \/ slots' \in OutputCounts
        /\ limit' = limit \/ limit' = 0 \/ limit' \in StepLimits
        /\ vmLimit' = vmLimit
    BY DEF ShowPython, RefuseRun, ResetBoth, GiveCalldata, ReserveSlots, LimitSteps,
           settingVars
  <2>2. <<>> \in Seq(HostItem) /\ 0 \in 0 .. MaxSteps
    BY EmptySeq, VmAssumption
  <2>3. data' \in Seq(HostItem)
    BY <2>1, <2>2, HostAssumption DEF BackendsInv, SettingsOK
  <2>4. slots' \in Nat
    <3>1. slots \in Nat /\ OutputCounts \subseteq Nat
      BY VmAssumption DEF BackendsInv, SettingsOK
    <3>2. slots' = slots \/ slots' = 0 \/ slots' \in OutputCounts
      BY <2>1
    <3>3. 0 \in Nat
      OBVIOUS
    <3> QED BY <3>1, <3>2, <3>3
  <2>5. limit' \in 0 .. MaxSteps
    <3>1. limit \in 0 .. MaxSteps /\ StepLimits \subseteq 0 .. MaxSteps
      BY VmAssumption DEF BackendsInv, SettingsOK
    <3> QED BY <2>1, <2>2, <3>1
  <2>6. vmLimit' \in 1 .. MaxSteps
    BY <2>1 DEF BackendsInv, SettingsOK
  <2> QED BY <2>3, <2>4, <2>5, <2>6 DEF SettingsOK
<1> QED BY <1>2, <1>3, <1>4 DEF BackendsInv

LEMMA BackendsInitOK == BackendsInit => BackendsInv
<1> SUFFICES ASSUME BackendsInit PROVE BackendsInv
  OBVIOUS
<1>1. TypeOK
  BY InitOK DEF BackendsInit
<1>2. SettingsOK
  BY EmptySeq, VmAssumption DEF BackendsInit, SettingsOK
<1>3. ProgramOK(program)
  BY EmptySeq DEF BackendsInit, ProgramOK
<1>4. StateOK(state, heap)
  <2>1. <<>> \in Seq(PyVal) /\ DOMAIN <<>> = {}
    BY EmptySeq
  <2> QED BY <2>1, FreshOK DEF BackendsInit
<1>5. HeapOK(heap) /\ Len(HostVecs) <= Len(heap)
  <2>1. PICK m \in Nat : m = Len(HostVecs) /\ DOMAIN HostVecs = 1 .. m
    BY HostAssumption, LenProperties
  <2>2. \A n \in 1 .. m : HostVecs[n] \in Seq(Int)
    BY <2>1, HostAssumption, ElementOfSeq
  <2>3. heap = [n \in 1 .. m |-> Py!NewVec(Kind(HostVecs[n]), HostVecs[n])]
    BY <2>1 DEF BackendsInit
  <2>4. \A n \in 1 .. m : heap[n] \in PyVec /\ VecOK(heap[n])
    BY <2>2, <2>3, NewVecOK
  <2>5. heap \in [1 .. m -> PyVec]
    BY <2>3, <2>4
  <2>6. heap \in Seq(PyVec) /\ Len(heap) = m /\ DOMAIN heap = 1 .. m
    BY <2>1, <2>5, SeqDef, LenProperties
  <2> QED BY <2>1, <2>4, <2>6 DEF HeapOK
<1> QED BY <1>1, <1>2, <1>3, <1>4, <1>5 DEF BackendsInv, PyInv

LEMMA BackendsNextOK == BackendsInv /\ [BackendsNext]_allVars => BackendsInv'
<1> SUFFICES ASSUME BackendsInv, [BackendsNext]_allVars PROVE BackendsInv'
  OBVIOUS
<1>1. CASE UNCHANGED allVars
  <2>1. UNCHANGED vmVars /\ UNCHANGED settingVars /\ UNCHANGED pyVars
    BY <1>1 DEF allVars
  <2>2. TypeOK'
    BY <2>1, VmKept DEF BackendsInv
  <2> QED BY <2>1, <2>2 DEF BackendsInv, SettingsOK, PyInv, settingVars, pyVars
<1> QED BY <1>1, RunOfHostOK, RustStepOK, StartPythonOK, PythonStepOK, BetweenOK
        DEF BackendsNext, Running

LEMMA TypesFollow == BackendsInv => PythonTypeOK
<1> SUFFICES ASSUME BackendsInv PROVE PythonTypeOK
  OBVIOUS
<1>1. StateOK(state, heap) /\ HeapOK(heap)
  BY DEF BackendsInv, PyInv
<1>2. state.stack \in Seq(Py!Word) /\ Len(state.stack) <= StackLimit
  BY <1>1, SameWord, StateFields DEF StateOK
<1>3. /\ \A r \in Reg :
            Py!IsVec(state.registers[r]) => state.registers[r].at \in DOMAIN heap
      /\ \A slot \in DOMAIN state.output :
            Py!IsVec(state.output[slot]) => state.output[slot].at \in DOMAIN heap
  BY <1>1 DEF StateOK, Leads, Py!IsVec
<1>4. \A k \in DOMAIN state.loops :
          state.loops[k].index < Len(state.loops[k].values) \/ state.loops[k].values = <<>>
  BY <1>1 DEF StateOK, PyFrameOK
<1>5. \A n \in DOMAIN heap : heap[n].kind \in {"xqmx", "unset"} => heap[n].elements = <<>>
  BY <1>1 DEF HeapOK, VecOK
<1> QED BY <1>2, <1>3, <1>4, <1>5 DEF PythonTypeOK, Py!PyTypeOK

\* Through every sequence of a host's calls and runs, whatever a program of
\* the Python VM does and however it ends: its stack holds words and keeps
\* MAX_STACK_SIZE although registers and vectors hold any integers, registers and
\* output slots refer to vectors there are, a loop frame has a current value
\* unless it never had one, and a vector holds elements of the type it names
\* (MachineState, Vec and the handlers of src/xqvm_py/xqvm/core).
THEOREM PythonTypeCorrect == BackendsSpec => []PythonTypeOK
BY BackendsInitOK, BackendsNextOK, TypesFollow, PTL DEF BackendsSpec
==============================================================================
