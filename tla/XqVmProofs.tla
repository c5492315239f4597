---------------------------- MODULE XqVmProofs ----------------------------
(***************************************************************************)
(* The VM, for every word width, register file, stack limit, set of        *)
(* programs and host.  First its type correctness: an invariant that is    *)
(* inductive as it stands.  It carries two facts beyond types, that the    *)
(* stack never grows past its limit and that the instruction stream never  *)
(* leaves the code, whichever program pushed the loop frame that sends it  *)
(* somewhere.  Then what the loop frames of this and of earlier runs hold, *)
(* what a failing instruction leaves untouched, and the lemmas on what one *)
(* instruction does that the verifier's soundness needs.                   *)
(***************************************************************************)
EXTENDS XqVm, AluProofs, SequenceTheorems

VmInstr == [op : Ops, imm : Word, r1 : Reg, r2 : Reg, r3 : Reg,
            width : Nat \ {0}]

LEMMA LimitIsNat == StackLimit \in Nat \ {0}
BY VmAssumption

\* What the handlers take from the stack.
LEMMA OperandIsWord ==
    ASSUME StackOK, NEW k \in 1 .. Len(stack) PROVE Operand(k) \in Word
<1>1. stack \in Seq(Word) /\ Len(stack) \in Nat
  BY LenProperties DEF StackOK
<1>2. Len(stack) - k + 1 \in 1 .. Len(stack)
  BY <1>1
<1> QED BY <1>1, <1>2, ElementOfSeq DEF Operand

LEMMA Prefix ==
    ASSUME NEW S, NEW s \in Seq(S), NEW n \in 0 .. Len(s)
    PROVE  /\ SubSeq(s, 1, n) \in Seq(S) /\ Len(SubSeq(s, 1, n)) = n
           /\ \A i \in 1 .. n : SubSeq(s, 1, n)[i] = s[i]
<1>1. Len(s) \in Nat /\ n \in Int /\ 1 \in Int
  BY LenProperties
<1>2. \A i \in 1 .. n : s[i] \in S
  BY <1>1, ElementOfSeq
<1>3. /\ SubSeq(s, 1, n) \in Seq(S)
      /\ Len(SubSeq(s, 1, n)) = IF 1 <= n THEN n - 1 + 1 ELSE 0
      /\ \A i \in 1 .. n - 1 + 1 : SubSeq(s, 1, n)[i] = s[1 + i - 1]
  BY <1>1, <1>2, SubSeqProperties
<1> QED BY <1>1, <1>3

LEMMA RestIsStack ==
    ASSUME StackOK, NEW n \in 0 .. Len(stack)
    PROVE  /\ Rest(n) \in Seq(Word) /\ Len(Rest(n)) = Len(stack) - n
           /\ Len(Rest(n)) <= StackLimit
<1>1. stack \in Seq(Word) /\ Len(stack) \in Nat /\ Len(stack) <= StackLimit
  BY LenProperties DEF StackOK
<1>2. Len(stack) - n \in 0 .. Len(stack)
  BY <1>1
<1>3. Rest(n) \in Seq(Word) /\ Len(Rest(n)) = Len(stack) - n
  BY <1>1, <1>2, Prefix DEF Rest
<1> QED BY <1>1, <1>2, <1>3, LimitIsNat

LEMMA AppendWord ==
    ASSUME NEW s \in Seq(Word), NEW v \in Word
    PROVE  Append(s, v) \in Seq(Word) /\ Len(Append(s, v)) = Len(s) + 1
BY AppendProperties

\* The start of a handler: where it is, and what its outcomes do to the
\* control variables.
LEMMA Fetched ==
    ASSUME ControlOK, pc <= Len(prog.code)
    PROVE  /\ pc \in 1 .. Len(prog.code) /\ Current \in VmInstr
           /\ Len(prog.code) \in Nat
           /\ Behind \in 2 .. Len(prog.code) + 1 /\ Behind > pc
<1>1. prog.code \in Seq(VmInstr)
  BY DEF ControlOK, WellFormed, Program, VmInstr
<1>2. Len(prog.code) \in Nat
  BY <1>1, LenProperties
<1>3. pc \in 1 .. Len(prog.code)
  BY <1>2 DEF ControlOK
<1>4. Current \in VmInstr
  BY <1>1, <1>3, ElementOfSeq DEF Current
<1>5. pc + Current.width <= Len(prog.code) + 1
  BY <1>3 DEF ControlOK, WellFormed, Current
<1>6. Current.width \in Nat \ {0}
  BY <1>4 DEF VmInstr
<1>7. Behind \in 2 .. Len(prog.code) + 1 /\ Behind > pc
  BY <1>2, <1>3, <1>5, <1>6 DEF Behind
<1> QED BY <1>2, <1>3, <1>4, <1>7

LEMMA HandlerStart ==
    ASSUME TypeOK, NEW ops, Executing(ops)
    PROVE  /\ pc \in 1 .. Len(prog.code) /\ Len(prog.code) \in Nat
           /\ Behind \in 2 .. Len(prog.code) + 1 /\ Behind > pc
           /\ Current \in VmInstr /\ Current.op \in ops
           /\ Len(stack) \in Nat /\ Len(stack) >= Needs(Current.op)
           /\ prog' = prog /\ calldata' = calldata
BY Fetched, LenProperties DEF TypeOK, StackOK, Executing, hostVars

LEMMA Outcomes ==
    ASSUME TypeOK, NEW ops, Executing(ops)
    PROVE  /\ Continue => ControlOK'
           /\ \A e \in VmErrors : Fault(e) => ControlOK'
           /\ \A target \in Nat \ {0} : Seek(target) => ControlOK'
           /\ \A label \in Word : JumpTo(label) => ControlOK'
<1>1. /\ pc \in 1 .. Len(prog.code) /\ Len(prog.code) \in Nat
      /\ Behind \in 1 .. Len(prog.code) + 1
      /\ WellFormed(prog) /\ prog' = prog
  BY HandlerStart DEF TypeOK, ControlOK
<1>2. /\ WellFormed(prog)' /\ stepLimit' \in 1 .. MaxSteps /\ steps' \in Nat
      /\ skipDepth \in Nat /\ status \in {"idle", "running", "ok"} \cup VmErrors
  BY <1>1 DEF TypeOK, ControlOK, Executing, hostVars, WellFormed
<1>3. Continue => ControlOK'
  BY <1>1, <1>2 DEF Continue, ControlOK
<1>4. \A e \in VmErrors : Fault(e) => ControlOK'
  BY <1>1, <1>2 DEF Fault, ControlOK
<1>5. ASSUME NEW target \in Nat \ {0}, Seek(target) PROVE ControlOK'
  <2>1. CASE target > Len(prog.code) + 1
    <3>1. Fault("SeekOutOfBounds")
      BY <1>5, <2>1 DEF Seek
    <3> QED BY <3>1, <1>4 DEF VmErrors
  <2>2. CASE ~(target > Len(prog.code) + 1)
    <3>1. pc' = target /\ UNCHANGED <<status, skipDepth>>
      BY <1>5, <2>2 DEF Seek
    <3>2. target \in 1 .. Len(prog.code) + 1
      BY <1>1, <2>2
    <3> QED BY <1>1, <1>2, <3>1, <3>2 DEF ControlOK
  <2> QED BY <2>1, <2>2
<1>6. ASSUME NEW label \in Word, JumpTo(label) PROVE ControlOK'
  <2>1. CASE label + 1 \in 1 .. Len(prog.table)
    <3>1. prog.table \in Seq(Nat \ {0})
      BY <1>1 DEF WellFormed, Program
    <3>2. prog.table[label + 1] \in Nat \ {0}
      BY <2>1, <3>1, ElementOfSeq
    <3> QED BY <1>5, <1>6, <2>1, <3>2 DEF JumpTo
  <2>2. CASE label + 1 \notin 1 .. Len(prog.table)
    BY <1>4, <1>6, <2>2 DEF JumpTo, VmErrors
  <2> QED BY <2>1, <2>2
<1> QED BY <1>3, <1>4, <1>5, <1>6

\* A push at the end of a handler.
LEMMA Pushed ==
    ASSUME TypeOK, NEW ops, Executing(ops),
           NEW v \in Word, NEW base \in Seq(Word), Len(base) <= StackLimit,
           Push(v, base)
    PROVE  ControlOK' /\ StackOK'
<1>1. Len(base) \in Nat
  BY LenProperties
<1>2. CASE Len(base) >= StackLimit
  BY <1>2, Outcomes DEF Push, StackOK, VmErrors
<1>3. CASE ~(Len(base) >= StackLimit)
  <2>1. stack' = Append(base, v) /\ Continue
    BY <1>3 DEF Push
  <2>2. Append(base, v) \in Seq(Word) /\ Len(Append(base, v)) = Len(base) + 1
    BY AppendWord
  <2> QED BY <1>1, <1>3, <2>1, <2>2, Outcomes, LimitIsNat DEF StackOK
<1> QED BY <1>2, <1>3

\* The operand counts, where they are needed.
LEMMA NeedsOf ==
    /\ \A op : Needs(op) \in 0 .. 3
    /\ \A op \in {"JUMPI", "STOW", "INPUT", "OUTPUT", "POP", "COPY", "VECPUSH",
                  "VECGET"} \cup UnaryOps : Needs(op) = 1
    /\ \A op \in {"RANGE", "ITER", "SWAP", "VECSET", "SLACK", "IDXTRIU"}
                    \cup BinaryOps : Needs(op) = 2
    /\ Needs("IDXGRID") = 3
BY DEF Needs, NeedOne, NeedTwo, NeedThree, UnaryOps, BinaryOps

\* What a handler leaves alone stays well typed.
LEMMA Kept ==
    ASSUME TypeOK, NEW ops, Executing(ops)
    PROVE  /\ stack' = stack => StackOK'
           /\ regs' = regs => RegsOK'
           /\ loopStack' = loopStack => LoopsOK'
           /\ outputs' = outputs => SlotsOK'
BY DEF TypeOK, StackOK, RegsOK, LoopsOK, SlotsOK, Executing, hostVars

\* What the stack holds for the handler of an operation that needs n values.
LEMMA Operands ==
    ASSUME TypeOK, NEW ops, Executing(ops), NEW n \in Nat, n <= Needs(Current.op)
    PROVE  /\ n \in 0 .. Len(stack)
           /\ \A k \in 1 .. n : Operand(k) \in Word
           /\ Rest(n) \in Seq(Word)
           /\ Len(Rest(n)) = Len(stack) - n /\ Len(Rest(n)) <= StackLimit
           /\ stack' = Rest(n) => StackOK'
           /\ \A v \in Word : stack' = Append(Rest(n), v) /\ n > 0 => StackOK'
<1>1. StackOK /\ Len(stack) \in Nat /\ Len(stack) <= StackLimit
  BY HandlerStart DEF TypeOK, StackOK
<1>2. Needs(Current.op) \in Nat /\ Len(stack) >= Needs(Current.op)
  BY HandlerStart, NeedsOf
<1>3. n \in 0 .. Len(stack)
  BY <1>1, <1>2
<1>4. /\ Rest(n) \in Seq(Word) /\ Len(Rest(n)) = Len(stack) - n
      /\ Len(Rest(n)) <= StackLimit
  BY <1>1, <1>3, RestIsStack
<1>5. \A k \in 1 .. n : Operand(k) \in Word
  BY <1>1, <1>3, OperandIsWord
<1>6. \A v \in Word : /\ Append(Rest(n), v) \in Seq(Word)
                      /\ Len(Append(Rest(n), v)) = Len(Rest(n)) + 1
  BY <1>4, AppendWord
<1>7. stack' = Rest(n) => StackOK'
  BY <1>4 DEF StackOK
<1>8. ASSUME NEW v \in Word, stack' = Append(Rest(n), v), n > 0 PROVE StackOK'
  <2>1. stack' \in Seq(Word) /\ Len(stack') = Len(stack) - n + 1
    BY <1>4, <1>6, <1>8
  <2>2. Len(stack) - n + 1 <= StackLimit
    BY <1>1, <1>8, LimitIsNat
  <2> QED BY <2>1, <2>2 DEF StackOK
<1> QED BY <1>3, <1>4, <1>5, <1>7, <1>8

LEMMA Assembled ==
    ASSUME TypeOK, NEW ops, Executing(ops), ControlOK', StackOK', RegsOK',
           UNCHANGED <<loopStack, outputs>>
    PROVE  TypeOK'
BY Kept DEF TypeOK

--------------------------------------------------------------------------
(* Handlers that touch the control variables and the stack only.          *)

LEMMA UnderflowOK == ASSUME TypeOK, Underflow PROVE TypeOK'
<1>1. ControlOK' /\ RegsOK' /\ LoopsOK' /\ SlotsOK'
  BY DEF TypeOK, ControlOK, WellFormed, RegsOK, LoopsOK, SlotsOK, Underflow,
         Fault, VmErrors, hostVars
<1>2. StackOK'
  <2>1. <<>> \in Seq(Word) /\ Len(<<>>) = 0
    BY EmptySeq
  <2> QED BY <2>1, LimitIsNat DEF TypeOK, StackOK, Underflow
<1> QED BY <1>1, <1>2 DEF TypeOK

LEMMA ControlOnlyOK ==
    ASSUME TypeOK, ExecNop \/ ExecHalt \/ ExecBad \/ ExecJump PROVE TypeOK'
<1>1. PICK ops : Executing(ops)
  BY DEF ExecNop, ExecHalt, ExecBad, ExecJump
<1>2. UNCHANGED <<stack, regs, loopStack, outputs>>
  BY DEF ExecNop, ExecHalt, ExecBad, ExecJump
<1>3. ControlOK'
  <2>1. CASE ExecNop
    BY <2>1, <1>1, Outcomes DEF ExecNop
  <2>2. CASE ExecHalt
    BY <2>2, <1>1, HandlerStart
       DEF ExecHalt, TypeOK, ControlOK, WellFormed, Executing, hostVars
  <2>3. CASE ExecBad
    BY <2>3, <1>1, Outcomes DEF ExecBad, VmErrors
  <2>4. CASE ExecJump
    <3>1. Current.imm \in Word
      BY <1>1, HandlerStart DEF VmInstr
    <3> QED BY <2>4, <3>1, <1>1, Outcomes DEF ExecJump
  <2> QED BY <2>1, <2>2, <2>3, <2>4
<1> QED BY <1>1, <1>2, <1>3, Kept, Assembled

LEMMA JumpIOK == ASSUME TypeOK, ExecJumpI PROVE TypeOK'
<1>1. Executing({"JUMPI"}) /\ UNCHANGED <<regs, loopStack, outputs>>
  BY DEF ExecJumpI
<1>2. Needs(Current.op) = 1 /\ Current.imm \in Word
  BY <1>1, HandlerStart, NeedsOf DEF VmInstr
<1>3. StackOK'
  BY <1>1, <1>2, Operands DEF ExecJumpI
<1>4. ControlOK'
  BY <1>1, <1>2, Outcomes DEF ExecJumpI
<1> QED BY <1>1, <1>3, <1>4, Kept, Assembled

LEMMA StackMovesOK ==
    ASSUME TypeOK, ExecPush \/ ExecPop \/ ExecCopy \/ ExecSwap \/ ExecSclr
    PROVE  TypeOK'
<1>1. PICK ops : Executing(ops)
  BY DEF ExecPush, ExecPop, ExecCopy, ExecSwap, ExecSclr
<1>2. UNCHANGED <<regs, loopStack, outputs>>
  BY DEF ExecPush, ExecPop, ExecCopy, ExecSwap, ExecSclr
<1>3. /\ stack \in Seq(Word) /\ Len(stack) \in Nat /\ Len(stack) <= StackLimit
      /\ Current.imm \in Word
  BY <1>1, HandlerStart DEF TypeOK, StackOK, VmInstr
<1>4. ControlOK' /\ StackOK'
  <2>1. CASE ExecPush
    BY <2>1, <1>1, <1>3, Pushed DEF ExecPush
  <2>2. CASE ExecPop
    <3>1. Needs(Current.op) = 1
      BY <2>2, HandlerStart, NeedsOf DEF ExecPop
    <3> QED BY <2>2, <1>1, <3>1, Operands, Outcomes DEF ExecPop
  <2>3. CASE ExecCopy
    <3>1. Needs(Current.op) = 1
      BY <2>3, HandlerStart, NeedsOf DEF ExecCopy
    <3>2. Operand(1) \in Word
      BY <1>1, <3>1, Operands
    <3> QED BY <2>3, <1>1, <1>3, <3>2, Pushed DEF ExecCopy
  <2>4. CASE ExecSwap
    <3>1. Needs(Current.op) = 2
      BY <2>4, HandlerStart, NeedsOf DEF ExecSwap
    <3>2. /\ Operand(1) \in Word /\ Operand(2) \in Word /\ Rest(2) \in Seq(Word)
          /\ Len(Rest(2)) = Len(stack) - 2
      BY <1>1, <3>1, Operands
    <3>3. <<Operand(1), Operand(2)>> \in Seq(Word)
          /\ Len(<<Operand(1), Operand(2)>>) = 2
      BY <3>2
    <3>4. stack' \in Seq(Word) /\ Len(stack') = Len(stack)
      BY <2>4, <1>3, <3>2, <3>3, ConcatProperties DEF ExecSwap
    <3> QED BY <2>4, <1>1, <1>3, <3>4, Outcomes DEF ExecSwap, StackOK
  <2>5. CASE ExecSclr
    <3>1. <<>> \in Seq(Word) /\ Len(<<>>) = 0
      BY EmptySeq
    <3> QED BY <2>5, <1>1, <3>1, LimitIsNat, Outcomes DEF ExecSclr, StackOK
  <2> QED BY <2>1, <2>2, <2>3, <2>4, <2>5
               DEF ExecPush, ExecPop, ExecCopy, ExecSwap, ExecSclr
<1> QED BY <1>1, <1>2, <1>4, Kept, Assembled

LEMMA ArithmeticOK ==
    ASSUME TypeOK, ExecUnary \/ ExecBinary \/ ExecIdxGrid \/ ExecIdxTriu
    PROVE  TypeOK'
<1>1. PICK ops : Executing(ops)
  BY DEF ExecUnary, ExecBinary, ExecIdxGrid, ExecIdxTriu
<1>2. UNCHANGED <<regs, loopStack, outputs>>
  BY DEF ExecUnary, ExecBinary, ExecIdxGrid, ExecIdxTriu
<1>3. ControlOK' /\ StackOK'
  <2>1. CASE ExecUnary
    <3>1. Current.op \in UnaryOps
      BY <2>1, HandlerStart DEF ExecUnary
    <3>2. Needs(Current.op) = 1
      BY <3>1, NeedsOf
    <3>3. Unary(Current.op, Operand(1)) \in Word
      BY <1>1, <3>1, <3>2, Operands, UnaryInWord
    <3> QED BY <2>1, <1>1, <3>2, <3>3, Operands, Outcomes DEF ExecUnary
  <2>2. CASE ExecBinary
    <3> DEFINE e == BinaryError(Current.op, Operand(1))
    <3>1. Current.op \in BinaryOps
      BY <2>2, HandlerStart DEF ExecBinary
    <3>2. Needs(Current.op) = 2
      BY <3>1, NeedsOf
    <3>3. Operand(1) \in Word /\ Operand(2) \in Word
      BY <1>1, <3>2, Operands
    <3>4. CASE e = "none"
      <4>1. Binary(Current.op, Operand(2), Operand(1)) \in Word
        BY <3>1, <3>3, <3>4, BinaryInWord
      <4> QED BY <2>2, <1>1, <3>2, <3>4, <4>1, Operands, Outcomes DEF ExecBinary
    <3>5. CASE e # "none"
      <4>1. e \in VmErrors
        BY <3>5 DEF BinaryError, VmErrors
      <4>2. stack' = Rest(2) /\ Fault(e)
        BY <2>2, <3>5 DEF ExecBinary
      <4> QED BY <1>1, <3>2, <4>1, <4>2, Operands, Outcomes
    <3> QED BY <3>4, <3>5
  <2>3. CASE ExecIdxGrid
    <3>1. Needs(Current.op) = 3
      BY <2>3, HandlerStart, NeedsOf DEF ExecIdxGrid
    <3>2. Operand(1) \in Int /\ Operand(2) \in Int /\ Operand(3) \in Int
      <4>1. {Operand(1), Operand(2), Operand(3)} \subseteq Word
        BY <1>1, <3>1, Operands
      <4> QED BY <4>1, WordIsInterval
    <3>3. Wrap(Operand(3) * Operand(1)) \in Word
      BY <3>2, WrapInWord
    <3>4. Wrap(Operand(3) * Operand(1)) + Operand(2) \in Int
      <4>1. Wrap(Operand(3) * Operand(1)) \in Int
        BY <3>3, WordIsInterval
      <4> QED BY <3>2, <4>1
    <3>5. IdxGrid(Operand(3), Operand(2), Operand(1)) \in Word
      BY <3>4, WrapInWord DEF IdxGrid
    <3>6. stack' = Append(Rest(3), IdxGrid(Operand(3), Operand(2), Operand(1)))
      BY <2>3 DEF ExecIdxGrid
    <3>7. StackOK'
      <4>1. 3 \in Nat /\ 3 <= Needs(Current.op) /\ 3 > 0
        BY <3>1
      <4> QED BY ONLY TypeOK, <1>1, <4>1, <3>5, <3>6, Operands
    <3>8. ControlOK'
      BY <2>3, <1>1, Outcomes DEF ExecIdxGrid
    <3> QED BY <3>7, <3>8
  <2>4. CASE ExecIdxTriu
    <3>1. Needs(Current.op) = 2
      BY <2>4, HandlerStart, NeedsOf DEF ExecIdxTriu
    <3>2. Operand(1) \in Int /\ Operand(2) \in Int
      <4>1. {Operand(1), Operand(2)} \subseteq Word
        BY <1>1, <3>1, Operands
      <4> QED BY <4>1, WordIsInterval
    <3>3. TriuSum(Operand(2), Operand(1)) \in Int
      <4>1. Operand(1) - 1 \in Int
        BY <3>2
      <4>2. Wrap(Operand(1) - 1) \in Int
        BY <4>1, WrapInWord, WordIsInterval
      <4>3. Operand(1) * Wrap(Operand(1) - 1) \in Int
        BY <3>2, <4>2
      <4>4. Wrap(Operand(1) * Wrap(Operand(1) - 1)) \in Word
        BY <4>3, WrapInWord
      <4>5. 2 \in Word
        BY WordIsInterval
      <4>6. TruncDiv(Wrap(Operand(1) * Wrap(Operand(1) - 1)), 2) \in Int
        <5>1. TruncDiv(Wrap(Operand(1) * Wrap(Operand(1) - 1)), 2) \in Word
          BY <4>4, <4>5, TruncInWord
        <5> QED BY <5>1, WordIsInterval
      <4> QED BY <3>2, <4>6 DEF TriuSum
    <3>4. IdxTriu(Operand(2), Operand(1)) \in Word
      BY <3>3, WrapInWord DEF IdxTriu
    <3> QED BY <2>4, <1>1, <3>1, <3>4, Operands, Outcomes DEF ExecIdxTriu, VmErrors
  <2> QED BY <2>1, <2>2, <2>3, <2>4
<1> QED BY <1>1, <1>2, <1>3, Kept, Assembled

--------------------------------------------------------------------------
(* Handlers that write registers.                                         *)

LEMMA Values ==
    /\ Unset \in RegVal
    /\ \A i \in Word : IntVal(i) \in RegVal
    /\ \A s \in Seq(Word) : VecInt(s) \in RegVal
    /\ \A s \in Seq(Models) : VecXqmx(s) \in RegVal
    /\ \A m \in Models : ModelVal(m) \in RegVal
    /\ \A v \in RegVal : /\ v.tag = "Int" => v.int \in Word
                         /\ v.tag = "VecInt" => v.ints \in Seq(Word)
                         /\ v.tag = "VecXqmx" => v.models \in Seq(Models)
BY DEF RegVal, Unset, IntVal, VecInt, VecXqmx, ModelVal

LEMMA RegisterValue ==
    ASSUME TypeOK, NEW ops, Executing(ops)
    PROVE  /\ Current.r1 \in Reg /\ Current.r2 \in Reg
           /\ regs \in [Reg -> RegVal]
           /\ regs[Current.r1] \in RegVal /\ regs[Current.r2] \in RegVal
BY HandlerStart DEF TypeOK, RegsOK, VmInstr

LEMMA RegisterSet ==
    ASSUME TypeOK, NEW r \in Reg, NEW v \in RegVal,
           regs' = [regs EXCEPT ![r] = v]
    PROVE  RegsOK'
BY DEF TypeOK, RegsOK

LEMMA StowOK == ASSUME TypeOK, ExecStow PROVE TypeOK'
<1>1. Executing({"STOW"}) /\ UNCHANGED <<loopStack, outputs>>
  BY DEF ExecStow
<1>2. Needs(Current.op) = 1
  BY <1>1, HandlerStart, NeedsOf
<1>3. IntVal(Operand(1)) \in RegVal
  BY <1>1, <1>2, Operands, Values
<1>4. RegsOK'
  BY <1>1, <1>3, RegisterValue, RegisterSet DEF ExecStow
<1>5. StackOK' /\ ControlOK'
  BY <1>1, <1>2, Operands, Outcomes DEF ExecStow
<1> QED BY <1>1, <1>4, <1>5, Assembled

LEMMA DropOK == ASSUME TypeOK, ExecDrop PROVE TypeOK'
<1>1. Executing({"DROP"}) /\ UNCHANGED <<stack, loopStack, outputs>>
  BY DEF ExecDrop
<1>2. RegsOK'
  BY <1>1, Values, RegisterValue, RegisterSet DEF ExecDrop
<1> QED BY <1>1, <1>2, Kept, Outcomes, Assembled DEF ExecDrop

LEMMA LoadOK == ASSUME TypeOK, ExecLoad PROVE TypeOK'
<1> DEFINE v == regs[Current.r1]
<1>1. Executing({"LOAD"}) /\ UNCHANGED <<regs, loopStack, outputs>>
  BY DEF ExecLoad
<1>2. stack \in Seq(Word) /\ Len(stack) <= StackLimit /\ v \in RegVal
  BY <1>1, RegisterValue DEF TypeOK, StackOK
<1>3. ControlOK' /\ StackOK'
  <2>1. CASE v.tag = "Int"
    <3>1. v.int \in Word
      BY <1>2, <2>1, Values
    <3>2. Push(v.int, stack)
      BY <2>1, Zenon DEF ExecLoad
    <3> QED BY <1>1, <1>2, <3>1, <3>2, Pushed
  <2>2. CASE v.tag = "Unset"
    <3>1. Fault("UnsetRegister") /\ UNCHANGED stack
      BY <2>2 DEF ExecLoad
    <3> QED BY <1>1, <3>1, Outcomes, Kept DEF VmErrors
  <2>3. CASE v.tag \notin {"Int", "Unset"}
    <3>1. Fault("RegisterType") /\ UNCHANGED stack
      BY <2>3 DEF ExecLoad
    <3> QED BY <1>1, <3>1, Outcomes, Kept DEF VmErrors
  <2> QED BY <2>1, <2>2, <2>3
<1> QED BY <1>1, <1>3, Kept, Assembled

\* An index that passed a bounds check, in the one-based sequences here.
LEMMA IndexOK ==
    ASSUME NEW S, NEW s \in Seq(S), NEW i \in Word, InBounds(i, Len(s))
    PROVE  i + 1 \in 1 .. Len(s) /\ s[i + 1] \in S
<1>1. i \in Int /\ Len(s) \in Nat
  BY WordIsInterval, LenProperties
<1>2. i + 1 \in 1 .. Len(s)
  BY <1>1 DEF InBounds
<1> QED BY <1>2, ElementOfSeq

LEMMA InputOK == ASSUME TypeOK, ExecInput PROVE TypeOK'
<1>1. Executing({"INPUT"}) /\ UNCHANGED <<loopStack, outputs>>
  BY DEF ExecInput
<1>2. Needs(Current.op) = 1
  BY <1>1, HandlerStart, NeedsOf
<1>3. Operand(1) \in Word /\ (stack' = Rest(1) => StackOK')
  BY <1>1, <1>2, Operands
<1>4. CASE InBounds(Operand(1), Len(calldata))
  <2>1. calldata[Operand(1) + 1] \in RegVal
    BY <1>3, <1>4, IndexOK DEF TypeOK, SlotsOK
  <2>2. RegsOK'
    BY <1>1, <1>4, <2>1, RegisterValue, RegisterSet DEF ExecInput
  <2>3. ControlOK' /\ StackOK'
    BY <1>1, <1>3, <1>4, Outcomes DEF ExecInput
  <2> QED BY <1>1, <2>2, <2>3, Assembled
<1>5. CASE ~InBounds(Operand(1), Len(calldata))
  <2>1. ControlOK' /\ StackOK'
    BY <1>1, <1>3, <1>5, Outcomes DEF ExecInput, VmErrors
  <2>2. RegsOK'
    BY <1>1, <1>5, Kept DEF ExecInput
  <2> QED BY <1>1, <2>1, <2>2, Assembled
<1> QED BY <1>4, <1>5

LEMMA OutputOK == ASSUME TypeOK, ExecOutput PROVE TypeOK'
<1>1. Executing({"OUTPUT"}) /\ UNCHANGED <<regs, loopStack>>
  BY DEF ExecOutput
<1>2. Needs(Current.op) = 1
  BY <1>1, HandlerStart, NeedsOf
<1>3. Operand(1) \in Word /\ (stack' = Rest(1) => StackOK')
  BY <1>1, <1>2, Operands
<1>4. StackOK' /\ ControlOK' /\ RegsOK' /\ LoopsOK'
  <2>1. StackOK'
    BY <1>3 DEF ExecOutput
  <2>2. ControlOK'
    BY <1>1, Outcomes DEF ExecOutput, VmErrors
  <2> QED BY <1>1, <2>1, <2>2, Kept
<1>5. SlotsOK'
  <2>1. CASE outputs' = outputs
    BY <1>1, <2>1, Kept
  <2>2. CASE outputs' # outputs
    <3>1. /\ InBounds(Operand(1), Len(outputs))
          /\ outputs' = [outputs EXCEPT ![Operand(1) + 1] = regs[Current.r1]]
      BY <2>2 DEF ExecOutput
    <3>2. outputs \in Seq(RegVal) /\ calldata \in Seq(RegVal)
      BY DEF TypeOK, SlotsOK
    <3>3. Operand(1) + 1 \in 1 .. Len(outputs)
      BY <1>3, <3>1, <3>2, IndexOK
    <3>4. outputs' \in Seq(RegVal)
      BY <1>1, <3>1, <3>2, <3>3, RegisterValue, ExceptSeq
    <3>5. calldata' = calldata
      BY <1>1, HandlerStart
    <3> QED BY <3>2, <3>4, <3>5 DEF SlotsOK
  <2> QED BY <2>1, <2>2
<1> QED BY <1>4, <1>5 DEF TypeOK

--------------------------------------------------------------------------
(* Vectors.                                                               *)

LEMMA Elements ==
    ASSUME NEW v \in RegVal, IsVec(v)
    PROVE  VecElements(v) \in Seq(RegVal)
<1>1. CASE v.tag = "VecInt"
  <2>1. v.ints \in Seq(Word) /\ Len(v.ints) \in Nat
    BY <1>1, Values, LenProperties
  <2>2. \A i \in 1 .. Len(v.ints) : IntVal(v.ints[i]) \in RegVal
    BY <2>1, ElementOfSeq, Values
  <2>3. [i \in 1 .. Len(v.ints) |-> IntVal(v.ints[i])] \in Seq(RegVal)
    BY <2>1, <2>2
  <2> QED BY <1>1, <2>3 DEF VecElements
<1>2. CASE v.tag = "VecXqmx"
  <2>1. v.models \in Seq(Models) /\ Len(v.models) \in Nat
    BY <1>2, Values, LenProperties
  <2>2. \A i \in 1 .. Len(v.models) : ModelVal(v.models[i]) \in RegVal
    BY <2>1, ElementOfSeq, Values
  <2>3. [i \in 1 .. Len(v.models) |-> ModelVal(v.models[i])] \in Seq(RegVal)
    BY <2>1, <2>2
  <2> QED BY <1>2, <2>3 DEF VecElements
<1> QED BY <1>1, <1>2 DEF IsVec

LEMMA VecNewOK == ASSUME TypeOK, ExecVecNew PROVE TypeOK'
<1>1. PICK ops : Executing(ops)
  BY DEF ExecVecNew
<1>2. VecXqmx(<<>>) \in RegVal /\ VecInt(<<>>) \in RegVal
  BY EmptySeq, Values
<1>3. RegsOK'
  BY <1>1, <1>2, RegisterValue, RegisterSet DEF ExecVecNew
<1> QED BY <1>1, <1>3, Kept, Outcomes, Assembled DEF ExecVecNew

LEMMA VecPushOK == ASSUME TypeOK, ExecVecPush PROVE TypeOK'
<1> DEFINE v == regs[Current.r1]
<1>1. Executing({"VECPUSH"}) /\ UNCHANGED <<loopStack, outputs>>
  BY DEF ExecVecPush
<1>2. Needs(Current.op) = 1
  BY <1>1, HandlerStart, NeedsOf
<1>3. Operand(1) \in Word /\ (stack' = Rest(1) => StackOK')
  BY <1>1, <1>2, Operands
<1>4. StackOK' /\ ControlOK'
  BY <1>1, <1>3, Outcomes DEF ExecVecPush, VmErrors
<1>5. RegsOK'
  <2>1. CASE v.tag = "VecInt"
    <3>1. VecInt(Append(v.ints, Operand(1))) \in RegVal
      BY <1>1, <1>3, <2>1, RegisterValue, Values, AppendWord
    <3>2. regs' = [regs EXCEPT ![Current.r1] = VecInt(Append(v.ints, Operand(1)))]
      BY <2>1 DEF ExecVecPush
    <3> QED BY <1>1, <3>1, <3>2, RegisterValue, RegisterSet
  <2>2. CASE v.tag # "VecInt"
    BY <1>1, <2>2, Kept DEF ExecVecPush
  <2> QED BY <2>1, <2>2
<1> QED BY <1>1, <1>4, <1>5, Assembled

LEMMA VecGetOK == ASSUME TypeOK, ExecVecGet PROVE TypeOK'
<1> DEFINE v == regs[Current.r1]
           i == Operand(1)
<1>1. Executing({"VECGET"}) /\ UNCHANGED <<regs, loopStack, outputs>>
  BY DEF ExecVecGet
<1>2. Needs(Current.op) = 1
  BY <1>1, HandlerStart, NeedsOf
<1>3. /\ i \in Word /\ (stack' = Rest(1) => StackOK')
      /\ \A x \in Word : stack' = Append(Rest(1), x) => StackOK'
  BY <1>1, <1>2, Operands
<1>4. ControlOK'
  BY <1>1, Outcomes DEF ExecVecGet, VmErrors
<1>5. StackOK'
  <2>1. CASE v.tag = "VecInt" /\ InBounds(i, Len(v.ints))
    <3>1. v.ints \in Seq(Word)
      BY <1>1, <2>1, RegisterValue, Values
    <3>2. v.ints[i + 1] \in Word
      BY <1>3, <2>1, <3>1, IndexOK
    <3> QED BY <1>3, <2>1, <3>2 DEF ExecVecGet
  <2>2. CASE ~(v.tag = "VecInt" /\ InBounds(i, Len(v.ints)))
    BY <1>3, <2>2 DEF ExecVecGet
  <2> QED BY <2>1, <2>2
<1> QED BY <1>1, <1>4, <1>5, Kept, Assembled

LEMMA VecSetOK == ASSUME TypeOK, ExecVecSet PROVE TypeOK'
<1> DEFINE v == regs[Current.r1]
           i == Operand(2)
<1>1. Executing({"VECSET"}) /\ UNCHANGED <<loopStack, outputs>>
  BY DEF ExecVecSet
<1>2. Needs(Current.op) = 2
  BY <1>1, HandlerStart, NeedsOf
<1>3. Operand(1) \in Word /\ i \in Word /\ (stack' = Rest(2) => StackOK')
  BY <1>1, <1>2, Operands
<1>4. StackOK' /\ ControlOK'
  BY <1>1, <1>3, Outcomes DEF ExecVecSet, VmErrors
<1>5. RegsOK'
  <2>1. CASE v.tag = "VecInt" /\ InBounds(i, Len(v.ints))
    <3>1. v.ints \in Seq(Word)
      BY <1>1, <2>1, RegisterValue, Values
    <3>2. i + 1 \in 1 .. Len(v.ints)
      BY <1>3, <2>1, <3>1, IndexOK
    <3>3. VecInt([v.ints EXCEPT ![i + 1] = Operand(1)]) \in RegVal
      BY <1>3, <3>1, <3>2, ExceptSeq, Values
    <3>4. regs' = [regs EXCEPT ![Current.r1] =
                     VecInt([v.ints EXCEPT ![i + 1] = Operand(1)])]
      BY <2>1 DEF ExecVecSet
    <3> QED BY <1>1, <3>3, <3>4, RegisterValue, RegisterSet
  <2>2. CASE ~(v.tag = "VecInt" /\ InBounds(i, Len(v.ints)))
    BY <1>1, <2>2, Kept DEF ExecVecSet
  <2> QED BY <2>1, <2>2
<1> QED BY <1>1, <1>4, <1>5, Assembled

LEMMA VecLenOK == ASSUME TypeOK, ExecVecLen PROVE TypeOK'
<1> DEFINE v == regs[Current.r1]
           n == Len(VecElements(v))
           clipped == IF n > MaxWord THEN MaxWord ELSE n
<1>1. Executing({"VECLEN"}) /\ UNCHANGED <<regs, loopStack, outputs>>
  BY DEF ExecVecLen
<1>2. stack \in Seq(Word) /\ Len(stack) <= StackLimit /\ v \in RegVal
  BY <1>1, RegisterValue DEF TypeOK, StackOK
<1>3. CASE IsVec(v)
  <2>1. n \in Nat
    BY <1>2, <1>3, Elements, LenProperties
  <2>2. clipped \in Word
    BY <2>1, WordIsInterval DEF MaxWord
  <2>3. Push(clipped, stack)
    BY <1>3 DEF ExecVecLen
  <2>4. ControlOK' /\ StackOK'
    BY <1>1, <1>2, <2>2, <2>3, Pushed
  <2> QED BY <1>1, <2>4, Kept, Assembled
<1>4. CASE ~IsVec(v)
  BY <1>1, <1>4, Kept, Outcomes, Assembled DEF ExecVecLen, VmErrors
<1> QED BY <1>3, <1>4

\* SLACK appends an interval of wrapped indices, as many of them as it got to,
\* and the powers of two below the capacity.
LEMMA SlackOK == ASSUME TypeOK, ExecSlack PROVE TypeOK'
<1> DEFINE start == Operand(2)
           bits == BitLen(Operand(1))
           fit == IF Overflows(start + bits - 1) THEN MaxWord - start + 1
                                                 ELSE bits
           indices == [i \in 1 .. fit |-> Wrap(start + i - 1)]
           powers == [i \in 1 .. bits |-> 2 ^ (i - 1)]
           first == VecInt(regs[Current.r1].ints \o indices)
           withIndices == [regs EXCEPT ![Current.r1] = first]
<1>1. Executing({"SLACK"}) /\ UNCHANGED <<loopStack, outputs>>
  BY DEF ExecSlack
<1>2. Needs(Current.op) = 2
  BY <1>1, HandlerStart, NeedsOf
<1>3. Operand(1) \in Word /\ start \in Word /\ (stack' = Rest(2) => StackOK')
  BY <1>1, <1>2, Operands
<1>4. StackOK' /\ ControlOK'
  BY <1>1, <1>3, Outcomes DEF ExecSlack, VmErrors
<1>5. bits \in 0 .. WordBits - 1 /\ start \in Int /\ start <= MaxWord
  <2>1. bits \in 0 .. WordBits - 1
    BY <1>3, BitLenInWord
  <2>2. start \in Int /\ start < Half /\ Half \in Nat
    BY <1>3, WordIsInterval
  <2> QED BY <2>1, <2>2 DEF MaxWord
<1>6. indices \in Seq(Word)
  <2>1. fit \in Nat
    BY <1>5, WordIsInterval DEF MaxWord
  <2>2. \A i \in 1 .. fit : Wrap(start + i - 1) \in Word
    <3> TAKE i \in 1 .. fit
    <3>1. start + i - 1 \in Int
      BY <1>5, <2>1
    <3> QED BY <3>1, WrapInWord
  <2> QED BY <2>1, <2>2
<1>7. powers \in Seq(Word)
  <2>1. \A i \in 1 .. bits : 2 ^ (i - 1) \in Word
    <3> TAKE i \in 1 .. bits
    <3>1. i - 1 \in Nat /\ i - 1 \in 0 .. WordBits - 2
      BY <1>5, WordIsInterval
    <3>2. 2 ^ (i - 1) \in Nat /\ 2 ^ (i - 1) < Half
      BY <3>1, PowerOfBit, WordAssumption
    <3> QED BY <3>2, WordIsInterval
  <2> QED BY <1>5, <2>1, WordIsInterval
<1> HIDE DEF start, bits, fit, indices, powers
<1>8. CASE regs' = regs
  BY <1>1, <1>4, <1>8, Kept, Assembled
<1>9. CASE regs' # regs
  <2>1. regs[Current.r1].tag = "VecInt"
    BY <1>9 DEF ExecSlack
  <2>2. \/ regs' = withIndices
        \/ /\ withIndices[Current.r2].tag = "VecInt"
           /\ regs' = [withIndices EXCEPT ![Current.r2] =
                         VecInt(withIndices[Current.r2].ints \o powers)]
    BY <1>9 DEF ExecSlack, start, bits, fit, indices, powers
  <2>3. first \in RegVal
    BY <1>1, <1>6, <2>1, RegisterValue, Values, ConcatProperties
  <2> HIDE DEF first
  <2>4. withIndices \in [Reg -> RegVal]
    BY <1>1, <2>3, RegisterValue
  <2>5. RegsOK'
    <3>1. CASE regs' = withIndices
      BY <2>4, <3>1 DEF RegsOK
    <3>2. CASE regs' # withIndices
      <4> DEFINE second == VecInt(withIndices[Current.r2].ints \o powers)
      <4>1. withIndices[Current.r2] \in RegVal /\ Current.r2 \in Reg
        BY <1>1, <2>4, RegisterValue
      <4>2. withIndices[Current.r2].tag = "VecInt"
        BY <2>2, <3>2
      <4> HIDE DEF withIndices
      <4>3. second \in RegVal
        BY <1>7, <4>1, <4>2, Values, ConcatProperties
      <4>4. regs' = [withIndices EXCEPT ![Current.r2] = second]
        BY <2>2, <3>2
      <4> HIDE DEF second
      <4> QED BY <2>4, <4>1, <4>3, <4>4 DEF RegsOK
    <3> QED BY <3>1, <3>2
  <2> QED BY <1>1, <1>4, <2>5, Assembled
<1> QED BY <1>8, <1>9

--------------------------------------------------------------------------
(* Loops.                                                                 *)

FrameOK(f) == f \in RangeFrame \cup IterFrame

LEMMA TopFrameOK ==
    ASSUME TypeOK, loopStack # <<>>
    PROVE  /\ Len(loopStack) \in Nat \ {0} /\ FrameOK(TopFrame)
           /\ TopFrame.kind = "range" => /\ TopFrame \in RangeFrame
                                         /\ TopFrame.current \in Word
           /\ TopFrame.kind # "range" => /\ TopFrame \in IterFrame
                                         /\ TopFrame.elements \in Seq(RegVal)
                                         /\ TopFrame.start \in Nat
                                         /\ TopFrame.index \in Nat
<1>1. loopStack \in Seq(RangeFrame \cup IterFrame)
  BY DEF TypeOK, LoopsOK
<1>2. Len(loopStack) \in Nat \ {0}
  BY <1>1, EmptySeq, LenProperties
<1>3. FrameOK(TopFrame)
  BY <1>1, <1>2, ElementOfSeq DEF TopFrame, FrameOK
<1> QED BY <1>2, <1>3 DEF FrameOK, RangeFrame, IterFrame

\* The loop stack after a step that keeps every frame but the last, which it
\* drops, replaces or follows by a new one.
LEMMA LoopsDropped ==
    ASSUME TypeOK, loopStack # <<>>,
           loopStack' = SubSeq(loopStack, 1, Len(loopStack) - 1)
    PROVE  LoopsOK'
<1>1. loopStack \in Seq(RangeFrame \cup IterFrame) /\ Len(loopStack) \in Nat \ {0}
  BY TopFrameOK DEF TypeOK, LoopsOK
<1>2. Len(loopStack) - 1 \in 0 .. Len(loopStack)
  BY <1>1
<1> QED BY <1>1, <1>2, Prefix DEF LoopsOK

LEMMA LoopsReplaced ==
    ASSUME TypeOK, loopStack # <<>>, NEW f, FrameOK(f),
           loopStack' = [loopStack EXCEPT ![Len(loopStack)] = f]
    PROVE  LoopsOK'
<1>1. loopStack \in Seq(RangeFrame \cup IterFrame) /\ Len(loopStack) \in Nat \ {0}
  BY TopFrameOK DEF TypeOK, LoopsOK
<1> QED BY <1>1, ExceptSeq DEF FrameOK, LoopsOK

LEMMA LoopsPushed ==
    ASSUME TypeOK, NEW f, FrameOK(f),
           loopStack' = Append(loopStack, f)
    PROVE  LoopsOK'
BY AppendProperties DEF TypeOK, LoopsOK, FrameOK

LEMMA NextOK == ASSUME TypeOK, ExecNext PROVE TypeOK'
<1> DEFINE f == Advanced(TopFrame)
<1>1. Executing({"NEXT"}) /\ UNCHANGED <<stack, regs, outputs>>
  BY DEF ExecNext
<1>2. prog' = prog /\ StackOK' /\ RegsOK' /\ SlotsOK'
  BY <1>1, HandlerStart, Kept
<1>3. CASE loopStack' = loopStack /\ \E e \in VmErrors : Fault(e)
  BY <1>1, <1>2, <1>3, Kept, Outcomes DEF TypeOK
<1>4. CASE loopStack # <<>> /\ Seek(f.body)
             /\ loopStack' = [loopStack EXCEPT ![Len(loopStack)] = f]
  <2>1. FrameOK(f)
    <3>1. CASE TopFrame.kind = "range"
      <4>1. TopFrame.current \in Int
        BY <1>4, <3>1, TopFrameOK, WordIsInterval
      <4>2. TopFrame.current + 1 \in Int
        BY <4>1
      <4>3. Wrap(TopFrame.current + 1) \in Word
        BY <4>2, WrapInWord
      <4> QED BY <1>4, <3>1, <4>3, TopFrameOK DEF Advanced, FrameOK, RangeFrame
    <3>2. CASE TopFrame.kind # "range"
      <4>1. TopFrame \in IterFrame /\ TopFrame.index + 1 \in Nat
        BY <1>4, <3>2, TopFrameOK
      <4>2. f = [TopFrame EXCEPT !.index = TopFrame.index + 1]
        BY <3>2 DEF Advanced
      <4>3. f \in IterFrame /\ f.body = TopFrame.body
        BY <4>1, <4>2 DEF IterFrame
      <4> QED BY <1>4, <4>3, TopFrameOK DEF FrameOK
    <3> QED BY <3>1, <3>2
  <2>2. LoopsOK'
    BY <1>2, <1>4, <2>1, LoopsReplaced
  <2>3. ControlOK'
    <3>1. f.body \in Nat \ {0}
      BY <2>1 DEF FrameOK, RangeFrame, IterFrame
    <3> QED BY <1>1, <1>4, <3>1, Outcomes
  <2> QED BY <1>2, <2>2, <2>3 DEF TypeOK
<1>5. CASE loopStack # <<>> /\ Continue
             /\ loopStack' = SubSeq(loopStack, 1, Len(loopStack) - 1)
  BY <1>1, <1>2, <1>5, LoopsDropped, Outcomes DEF TypeOK
<1> QED BY <1>3, <1>4, <1>5 DEF ExecNext, VmErrors

LEMMA LidxOK == ASSUME TypeOK, ExecLidx PROVE TypeOK'
<1> DEFINE i == IF TopFrame.kind = "range" THEN TopFrame.current
                ELSE TopFrame.start + TopFrame.index
           clipped == IF i > MaxWord THEN MaxWord ELSE i
<1>1. Executing({"LIDX"}) /\ UNCHANGED <<stack, loopStack, outputs>>
  BY DEF ExecLidx
<1>2. CASE loopStack = <<>>
  BY <1>1, <1>2, Kept, Outcomes, Assembled DEF ExecLidx, VmErrors
<1>3. CASE loopStack # <<>>
  <2>1. clipped \in Word
    <3>1. CASE TopFrame.kind = "range"
      <4>1. i \in Word
        BY <1>3, <3>1, TopFrameOK
      <4> QED BY <4>1, WordIsInterval DEF MaxWord
    <3>2. CASE TopFrame.kind # "range"
      <4>1. i \in Nat
        BY <1>3, <3>2, TopFrameOK
      <4> QED BY <4>1, WordIsInterval DEF MaxWord
    <3> QED BY <3>1, <3>2
  <2>2. regs' = [regs EXCEPT ![Current.r1] = IntVal(clipped)] /\ Continue
    BY <1>3 DEF ExecLidx
  <2> HIDE DEF clipped
  <2>3. RegsOK'
    BY <1>1, <2>1, <2>2, RegisterValue, RegisterSet, Values
  <2> QED BY <1>1, <2>2, <2>3, Kept, Outcomes, Assembled
<1> QED BY <1>2, <1>3

LEMMA LValOK == ASSUME TypeOK, ExecLVal PROVE TypeOK'
<1>1. Executing({"LVAL"}) /\ UNCHANGED <<stack, loopStack, outputs>>
  BY DEF ExecLVal
<1>2. ControlOK'
  BY <1>1, Outcomes DEF ExecLVal, VmErrors
<1>3. RegsOK'
  <2>1. CASE regs' = regs
    BY <1>1, <2>1, Kept
  <2>2. CASE regs' # regs /\ TopFrame.kind = "range"
    <3>1. /\ loopStack # <<>>
          /\ regs' = [regs EXCEPT ![Current.r1] = IntVal(TopFrame.current)]
      BY <2>2 DEF ExecLVal
    <3> QED BY <1>1, <2>2, <3>1, TopFrameOK, RegisterValue, RegisterSet, Values
  <2>3. CASE regs' # regs /\ TopFrame.kind # "range"
    <3>1. /\ loopStack # <<>> /\ TopFrame.index < Len(TopFrame.elements)
          /\ regs' = [regs EXCEPT ![Current.r1] =
                        TopFrame.elements[TopFrame.index + 1]]
      BY <2>3 DEF ExecLVal
    <3>2. TopFrame.elements \in Seq(RegVal) /\ TopFrame.index \in Nat
      BY <2>3, <3>1, TopFrameOK
    <3>3. TopFrame.elements[TopFrame.index + 1] \in RegVal
      BY <3>1, <3>2, ElementOfSeq, LenProperties
    <3> QED BY <1>1, <3>1, <3>3, RegisterValue, RegisterSet
  <2> QED BY <2>1, <2>2, <2>3
<1> QED BY <1>1, <1>2, <1>3, Kept, Assembled

LEMMA RangeOK == ASSUME TypeOK, ExecRange PROVE TypeOK'
<1> DEFINE f == [kind |-> "range", body |-> Behind, current |-> Operand(2),
                 end |-> Wrap(Operand(2) + Operand(1))]
<1>1. Executing({"RANGE"}) /\ UNCHANGED <<status, regs, outputs>>
  BY DEF ExecRange
<1>2. Needs(Current.op) = 2
  BY <1>1, HandlerStart, NeedsOf
<1>3. /\ Operand(1) \in Word /\ Operand(2) \in Word
      /\ (stack' = Rest(2) => StackOK')
  BY <1>1, <1>2, Operands
<1>4. /\ pc \in 1 .. Len(prog.code) /\ Len(prog.code) \in Nat /\ prog' = prog
      /\ Behind \in 1 .. Len(prog.code) + 1 /\ Behind \in Nat \ {0}
  BY <1>1, HandlerStart
<1>5. StackOK' /\ RegsOK' /\ SlotsOK'
  BY <1>1, <1>3, Kept DEF ExecRange
<1>6. ControlOK'
  <2>1. skipDepth' \in Nat /\ pc' = Behind
    BY DEF ExecRange, TypeOK, ControlOK
  <2> QED BY <1>1, <1>4, <2>1 DEF TypeOK, ControlOK, Executing, hostVars, WellFormed
<1>7. LoopsOK'
  <2>1. FrameOK(f)
    <3>1. Operand(2) + Operand(1) \in Int
      <4>1. Operand(1) \in Int /\ Operand(2) \in Int
        BY <1>3, WordIsInterval, Zenon
      <4> QED BY <4>1
    <3>2. Wrap(Operand(2) + Operand(1)) \in Word
      BY <3>1, WrapInWord
    <3> QED BY <1>3, <1>4, <3>2 DEF FrameOK, RangeFrame
  <2>2. loopStack' = loopStack \/ loopStack' = Append(loopStack, f)
    BY DEF ExecRange
  <2> QED BY <1>1, <1>4, <2>1, <2>2, Kept, LoopsPushed
<1> QED BY <1>5, <1>6, <1>7 DEF TypeOK

LEMMA IterOK == ASSUME TypeOK, ExecIter PROVE TypeOK'
<1> DEFINE vec == regs[Current.r1]
           elements == SubSeq(VecElements(vec), Operand(2) + 1, Operand(1))
           f == [kind |-> "iter", body |-> Behind, start |-> Operand(2),
                 elements |-> elements, index |-> 0]
<1>1. Executing({"ITER"}) /\ UNCHANGED <<regs, outputs>>
  BY DEF ExecIter
<1>2. Needs(Current.op) = 2
  BY <1>1, HandlerStart, NeedsOf
<1>3. /\ Operand(1) \in Word /\ Operand(2) \in Word
      /\ (stack' = Rest(2) => StackOK')
  BY <1>1, <1>2, Operands
<1>4. /\ pc \in 1 .. Len(prog.code) /\ Len(prog.code) \in Nat /\ prog' = prog
      /\ Behind \in 1 .. Len(prog.code) + 1 /\ Behind \in Nat \ {0}
  BY <1>1, HandlerStart
<1>5. StackOK' /\ RegsOK' /\ SlotsOK'
  BY <1>1, <1>3, Kept DEF ExecIter
<1>6. ControlOK'
  BY <1>1, Outcomes DEF ExecIter, VmErrors
<1>7. LoopsOK'
  <2>1. CASE loopStack' = loopStack
    BY <1>1, <2>1, Kept
  <2>2. CASE loopStack' # loopStack
    <3>1. /\ IsVec(vec) /\ ValidSlice(Operand(2), Operand(1), Len(VecElements(vec)))
          /\ loopStack' = Append(loopStack, f)
      BY <2>2 DEF ExecIter
    <3>2. VecElements(vec) \in Seq(RegVal) /\ Len(VecElements(vec)) \in Nat
      BY <1>1, <3>1, Elements, RegisterValue, LenProperties
    <3>3. /\ Operand(1) \in Nat /\ Operand(2) \in Nat
          /\ Operand(1) <= Len(VecElements(vec))
      <4>1. Operand(1) \in Int /\ Operand(2) \in Int
        BY <1>3, WordIsInterval, Zenon
      <4> QED BY <3>1, <3>2, <4>1 DEF ValidSlice
    <3> HIDE DEF vec
    <3>4. elements \in Seq(RegVal)
      <4>1. \A i \in Operand(2) + 1 .. Operand(1) : VecElements(vec)[i] \in RegVal
        BY <3>2, <3>3, ElementOfSeq
      <4> QED BY <3>2, <3>3, <4>1, SubSeqProperties
    <3> HIDE DEF elements
    <3>5. FrameOK(f)
      BY <1>4, <3>3, <3>4 DEF FrameOK, IterFrame
    <3> QED BY <1>4, <3>1, <3>5, LoopsPushed
  <2> QED BY <2>1, <2>2
<1> QED BY <1>5, <1>6, <1>7 DEF TypeOK

--------------------------------------------------------------------------
(* The rest of the run loop, and the host.                                *)

\* What every handler starts with.
LEMMA ExecuteStart ==
    ASSUME Execute
    PROVE  /\ status = "running" /\ skipDepth = 0 /\ pc <= Len(prog.code)
           /\ Current.op \in ExecOps
           /\ steps' = steps + 1 /\ UNCHANGED hostVars
<1> USE DEF ExecOps, StackOps, RegisterOps, ControlOps, JumpOps, LoopOpeners,
        VecOps, IndexOps
<1>1. \A ops : Executing(ops) =>
          /\ status = "running" /\ skipDepth = 0 /\ pc <= Len(prog.code)
          /\ Current.op \in ops
          /\ steps' = steps + 1 /\ UNCHANGED hostVars
  BY DEF Executing
<1>2. CASE Underflow
  BY <1>2 DEF Underflow
<1>3. CASE \/ ExecNop \/ ExecHalt \/ ExecBad \/ ExecJump \/ ExecJumpI
           \/ ExecNext \/ ExecLidx \/ ExecLVal \/ ExecRange \/ ExecIter
  BY <1>1, <1>3 DEF ExecNop, ExecHalt, ExecBad, ExecJump, ExecJumpI, ExecNext,
                    ExecLidx, ExecLVal, ExecRange, ExecIter
<1>4. CASE \/ ExecPush \/ ExecPop \/ ExecCopy \/ ExecSwap \/ ExecSclr
           \/ ExecLoad \/ ExecStow \/ ExecDrop \/ ExecInput \/ ExecOutput
  BY <1>1, <1>4 DEF ExecPush, ExecPop, ExecCopy, ExecSwap, ExecSclr, ExecLoad,
                    ExecStow, ExecDrop, ExecInput, ExecOutput
<1>5. CASE \/ ExecUnary \/ ExecBinary \/ ExecIdxGrid \/ ExecIdxTriu
           \/ ExecVecNew \/ ExecVecPush \/ ExecVecGet \/ ExecVecSet
           \/ ExecVecLen \/ ExecSlack
  BY <1>1, <1>5 DEF ExecUnary, ExecBinary, ExecIdxGrid, ExecIdxTriu, ExecVecNew,
                    ExecVecPush, ExecVecGet, ExecVecSet, ExecVecLen, ExecSlack
<1> QED BY <1>2, <1>3, <1>4, <1>5 DEF Execute

\* One instruction of the program, executed.
LEMMA ExecuteOK == ASSUME TypeOK, Execute PROVE TypeOK'
BY UnderflowOK, ControlOnlyOK, JumpIOK, StackMovesOK, ArithmeticOK, StowOK,
   DropOK, LoadOK, InputOK, OutputOK, VecNewOK, VecPushOK, VecGetOK, VecSetOK,
   VecLenOK, SlackOK, NextOK, LidxOK, LValOK, RangeOK, IterOK
   DEF Execute

LEMMA LoopEndsOK ==
    ASSUME TypeOK, StepLimitHit \/ EndOfStream \/ SkipScan PROVE TypeOK'
<1>1. /\ UNCHANGED <<hostVars, stack, regs, loopStack, outputs>>
      /\ steps' \in Nat
  BY DEF StepLimitHit, EndOfStream, SkipScan, TypeOK, ControlOK
<1>2. StackOK' /\ RegsOK' /\ LoopsOK' /\ SlotsOK'
  BY <1>1 DEF TypeOK, StackOK, RegsOK, LoopsOK, SlotsOK, hostVars
<1>3. /\ ControlOK /\ pc \in 1 .. Len(prog.code) + 1
      /\ Len(prog.code) \in Nat /\ pc \in Nat
      /\ pc <= Len(prog.code) => Behind \in 1 .. Len(prog.code) + 1
  <2>1. /\ ControlOK /\ pc \in 1 .. Len(prog.code) + 1
        /\ Len(prog.code) \in Nat /\ pc \in Nat
    BY LenProperties DEF TypeOK, ControlOK, WellFormed, Program
  <2>2. ASSUME pc <= Len(prog.code) PROVE Behind \in 1 .. Len(prog.code) + 1
    <3>1. Behind \in 2 .. Len(prog.code) + 1 /\ Len(prog.code) \in Nat
      BY <2>1, <2>2, Fetched
    <3> QED BY <3>1
  <2> QED BY <2>1, <2>2
<1>4. ControlOK'
  <2>1. CASE StepLimitHit \/ EndOfStream
    BY <1>1, <2>1 DEF StepLimitHit, EndOfStream, Fault, TypeOK, ControlOK,
                      WellFormed, VmErrors, hostVars
  <2>2. CASE SkipScan /\ skipDepth' = skipDepth
    <3>1. pc' = pc \/ (pc' = Behind /\ pc <= Len(prog.code))
      BY <1>3, <2>2 DEF SkipScan, Fault
    <3>2. pc' \in 1 .. Len(prog.code) + 1
      BY ONLY <1>3, <3>1
    <3>3. status' = status \/ status' \in VmErrors
      BY <2>2 DEF SkipScan, Fault, VmErrors
    <3> QED BY <1>1, <2>2, <3>2, <3>3 DEF TypeOK, ControlOK, WellFormed, hostVars
  <2>3. CASE SkipScan /\ skipDepth' # skipDepth
    <3>1. /\ skipDepth > 0 /\ pc <= Len(prog.code) /\ pc' = Behind
          /\ skipDepth' = DepthAfter(skipDepth, Current.op)
          /\ status' = status
      BY <1>3, <2>3 DEF SkipScan, Fault
    <3>2. skipDepth' \in Nat
      BY <3>1 DEF DepthAfter, TypeOK, ControlOK
    <3>3. pc' \in 1 .. Len(prog.code) + 1
      BY ONLY <1>3, <3>1
    <3> QED BY <1>1, <3>1, <3>2, <3>3 DEF TypeOK, ControlOK, WellFormed, hostVars
  <2> QED BY <2>1, <2>2, <2>3
<1> QED BY <1>2, <1>4 DEF TypeOK

\* The frames of an earlier run stay, whatever the program.
LEMMA RunOK == ASSUME TypeOK, NEW p, WellFormed(p), Run(p) PROVE TypeOK'
<1>1. /\ prog' = p /\ WellFormed(p) /\ Len(p.code) \in Nat
      /\ UNCHANGED <<stack, regs, loopStack, calldata, outputs, stepLimit>>
  BY LenProperties DEF Run, WellFormed, Program
<1>2. ControlOK'
  <2>1. pc' = 1 /\ skipDepth' = 0 /\ status' = "running" /\ steps' = 0
    BY DEF Run
  <2> QED BY <1>1, <2>1 DEF TypeOK, ControlOK
<1>3. LoopsOK'
  BY <1>1 DEF TypeOK, LoopsOK
<1> QED BY <1>1, <1>2, <1>3 DEF TypeOK, StackOK, RegsOK, SlotsOK

LEMMA ResetOK == ASSUME TypeOK, Reset PROVE TypeOK'
<1>1. /\ stack' = <<>> /\ regs' = [r \in Reg |-> Unset] /\ loopStack' = <<>>
      /\ steps' = 0 /\ status' = "idle"
      /\ UNCHANGED <<hostVars, pc, skipDepth, outputs>>
  BY DEF Reset
<1>2. StackOK' /\ LoopsOK'
  BY <1>1, EmptySeq, LimitIsNat DEF StackOK, LoopsOK
<1> QED BY <1>1, <1>2, Values
        DEF TypeOK, ControlOK, WellFormed, RegsOK, SlotsOK, hostVars

LEMMA ConfigureOK ==
    ASSUME TypeOK,
           \/ \E data \in Calldatas : SetCalldata(data)
           \/ \E n \in OutputCounts : SetOutputSlots(n)
           \/ \E limit \in StepLimits : SetStepLimit(limit)
           \/ \E r \in Reg, v \in HostValues : SetRegister(r, v)
    PROVE  TypeOK'
<1>1. ASSUME NEW data \in Calldatas, SetCalldata(data) PROVE TypeOK'
  <2>1. calldata' \in Seq(RegVal)
    BY <1>1, VmAssumption DEF SetCalldata
  <2> QED BY <1>1, <2>1 DEF SetCalldata, TypeOK, ControlOK, WellFormed, StackOK,
                            RegsOK, LoopsOK, SlotsOK, controlVars
<1>2. ASSUME NEW n \in OutputCounts, SetOutputSlots(n) PROVE TypeOK'
  <2>1. [i \in 1 .. n |-> Unset] \in Seq(RegVal)
    BY VmAssumption, Values
  <2> QED BY <1>2, <2>1 DEF SetOutputSlots, TypeOK, ControlOK, WellFormed, StackOK,
                            RegsOK, LoopsOK, SlotsOK, controlVars, hostVars
<1>3. ASSUME NEW limit \in StepLimits, SetStepLimit(limit) PROVE TypeOK'
  <2>1. limit \in 0 .. MaxSteps /\ MaxSteps \in Nat \ {0}
    BY VmAssumption
  <2>2. stepLimit' \in 1 .. MaxSteps
    BY <1>3, <2>1 DEF SetStepLimit
  <2> QED BY <1>3, <2>2 DEF SetStepLimit, TypeOK, ControlOK, WellFormed, StackOK,
                            RegsOK, LoopsOK, SlotsOK, controlVars
<1>4. ASSUME NEW r \in Reg, NEW v \in HostValues, SetRegister(r, v) PROVE TypeOK'
  <2>1. RegsOK'
    BY <1>4, VmAssumption, RegisterSet DEF SetRegister
  <2> QED BY <1>4, <2>1 DEF SetRegister, TypeOK, ControlOK, WellFormed, StackOK,
                            LoopsOK, SlotsOK, controlVars, hostVars
<1> QED BY <1>1, <1>2, <1>3, <1>4

LEMMA InitOK == Init => TypeOK
<1> SUFFICES ASSUME Init PROVE TypeOK
  OBVIOUS
<1>1. /\ <<>> \in Seq(Word) /\ <<>> \in Seq(RegVal) /\ Len(<<>>) = 0
      /\ <<>> \in Seq(RangeFrame \cup IterFrame)
      /\ <<>> \in Seq(VmInstr) /\ <<>> \in Seq(Nat \ {0})
  BY EmptySeq
<1>2. WellFormed(prog) /\ Len(prog.code) = 0
  BY <1>1 DEF Init, WellFormed, Program, VmInstr
<1>3. ControlOK
  BY <1>2, VmAssumption DEF Init, ControlOK
<1>4. StackOK /\ LoopsOK /\ SlotsOK
  BY <1>1, LimitIsNat DEF Init, StackOK, LoopsOK, SlotsOK
<1>5. RegsOK
  BY Values DEF Init, RegsOK
<1> QED BY <1>3, <1>4, <1>5 DEF TypeOK

LEMMA NextPreservesTypeOK == TypeOK /\ [Next]_vmVars => TypeOK'
<1> SUFFICES ASSUME TypeOK, [Next]_vmVars PROVE TypeOK'
  OBVIOUS
<1>1. CASE VmStep
  BY <1>1, ExecuteOK, LoopEndsOK DEF VmStep
<1>2. CASE HostStep
  BY <1>2, VmAssumption, RunOK, ResetOK, ConfigureOK DEF HostStep
<1>3. CASE UNCHANGED vmVars
  BY <1>3 DEF vmVars, TypeOK, ControlOK, WellFormed, StackOK, RegsOK, LoopsOK,
              SlotsOK
<1> QED BY <1>1, <1>2, <1>3 DEF Next

\* In every run, of any program the host can load and after any sequence of
\* earlier runs, of other programs and failed ones included, the VM's state is
\* well typed: the stack holds words and stays within STACK_LIMIT, the stream's
\* position lies in the program or at its end also after a NEXT that resumed a
\* frame another program had left, registers, calldata and outputs hold register
\* values (the Vm struct of src/xqvm/src/vm.rs).
THEOREM TypeCorrect == Spec => []TypeOK
BY InitOK, NextPreservesTypeOK, PTL DEF Spec

--------------------------------------------------------------------------
(* The frames of loops, and what a failure leaves untouched.                *)

\* The end of a range is never its start, even when the addition wrapped: a
\* positive count is smaller than the number of words.
LEMMA WrappedEndDiffers ==
    ASSUME NEW x \in Word, NEW c \in Word, c > 0
    PROVE  Wrap(x + c) # x
<1> DEFINE y == x + c + Half  m == 2 * Half
<1>1. /\ x \in Int /\ -Half <= x /\ x < Half
      /\ c \in Int /\ c < Half /\ Half \in Nat /\ Half > 0
  <2>1. x \in Int /\ c \in Int /\ Half \in Nat /\ Half > 4
    BY WordIsInterval, Zenon
  <2> QED BY <2>1, WordIsInterval
<1>2. y \in Int /\ m \in Nat /\ m > 0 /\ 0 <= y /\ y < 2 * m
  BY <1>1
<1>3. CASE y < m
  <2>1. y % m = y
    BY <1>2, <1>3
  <2> QED BY <1>1, <2>1 DEF Wrap
<1>4. CASE ~(y < m)
  <2>1. y % m = y - m
    <3>1. y = m * 1 + (y - m) /\ 0 <= y - m /\ y - m < m
      BY <1>2, <1>4
    <3> QED BY <1>2, <3>1, Z3
  <2> QED BY <1>1, <2>1 DEF Wrap
<1> QED BY <1>3, <1>4

--------------------------------------------------------------------------
\* A step that leaves the loop stack alone.
LEMMA FramesKept ==
    ASSUME FramesHaveElements, loopStack' = loopStack PROVE FramesHaveElements'
BY DEF FramesHaveElements

LEMMA RangeFrames ==
    ASSUME TypeOK, FramesHaveElements, ExecRange PROVE FramesHaveElements'
<1> DEFINE f == [kind |-> "range", body |-> Behind, current |-> Operand(2),
                 end |-> Wrap(Operand(2) + Operand(1))]
<1>1. Executing({"RANGE"})
  BY DEF ExecRange
<1>2. Needs(Current.op) = 2
  BY <1>1, HandlerStart, NeedsOf
<1>3. Operand(1) \in Word /\ Operand(2) \in Word
  BY <1>1, <1>2, Operands
<1>4. CASE loopStack' = loopStack
  BY <1>4, FramesKept
<1>5. CASE loopStack' # loopStack
  <2>1. ~(Operand(1) <= 0) /\ loopStack' = Append(loopStack, f)
    BY <1>5 DEF ExecRange
  <2>2. FrameHasElement(f)
    <3>1. Operand(1) \in Int
      BY <1>3, WordIsInterval, Zenon
    <3>2. Operand(1) > 0
      BY <2>1, <3>1
    <3> QED BY <1>3, <3>2, WrappedEndDiffers DEF FrameHasElement
  <2> HIDE DEF f
  <2>3. \A k \in 1 .. Len(loopStack') :
           \/ k \in 1 .. Len(loopStack) /\ loopStack'[k] = loopStack[k]
           \/ loopStack'[k] = f
    BY <2>1, AppendProperties, LenProperties DEF TypeOK, LoopsOK
  <2> QED BY <2>2, <2>3 DEF FramesHaveElements
<1> QED BY <1>4, <1>5

LEMMA IterFrames ==
    ASSUME TypeOK, FramesHaveElements, ExecIter PROVE FramesHaveElements'
<1> DEFINE elements == SubSeq(VecElements(regs[Current.r1]),
                              Operand(2) + 1, Operand(1))
           f == [kind |-> "iter", body |-> Behind, start |-> Operand(2),
                 elements |-> elements, index |-> 0]
<1>1. CASE loopStack' = loopStack
  BY <1>1, FramesKept
<1>2. CASE loopStack' # loopStack
  <2>1. loopStack' = Append(loopStack, f)
    BY <1>2 DEF ExecIter
  <2>2. elements \in Seq(RegVal)
    <3>1. loopStack' \in Seq(RangeFrame \cup IterFrame)
      BY IterOK DEF TypeOK, LoopsOK
    <3>2. /\ loopStack \in Seq(RangeFrame \cup IterFrame)
          /\ Len(loopStack) \in Nat
      BY LenProperties DEF TypeOK, LoopsOK
    <3>3. Len(loopStack') = Len(loopStack) + 1 /\ loopStack'[Len(loopStack) + 1] = f
      BY <2>1, <3>2
    <3>4. f \in RangeFrame \cup IterFrame
      BY <3>1, <3>2, <3>3, ElementOfSeq
    <3> QED BY <3>4 DEF RangeFrame, IterFrame
  <2>3. FrameHasElement(f)
    <3> HIDE DEF elements
    <3>1. elements = <<>> \/ Len(elements) > 0
      BY <2>2, EmptySeq, LenProperties
    <3> QED BY <3>1 DEF FrameHasElement
  <2> HIDE DEF f
  <2>4. \A k \in 1 .. Len(loopStack') :
           \/ k \in 1 .. Len(loopStack) /\ loopStack'[k] = loopStack[k]
           \/ loopStack'[k] = f
    BY <2>1, AppendProperties, LenProperties DEF TypeOK, LoopsOK
  <2> QED BY <2>3, <2>4 DEF FramesHaveElements
<1> QED BY <1>1, <1>2

\* NEXT keeps a frame only when it has a next element, and the frames below
\* the innermost one are not looked at.
LEMMA NextFrames ==
    ASSUME TypeOK, FramesHaveElements, ExecNext PROVE FramesHaveElements'
<1> DEFINE f == Advanced(TopFrame)
<1>1. CASE loopStack' = loopStack
  BY <1>1, FramesKept
<1>2. CASE loopStack' # loopStack
  <2>1. /\ loopStack # <<>>
        /\ \/ HasMore(f) /\ loopStack' = [loopStack EXCEPT ![Len(loopStack)] = f]
           \/ loopStack' = SubSeq(loopStack, 1, Len(loopStack) - 1)
    BY <1>2 DEF ExecNext
  <2>2. /\ loopStack \in Seq(RangeFrame \cup IterFrame)
        /\ Len(loopStack) \in Nat \ {0}
    BY <2>1, TopFrameOK DEF TypeOK, LoopsOK
  <2>3. CASE HasMore(f) /\ loopStack' = [loopStack EXCEPT ![Len(loopStack)] = f]
    <3>1. FrameHasElement(f)
      <4>1. CASE TopFrame.kind = "range"
        <5>1. /\ TopFrame \in RangeFrame
              /\ f = [TopFrame EXCEPT !.current = Wrap(TopFrame.current + 1)]
          BY <2>1, <4>1, TopFrameOK DEF Advanced
        <5>2. f.kind = "range" /\ f.current \in Int /\ f.end \in Int
          <6>1. Wrap(TopFrame.current + 1) \in Int
            <7>1. TopFrame.current \in Int
              BY <5>1, WordIsInterval DEF RangeFrame
            <7>2. TopFrame.current + 1 \in Int
              BY <7>1
            <7> QED BY <7>2, WrapInWord, WordIsInterval, Zenon
          <6>2. TopFrame.end \in Int
            BY <5>1, WordIsInterval DEF RangeFrame
          <6> QED BY <5>1, <6>1, <6>2 DEF RangeFrame
        <5> QED BY <2>3, <5>2 DEF HasMore, FrameHasElement
      <4>2. CASE TopFrame.kind # "range"
        <5>1. /\ TopFrame \in IterFrame
              /\ f = [TopFrame EXCEPT !.index = TopFrame.index + 1]
          BY <2>1, <4>2, TopFrameOK DEF Advanced
        <5>2. f.kind = "iter"
          BY <5>1 DEF IterFrame
        <5> QED BY <2>3, <5>2 DEF HasMore, FrameHasElement
      <4> QED BY <4>1, <4>2
    <3> HIDE DEF f
    <3>2. /\ Len(loopStack') = Len(loopStack)
          /\ \A k \in 1 .. Len(loopStack) :
                loopStack'[k] = IF k = Len(loopStack) THEN f ELSE loopStack[k]
      BY <2>2, <2>3
    <3> QED BY <3>1, <3>2 DEF FramesHaveElements
  <2>4. CASE loopStack' = SubSeq(loopStack, 1, Len(loopStack) - 1)
    <3>1. Len(loopStack) - 1 \in 0 .. Len(loopStack)
      BY <2>2
    <3>2. /\ Len(loopStack') = Len(loopStack) - 1
          /\ \A k \in 1 .. Len(loopStack) - 1 : loopStack'[k] = loopStack[k]
      BY <2>2, <2>4, <3>1, Prefix
    <3>3. \A k \in 1 .. Len(loopStack') : k \in 1 .. Len(loopStack)
      BY <2>2, <3>2
    <3> QED BY <3>2, <3>3 DEF FramesHaveElements
  <2> QED BY <2>1, <2>3, <2>4
<1> QED BY <1>1, <1>2

LEMMA StepKeepsFrames ==
    TypeOK /\ FramesHaveElements /\ [Next]_vmVars => FramesHaveElements'
<1> SUFFICES ASSUME TypeOK, FramesHaveElements, [Next]_vmVars
             PROVE  FramesHaveElements'
  OBVIOUS
<1>1. CASE ExecRange \/ ExecIter \/ ExecNext
  BY <1>1, RangeFrames, IterFrames, NextFrames
<1>2. CASE Execute /\ ~(ExecRange \/ ExecIter \/ ExecNext)
  <2>1. loopStack' = loopStack
    BY <1>2 DEF Execute, Underflow, ExecNop, ExecHalt, ExecBad, ExecJump,
         ExecJumpI, ExecLidx, ExecLVal, ExecPush, ExecPop, ExecCopy, ExecSwap,
         ExecSclr, ExecLoad, ExecStow, ExecDrop, ExecInput, ExecOutput,
         ExecUnary, ExecBinary, ExecIdxGrid, ExecIdxTriu, ExecVecNew,
         ExecVecPush, ExecVecGet, ExecVecSet, ExecVecLen, ExecSlack
  <2> QED BY <2>1, FramesKept
<1>3. CASE StepLimitHit \/ EndOfStream \/ SkipScan \/ (HostStep /\ ~Reset)
             \/ UNCHANGED vmVars
  <2>1. loopStack' = loopStack
    BY <1>3 DEF StepLimitHit, EndOfStream, SkipScan, HostStep, Run,
         SetCalldata, SetOutputSlots, SetStepLimit, SetRegister, vmVars
  <2> QED BY <2>1, FramesKept
<1>4. CASE Reset
  BY <1>4, EmptySeq DEF Reset, FramesHaveElements
<1> QED BY <1>1, <1>2, <1>3, <1>4 DEF Next, VmStep, HostStep, Execute

\* Whatever the programs, the host and the runs before, every loop frame has a
\* current element (or is the empty one ITER pushes): LIDX and LVAL in a body
\* never read past the end of their loop (exec_range, exec_iter and exec_next
\* of src/xqvm/src/vm.rs).
THEOREM FramesSound == Spec => []FramesHaveElements
<1>1. Init => FramesHaveElements
  BY EmptySeq DEF Init, FramesHaveElements
<1> QED BY <1>1, TypeCorrect, StepKeepsFrames, PTL DEF Spec

--------------------------------------------------------------------------
(* What a failure leaves untouched.                                       *)

LEMMA RunningIsNoError ==
    /\ "running" \notin VmErrors /\ "ok" \notin VmErrors /\ "idle" \notin VmErrors
BY DEF VmErrors

\* What FailureWritesNothing says of a step that fails.
CleanBut(slack) ==
    /\ outputs' = outputs
    /\ \A r \in Reg : regs'[r] = regs[r] \/ (slack /\ Current.r1 = r)
    /\ loopStack' = loopStack \/ OnlyTopMoved

LEMMA FailingIsNoContinue ==
    ASSUME Failing PROVE ~Continue /\ status' # status /\ status' # "ok"
BY RunningIsNoError DEF Failing, Continue

\* The handlers that write something besides the stack and the control
\* variables, but for SLACK and NEXT.
LEMMA WritersFailClean ==
    ASSUME Failing,
           \/ ExecStow \/ ExecDrop \/ ExecInput \/ ExecOutput
           \/ ExecLidx \/ ExecLVal \/ ExecRange \/ ExecIter
           \/ ExecVecNew \/ ExecVecPush \/ ExecVecSet
    PROVE  UNCHANGED <<regs, outputs, loopStack>>
<1>1. CASE ExecStow \/ ExecDrop \/ ExecVecNew \/ ExecRange
  BY <1>1, FailingIsNoContinue
     DEF ExecStow, ExecDrop, ExecVecNew, ExecRange, Continue
<1>2. CASE ExecInput \/ ExecOutput
  BY <1>2, FailingIsNoContinue DEF ExecInput, ExecOutput
<1>3. CASE ExecLidx \/ ExecLVal \/ ExecIter
  BY <1>3, FailingIsNoContinue DEF ExecLidx, ExecLVal, ExecIter
<1>4. CASE ExecVecPush \/ ExecVecSet
  BY <1>4, FailingIsNoContinue DEF ExecVecPush, ExecVecSet
<1> QED BY <1>1, <1>2, <1>3, <1>4

\* SLACK fails before it has written its second register.
LEMMA SlackFailsHalfway ==
    ASSUME TypeOK, Failing, ExecSlack PROVE CleanBut(Current.op = "SLACK")
<1>1. /\ Executing({"SLACK"}) /\ Current.op = "SLACK"
      /\ UNCHANGED <<loopStack, outputs>>
  BY DEF ExecSlack, Executing
<1>2. regs \in [Reg -> RegVal] /\ Current.r1 \in Reg
  BY <1>1, RegisterValue
<1>3. \E v : regs' = regs \/ regs' = [regs EXCEPT ![Current.r1] = v]
  BY FailingIsNoContinue, Zenon DEF ExecSlack
<1>4. \A r \in Reg : regs'[r] = regs[r] \/ Current.r1 = r
  BY <1>2, <1>3
<1> QED BY <1>1, <1>4 DEF CleanBut

\* NEXT fails clean, or at the body of the frame it has moved on.
LEMMA NextFailsAtBody ==
    ASSUME TypeOK, Failing, ExecNext PROVE CleanBut(FALSE)
<1> DEFINE f == Advanced(TopFrame)
<1>1. UNCHANGED <<regs, outputs>>
  BY DEF ExecNext
<1>2. CASE loopStack' = loopStack
  BY <1>1, <1>2 DEF CleanBut
<1>3. CASE loopStack' # loopStack
  <2>1. /\ loopStack # <<>> /\ Seek(f.body)
        /\ loopStack' = [loopStack EXCEPT ![Len(loopStack)] = f]
    BY <1>3, FailingIsNoContinue DEF ExecNext
  <2>2. status' = "SeekOutOfBounds"
    BY <2>1, FailingIsNoContinue DEF Seek, Fault
  <2>3. /\ loopStack \in Seq(RangeFrame \cup IterFrame)
        /\ Len(loopStack) \in Nat \ {0} /\ FrameOK(TopFrame)
    BY <2>1, TopFrameOK DEF TypeOK, LoopsOK
  <2>4. f.body = TopFrame.body
    BY <2>3 DEF Advanced, FrameOK, RangeFrame, IterFrame
  <2> HIDE DEF f
  <2>5. /\ DOMAIN loopStack' = DOMAIN loopStack
        /\ \A k \in 1 .. Len(loopStack) :
              loopStack'[k] = IF k = Len(loopStack) THEN f ELSE loopStack[k]
    BY <2>1, <2>3
  <2>6. \A k \in 1 .. Len(loopStack) :
           /\ loopStack'[k].body = loopStack[k].body
           /\ k < Len(loopStack) => loopStack'[k] = loopStack[k]
    <3> TAKE k \in 1 .. Len(loopStack)
    <3>1. CASE k = Len(loopStack)
      BY <2>3, <2>4, <2>5, <3>1 DEF TopFrame
    <3>2. CASE k # Len(loopStack)
      BY <2>5, <3>2
    <3> QED BY <3>1, <3>2
  <2> QED BY <1>1, <2>2, <2>5, <2>6 DEF CleanBut, OnlyTopMoved
<1> QED BY <1>2, <1>3

LEMMA FailuresAreClean ==
    ASSUME TypeOK, Failing, [Next]_vmVars PROVE CleanBut(Current.op = "SLACK")
<1>1. CASE \/ ExecStow \/ ExecDrop \/ ExecInput \/ ExecOutput
           \/ ExecLidx \/ ExecLVal \/ ExecRange \/ ExecIter
           \/ ExecVecNew \/ ExecVecPush \/ ExecVecSet
  BY <1>1, WritersFailClean DEF CleanBut
<1>2. CASE \/ Underflow \/ ExecNop \/ ExecHalt \/ ExecBad \/ ExecJump \/ ExecJumpI
           \/ ExecPush \/ ExecPop \/ ExecCopy \/ ExecSwap \/ ExecSclr \/ ExecLoad
           \/ ExecUnary \/ ExecBinary \/ ExecIdxGrid \/ ExecIdxTriu
           \/ ExecVecGet \/ ExecVecLen \/ StepLimitHit \/ EndOfStream \/ SkipScan
  <2>1. UNCHANGED <<regs, outputs, loopStack>>
    BY <1>2 DEF Underflow, ExecNop, ExecHalt, ExecBad, ExecJump, ExecJumpI,
       ExecPush, ExecPop, ExecCopy, ExecSwap, ExecSclr, ExecLoad, ExecUnary,
       ExecBinary, ExecIdxGrid, ExecIdxTriu, ExecVecGet, ExecVecLen,
       StepLimitHit, EndOfStream, SkipScan
  <2> QED BY <2>1 DEF CleanBut
<1>3. CASE HostStep
  BY <1>3, RunningIsNoError DEF HostStep, Run, Reset, SetCalldata,
       SetOutputSlots, SetStepLimit, SetRegister, BetweenRuns, Failing
<1>4. CASE UNCHANGED vmVars
  BY <1>4 DEF vmVars, CleanBut
<1>5. CASE ExecSlack
  BY <1>5, SlackFailsHalfway
<1>6. CASE ExecNext
  BY <1>6, NextFailsAtBody DEF CleanBut
<1> QED BY <1>1, <1>2, <1>3, <1>4, <1>5, <1>6 DEF Next, VmStep, Execute

\* For every instance, whatever program left the loop frames: an instruction
\* that fails has written no output slot, no register but the first of SLACK,
\* and no loop frame but the innermost one, which a NEXT whose body lies outside
\* the code has moved on (the exec_ functions of src/xqvm/src/vm.rs check before
\* they write; exec_next runs before the seek).
THEOREM FailuresSound == Spec => FailureWritesNothing
<1>1. TypeOK /\ [Next]_vmVars =>
        [Failing =>
           /\ outputs' = outputs
           /\ \A r \in Reg : regs'[r] = regs[r]
                             \/ (Current.op = "SLACK" /\ Current.r1 = r)
           /\ loopStack' = loopStack \/ OnlyTopMoved]_vmVars
  BY FailuresAreClean DEF CleanBut
<1> QED BY <1>1, TypeCorrect, PTL DEF Spec, FailureWritesNothing

--------------------------------------------------------------------------
(* What one executed instruction does to the depth of the stack, the loop  *)
(* frames and the position, and which errors it can end the run with: the  *)
(* handlers of vm.rs against the stack_delta column of the opcode table.   *)

\* What a handler that does not end the run has done.
Follows ==
    /\ Len(stack') = IF Current.op = "SCLR" THEN 0
                     ELSE Len(stack) + StackDelta(Current.op)
    /\ Current.op \notin LoopOpeners \cup {"NEXT"} => loopStack' = loopStack
    /\ Current.op # "RANGE" => skipDepth' = skipDepth
    /\ Current.op \notin JumpOps \cup {"NEXT"} => pc' = Behind

\* When a handler ends the run with an error the verifier rules out.
EndsOnly ==
    /\ status' = "DecodeError" => Current.op = "BAD"
    /\ status' = "InvalidLabel" => /\ Current.op \in JumpOps
                                   /\ Current.imm + 1 \notin 1 .. Len(prog.table)
    /\ status' = "NoActiveLoop" => /\ Current.op \in {"NEXT", "LIDX", "LVAL"}
                                   /\ loopStack = <<>>
    /\ status' # "UnmatchedLoop"
    /\ status' = "SeekOutOfBounds" => /\ Current.op = "NEXT" /\ loopStack # <<>>
                                      /\ TopFrame.body > Len(prog.code) + 1
    /\ status' = "StackOverflow" => /\ Len(stack) >= StackLimit
                                    /\ Current.op # "SCLR"
                                    /\ StackDelta(Current.op) = 1

Effect == EndsOnly /\ (status' = "running" => Follows)

\* The errors that say nothing of code and depth, and the regular end.
Harmless == {"ok", "StackUnderflow", "UnsetRegister", "RegisterType", "DivisionByZero",
             "InvalidShift", "IndexOutOfBounds", "CallDataIndex",
             "OutputIndex", "Panic"}

LEMMA HarmlessEnd == ASSUME status' \in Harmless PROVE Effect
BY DEF Harmless, Effect, EndsOnly

LEMMA DeltaOf ==
    /\ \A op \in {"PUSH", "COPY", "LOAD", "VECLEN"} : StackDelta(op) = 1
    /\ \A op \in BinaryOps \cup {"JUMPI", "STOW", "INPUT", "OUTPUT", "POP",
                                 "VECPUSH", "IDXTRIU"} : StackDelta(op) = -1
    /\ \A op \in {"RANGE", "ITER", "VECSET", "SLACK", "IDXGRID"} : StackDelta(op) = -2
    /\ \A op \in UnaryOps \cup {"NOP", "TARGET", "JUMP", "NEXT", "LIDX", "LVAL",
                                "SWAP", "DROP", "VEC", "VECI", "VECX", "VECGET"} :
          StackDelta(op) = 0
BY DEF StackDelta, Delta_1, Delta_m1, Delta_m2, Delta_m3, UnaryOps, BinaryOps

LEMMA LenAppended ==
    ASSUME NEW s \in Seq(Word), NEW v PROVE Len(Append(s, v)) = Len(s) + 1
OBVIOUS

\* A handler that goes on to the next instruction and leaves the frames alone.
LEMMA GoesOn ==
    ASSUME TypeOK, NEW ops, Executing(ops), Continue, loopStack' = loopStack,
           Len(stack') = IF Current.op = "SCLR" THEN 0
                         ELSE Len(stack) + StackDelta(Current.op)
    PROVE  Effect
<1>1. status' = "running" /\ pc' = Behind /\ skipDepth' = skipDepth
  BY DEF Continue, Executing
<1>2. EndsOnly
  BY <1>1 DEF EndsOnly
<1> QED BY <1>1, <1>2 DEF Effect, Follows

LEMMA Faults == ASSUME NEW e \in Harmless, Fault(e) PROVE Effect
BY HarmlessEnd DEF Fault

LEMMA PushEffect ==
    ASSUME TypeOK, NEW ops, Executing(ops), NEW v, Push(v, stack),
           loopStack' = loopStack, StackDelta(Current.op) = 1, Current.op # "SCLR"
    PROVE  Effect
<1>1. stack \in Seq(Word) /\ Len(stack) \in Nat
  BY LenProperties DEF TypeOK, StackOK
<1>2. CASE Len(stack) >= StackLimit
  <2>1. status' = "StackOverflow"
    BY <1>2 DEF Push, Fault
  <2> QED BY <1>2, <2>1 DEF Effect, EndsOnly
<1>3. CASE ~(Len(stack) >= StackLimit)
  <2>1. Continue /\ stack' = Append(stack, v)
    BY <1>3 DEF Push
  <2>2. Len(stack') = Len(stack) + 1
    BY <1>1, <2>1, LenAppended
  <2> QED BY <2>1, <2>2, GoesOn
<1> QED BY <1>2, <1>3

\* The depth after n pops, and after n pops and a push.
LEMMA Depths ==
    ASSUME TypeOK, NEW ops, Executing(ops), NEW n \in Nat, n <= Needs(Current.op)
    PROVE  /\ Rest(n) \in Seq(Word) /\ Len(Rest(n)) = Len(stack) - n
           /\ \A v : Len(Append(Rest(n), v)) = Len(stack) - n + 1
           /\ Len(stack) \in Nat
<1>1. Rest(n) \in Seq(Word) /\ Len(Rest(n)) = Len(stack) - n
  BY Operands
<1> QED BY <1>1, LenAppended, HandlerStart

--------------------------------------------------------------------------
LEMMA ControlEffect ==
    ASSUME TypeOK, Underflow \/ ExecNop \/ ExecHalt \/ ExecBad PROVE Effect
<1>1. CASE Underflow
  BY <1>1, Faults DEF Underflow, Harmless
<1>2. CASE ExecNop
  <2>1. /\ Executing({"NOP", "TARGET"}) /\ Continue /\ loopStack' = loopStack
        /\ stack' = stack
    BY <1>2 DEF ExecNop
  <2>2. /\ StackDelta(Current.op) = 0 /\ Len(stack) \in Nat /\ Current.op # "SCLR"
    BY <2>1, HandlerStart, DeltaOf
  <2> QED BY <2>1, <2>2, GoesOn
<1>3. CASE ExecHalt
  BY <1>3, HarmlessEnd DEF ExecHalt, Harmless
<1>4. CASE ExecBad
  BY <1>4 DEF ExecBad, Executing, Fault, Effect, EndsOnly
<1> QED BY <1>1, <1>2, <1>3, <1>4

\* A seek to a label never fails.
LEMMA TargetInCode ==
    ASSUME TypeOK, NEW l \in 1 .. Len(prog.table)
    PROVE  ~(prog.table[l] > Len(prog.code) + 1)
<1>1. /\ prog.code \in Seq(VmInstr) /\ prog.table \in Seq(Nat \ {0})
      /\ prog.table[l] <= Len(prog.code)
  BY DEF TypeOK, ControlOK, WellFormed, Program, VmInstr
<1>2. Len(prog.code) \in Nat /\ prog.table[l] \in Nat
  BY <1>1, LenProperties, ElementOfSeq
<1> QED BY <1>1, <1>2

LEMMA JumpEffect == ASSUME TypeOK, ExecJump \/ ExecJumpI PROVE Effect
<1>1. PICK ops \in {{"JUMP"}, {"JUMPI"}} : Executing(ops)
  BY DEF ExecJump, ExecJumpI
<1>2. /\ Current.op \in JumpOps /\ Current.op # "SCLR" /\ Current.op # "RANGE"
      /\ Len(stack) \in Nat /\ skipDepth = 0
  BY <1>1, HandlerStart DEF JumpOps, Executing
<1>3. loopStack' = loopStack /\ Len(stack') = Len(stack) + StackDelta(Current.op)
  <2>1. CASE ExecJump
    <3>1. Current.op = "JUMP" /\ stack' = stack /\ loopStack' = loopStack
      BY <2>1 DEF ExecJump, Executing
    <3> QED BY <1>2, <3>1, DeltaOf
  <2>2. CASE ExecJumpI
    <3>1. /\ Current.op = "JUMPI" /\ stack' = Rest(1) /\ loopStack' = loopStack
          /\ Executing({"JUMPI"})
      BY <2>2 DEF ExecJumpI, Executing
    <3>2. Needs(Current.op) = 1
      BY <3>1, NeedsOf
    <3> QED BY <1>2, <3>1, <3>2, Depths, DeltaOf
  <2> QED BY <2>1, <2>2
<1>4. Continue \/ JumpTo(Current.imm)
  BY DEF ExecJump, ExecJumpI
<1>5. \/ status' = "running" /\ skipDepth' = skipDepth
      \/ status' = "InvalidLabel" /\ Current.imm + 1 \notin 1 .. Len(prog.table)
  <2>1. CASE JumpTo(Current.imm) /\ Current.imm + 1 \in 1 .. Len(prog.table)
    <3>1. Seek(prog.table[Current.imm + 1])
      BY <2>1 DEF JumpTo
    <3>2. pc' = prog.table[Current.imm + 1] /\ UNCHANGED <<status, skipDepth>>
      BY <2>1, <3>1, TargetInCode DEF Seek
    <3> QED BY <1>1, <3>2 DEF Executing
  <2> QED BY <1>1, <1>4, <2>1 DEF Continue, JumpTo, Fault, Executing
<1> QED BY <1>2, <1>3, <1>5 DEF Effect, EndsOnly, Follows

LEMMA StackEffect ==
    ASSUME TypeOK, ExecPush \/ ExecPop \/ ExecCopy \/ ExecSwap \/ ExecSclr
    PROVE  Effect
<1>1. CASE ExecPush
  <2>1. /\ Executing({"PUSH"}) /\ Push(Current.imm, stack) /\ loopStack' = loopStack
        /\ Current.op = "PUSH"
    BY <1>1 DEF ExecPush, Executing
  <2> QED BY <2>1, PushEffect, DeltaOf
<1>2. CASE ExecPop
  <2>1. /\ Executing({"POP"}) /\ stack' = Rest(1) /\ loopStack' = loopStack
        /\ Current.op = "POP" /\ Continue
    BY <1>2 DEF ExecPop, Executing
  <2>2. Len(stack') = Len(stack) + StackDelta(Current.op)
    BY <2>1, NeedsOf, Depths, DeltaOf
  <2> QED BY <2>1, <2>2, GoesOn
<1>3. CASE ExecCopy
  <2>1. /\ Executing({"COPY"}) /\ Push(Operand(1), stack) /\ loopStack' = loopStack
        /\ Current.op = "COPY"
    BY <1>3 DEF ExecCopy, Executing
  <2> QED BY <2>1, PushEffect, DeltaOf
<1>4. CASE ExecSwap
  <2>1. /\ Executing({"SWAP"}) /\ stack' = Rest(2) \o <<Operand(1), Operand(2)>>
        /\ loopStack' = loopStack /\ Current.op = "SWAP" /\ Continue
    BY <1>4 DEF ExecSwap, Executing
  <2>2. /\ Rest(2) \in Seq(Word) /\ Len(Rest(2)) = Len(stack) - 2
        /\ Len(stack) \in Nat /\ Operand(1) \in Word /\ Operand(2) \in Word
    BY <2>1, NeedsOf, Depths, Operands
  <2>3. Len(stack') = Len(Rest(2)) + 2
    BY <2>1, <2>2
  <2> QED BY <2>1, <2>2, <2>3, GoesOn, DeltaOf
<1>5. CASE ExecSclr
  <2>1. /\ Executing({"SCLR"}) /\ stack' = <<>> /\ loopStack' = loopStack
        /\ Current.op = "SCLR" /\ Continue /\ Len(<<>>) = 0
    BY <1>5, EmptySeq DEF ExecSclr, Executing
  <2> QED BY <2>1, GoesOn
<1> QED BY <1>1, <1>2, <1>3, <1>4, <1>5

LEMMA RegisterEffect ==
    ASSUME TypeOK, ExecLoad \/ ExecStow \/ ExecDrop \/ ExecInput \/ ExecOutput
    PROVE  Effect
<1>1. CASE ExecLoad
  <2>1. Executing({"LOAD"}) /\ loopStack' = loopStack /\ Current.op = "LOAD"
    BY <1>1 DEF ExecLoad, Executing
  <2> DEFINE v == regs[Current.r1]
  <2>2. CASE v.tag = "Int"
    BY <1>1, <2>1, <2>2, PushEffect, DeltaOf DEF ExecLoad
  <2>3. CASE v.tag = "Unset"
    BY <1>1, <2>3, Faults DEF ExecLoad, Harmless
  <2>4. CASE v.tag # "Int" /\ v.tag # "Unset"
    BY <1>1, <2>4, Faults DEF ExecLoad, Harmless
  <2> QED BY <2>2, <2>3, <2>4
<1>2. CASE ExecStow
  <2>1. /\ Executing({"STOW"}) /\ stack' = Rest(1) /\ loopStack' = loopStack
        /\ Current.op = "STOW" /\ Continue
    BY <1>2 DEF ExecStow, Executing
  <2>2. Len(stack') = Len(stack) + StackDelta(Current.op)
    BY <2>1, NeedsOf, Depths, DeltaOf
  <2> QED BY <2>1, <2>2, GoesOn
<1>3. CASE ExecDrop
  <2>1. /\ Executing({"DROP"}) /\ stack' = stack /\ loopStack' = loopStack
        /\ Current.op = "DROP" /\ Continue
    BY <1>3 DEF ExecDrop, Executing
  <2>2. Len(stack') = Len(stack) + StackDelta(Current.op)
    BY <2>1, HandlerStart, DeltaOf
  <2> QED BY <2>1, <2>2, GoesOn
<1>4. CASE ExecInput
  <2>1. /\ Executing({"INPUT"}) /\ stack' = Rest(1) /\ loopStack' = loopStack
        /\ Current.op = "INPUT" /\ (Continue \/ Fault("CallDataIndex"))
    BY <1>4 DEF ExecInput, Executing
  <2>2. Len(stack') = Len(stack) + StackDelta(Current.op)
    BY <2>1, NeedsOf, Depths, DeltaOf
  <2> QED BY <2>1, <2>2, GoesOn, Faults DEF Harmless
<1>5. CASE ExecOutput
  <2>1. /\ Executing({"OUTPUT"}) /\ stack' = Rest(1) /\ loopStack' = loopStack
        /\ Current.op = "OUTPUT"
        /\ Continue \/ Fault("OutputIndex") \/ Fault("UnsetRegister")
    BY <1>5 DEF ExecOutput, Executing
  <2>2. Len(stack') = Len(stack) + StackDelta(Current.op)
    BY <2>1, NeedsOf, Depths, DeltaOf
  <2> QED BY <2>1, <2>2, GoesOn, Faults DEF Harmless
<1> QED BY <1>1, <1>2, <1>3, <1>4, <1>5

LEMMA ArithmeticEffect ==
    ASSUME TypeOK, ExecUnary \/ ExecBinary \/ ExecIdxGrid \/ ExecIdxTriu
    PROVE  Effect
<1>1. CASE ExecUnary
  <2>1. /\ Executing(UnaryOps) /\ Continue /\ loopStack' = loopStack
        /\ stack' = Append(Rest(1), Unary(Current.op, Operand(1)))
        /\ Current.op \in UnaryOps
    BY <1>1 DEF ExecUnary, Executing
  <2>2. Needs(Current.op) = 1 /\ StackDelta(Current.op) = 0 /\ Current.op # "SCLR"
    BY <2>1, NeedsOf, DeltaOf DEF UnaryOps
  <2>3. Len(stack') = Len(stack) + StackDelta(Current.op)
    BY <2>1, <2>2, Depths
  <2> QED BY <2>1, <2>2, <2>3, GoesOn
<1>2. CASE ExecBinary
  <2>1. /\ Executing(BinaryOps) /\ loopStack' = loopStack /\ Current.op \in BinaryOps
    BY <1>2 DEF ExecBinary, Executing
  <2>2. Needs(Current.op) = 2 /\ StackDelta(Current.op) = -1 /\ Current.op # "SCLR"
    BY <2>1, NeedsOf, DeltaOf DEF BinaryOps
  <2>3. CASE BinaryError(Current.op, Operand(1)) = "none"
    <3>1. /\ stack' = Append(Rest(2), Binary(Current.op, Operand(2), Operand(1)))
          /\ Continue
      BY <1>2, <2>3 DEF ExecBinary
    <3>2. Len(stack') = Len(stack) + StackDelta(Current.op)
      BY <2>1, <2>2, <3>1, Depths
    <3> QED BY <2>1, <2>2, <3>1, <3>2, GoesOn
  <2>4. CASE BinaryError(Current.op, Operand(1)) # "none"
    <3>1. Fault(BinaryError(Current.op, Operand(1)))
      BY <1>2, <2>4 DEF ExecBinary
    <3>2. BinaryError(Current.op, Operand(1)) \in Harmless
      BY <2>4 DEF BinaryError, Harmless
    <3> QED BY <3>1, <3>2, Faults
  <2> QED BY <2>3, <2>4
<1>3. CASE ExecIdxGrid
  <2>1. /\ Executing({"IDXGRID"}) /\ Continue /\ loopStack' = loopStack
        /\ stack' = Append(Rest(3), IdxGrid(Operand(3), Operand(2), Operand(1)))
        /\ Current.op = "IDXGRID"
    BY <1>3 DEF ExecIdxGrid, Executing
  <2>3. Needs(Current.op) = 3 /\ StackDelta(Current.op) = -2
    BY <2>1, NeedsOf, DeltaOf
  <2>2. Len(stack') = Len(stack) + StackDelta(Current.op)
    BY <2>1, <2>3, Depths
  <2> QED BY <2>1, <2>2, GoesOn
<1>4. CASE ExecIdxTriu
  <2>1. /\ Executing({"IDXTRIU"}) /\ loopStack' = loopStack /\ Current.op = "IDXTRIU"
        /\ \/ Fault("Panic")
           \/ /\ stack' = Append(Rest(2), IdxTriu(Operand(2), Operand(1)))
              /\ Continue
    BY <1>4 DEF ExecIdxTriu, Executing
  <2>2. CASE Continue /\ stack' = Append(Rest(2), IdxTriu(Operand(2), Operand(1)))
    <3>1. Len(stack') = Len(stack) + StackDelta(Current.op)
      BY <2>1, <2>2, NeedsOf, Depths, DeltaOf
    <3> QED BY <2>1, <2>2, <3>1, GoesOn
  <2> QED BY <2>1, <2>2, Faults DEF Harmless
<1> QED BY <1>1, <1>2, <1>3, <1>4

LEMMA VectorEffect ==
    ASSUME TypeOK, \/ ExecVecNew \/ ExecVecPush \/ ExecVecGet
                   \/ ExecVecSet \/ ExecVecLen \/ ExecSlack
    PROVE  Effect
<1>1. CASE ExecVecNew
  <2>1. /\ Executing({"VEC", "VECI", "VECX"}) /\ stack' = stack
        /\ loopStack' = loopStack /\ Current.op \in {"VEC", "VECI", "VECX"} /\ Continue
    BY <1>1 DEF ExecVecNew, Executing
  <2>2. StackDelta(Current.op) = 0 /\ Current.op # "SCLR"
    BY <2>1, DeltaOf
  <2>3. Len(stack') = Len(stack) + StackDelta(Current.op)
    BY <2>1, <2>2, HandlerStart
  <2> QED BY <2>1, <2>2, <2>3, GoesOn
<1>2. CASE ExecVecPush
  <2>1. /\ Executing({"VECPUSH"}) /\ stack' = Rest(1) /\ loopStack' = loopStack
        /\ Current.op = "VECPUSH" /\ (Continue \/ Fault("RegisterType"))
    BY <1>2 DEF ExecVecPush, Executing
  <2>2. Len(stack') = Len(stack) + StackDelta(Current.op)
    BY <2>1, NeedsOf, Depths, DeltaOf
  <2> QED BY <2>1, <2>2, GoesOn, Faults DEF Harmless
<1>3. CASE ExecVecGet
  <2>1. /\ Executing({"VECGET"}) /\ loopStack' = loopStack /\ Current.op = "VECGET"
        /\ \/ Fault("RegisterType") \/ Fault("IndexOutOfBounds")
           \/ \E v : stack' = Append(Rest(1), v) /\ Continue
    BY <1>3 DEF ExecVecGet, Executing
  <2>2. ASSUME NEW v, stack' = Append(Rest(1), v), Continue PROVE Effect
    <3>1. Len(stack') = Len(stack) + StackDelta(Current.op)
      BY <2>1, <2>2, NeedsOf, Depths, DeltaOf
    <3> QED BY <2>1, <2>2, <3>1, GoesOn
  <2> QED BY <2>1, <2>2, Faults DEF Harmless
<1>4. CASE ExecVecSet
  <2>1. /\ Executing({"VECSET"}) /\ stack' = Rest(2) /\ loopStack' = loopStack
        /\ Current.op = "VECSET"
        /\ Continue \/ Fault("RegisterType") \/ Fault("IndexOutOfBounds")
    BY <1>4 DEF ExecVecSet, Executing
  <2>2. Len(stack') = Len(stack) + StackDelta(Current.op)
    BY <2>1, NeedsOf, Depths, DeltaOf
  <2> QED BY <2>1, <2>2, GoesOn, Faults DEF Harmless
<1>5. CASE ExecVecLen
  <2>1. /\ Executing({"VECLEN"}) /\ loopStack' = loopStack /\ Current.op = "VECLEN"
        /\ Fault("RegisterType") \/ \E v : Push(v, stack)
    BY <1>5 DEF ExecVecLen, Executing
  <2> QED BY <2>1, PushEffect, DeltaOf, Faults DEF Harmless
<1>6. CASE ExecSlack
  <2>1. /\ Executing({"SLACK"}) /\ stack' = Rest(2) /\ loopStack' = loopStack
        /\ Current.op = "SLACK"
        /\ Continue \/ Fault("RegisterType") \/ Fault("Panic")
    BY <1>6, Zenon DEF ExecSlack, Executing
  <2>2. Len(stack') = Len(stack) + StackDelta(Current.op)
    BY <2>1, NeedsOf, Depths, DeltaOf
  <2> QED BY <2>1, <2>2, GoesOn, Faults DEF Harmless
<1> QED BY <1>1, <1>2, <1>3, <1>4, <1>5, <1>6

LEMMA LoopEffect ==
    ASSUME TypeOK, ExecNext \/ ExecLidx \/ ExecLVal \/ ExecRange \/ ExecIter
    PROVE  Effect
<1>1. CASE ExecNext
  <2>1. /\ Executing({"NEXT"}) /\ stack' = stack /\ Current.op = "NEXT"
        /\ status = "running" /\ skipDepth = 0
    BY <1>1 DEF ExecNext, Executing
  <2>2. Len(stack') = Len(stack) + StackDelta(Current.op)
    BY <2>1, HandlerStart, DeltaOf
  <2>3. \/ status' = "NoActiveLoop" /\ loopStack = <<>>
        \/ status' = "Panic"
        \/ /\ status' = "SeekOutOfBounds" /\ loopStack # <<>>
           /\ TopFrame.body > Len(prog.code) + 1
        \/ status' = "running" /\ skipDepth' = skipDepth
    <3> DEFINE f == Advanced(TopFrame)
    <3>1. CASE loopStack # <<>> /\ Seek(f.body)
      <4>1. f.body = TopFrame.body
        BY <3>1, TopFrameOK DEF Advanced, FrameOK, RangeFrame, IterFrame
      <4> HIDE DEF f
      <4> QED BY <2>1, <3>1, <4>1 DEF Seek, Fault
    <3> QED BY <1>1, <2>1, <3>1 DEF ExecNext, Fault, Continue
  <2> QED BY <2>1, <2>2, <2>3 DEF Effect, EndsOnly, Follows
<1>2. CASE ExecLidx \/ ExecLVal
  <2>1. /\ Executing({"LIDX"}) \/ Executing({"LVAL"})
        /\ stack' = stack /\ loopStack' = loopStack /\ Current.op \in {"LIDX", "LVAL"}
        /\ \/ Continue \/ Fault("IndexOutOfBounds")
           \/ Fault("NoActiveLoop") /\ loopStack = <<>>
    BY <1>2 DEF ExecLidx, ExecLVal, Executing
  <2>2. StackDelta(Current.op) = 0 /\ Current.op # "SCLR"
    BY <2>1, DeltaOf
  <2>3. Len(stack') = Len(stack) + StackDelta(Current.op)
    BY <2>1, <2>2, HandlerStart
  <2>4. CASE Fault("NoActiveLoop") /\ loopStack = <<>>
    BY <2>1, <2>4 DEF Fault, Effect, EndsOnly
  <2> QED BY <2>1, <2>2, <2>3, <2>4, GoesOn, Faults DEF Harmless
<1>3. CASE ExecRange
  <2>1. /\ Executing({"RANGE"}) /\ stack' = Rest(2) /\ Current.op = "RANGE"
        /\ status' = "running" /\ pc' = Behind
    BY <1>3 DEF ExecRange, Executing
  <2>2. Len(stack') = Len(stack) + StackDelta(Current.op)
    BY <2>1, NeedsOf, Depths, DeltaOf
  <2> QED BY <2>1, <2>2 DEF Effect, EndsOnly, Follows, LoopOpeners
<1>4. CASE ExecIter
  <2>1. /\ Executing({"ITER"}) /\ stack' = Rest(2) /\ Current.op = "ITER"
        /\ Continue \/ Fault("RegisterType") \/ Fault("IndexOutOfBounds")
    BY <1>4 DEF ExecIter, Executing
  <2>2. Len(stack') = Len(stack) + StackDelta(Current.op)
    BY <2>1, NeedsOf, Depths, DeltaOf
  <2>3. CASE Continue
    <3>1. status' = "running" /\ pc' = Behind /\ skipDepth' = skipDepth
      BY <2>1, <2>3 DEF Continue, Executing
    <3> QED BY <2>1, <2>2, <3>1 DEF Effect, EndsOnly, Follows, LoopOpeners
  <2> QED BY <2>1, <2>3, Faults DEF Harmless
<1> QED BY <1>1, <1>2, <1>3, <1>4

LEMMA ExecuteEffect == ASSUME TypeOK, Execute PROVE Effect
BY ControlEffect, JumpEffect, StackEffect, RegisterEffect, ArithmeticEffect,
   VectorEffect, LoopEffect DEF Execute

--------------------------------------------------------------------------
(* Where the stream goes, and the frames and registers with it.           *)

LEMMA Dispatch ==
    ASSUME Execute, status' = "running"
    PROVE  /\ Current.op = "JUMP" => ExecJump
           /\ Current.op = "JUMPI" => ExecJumpI
           /\ Current.op = "NEXT" => ExecNext
           /\ Current.op = "LIDX" => ExecLidx
           /\ Current.op = "LVAL" => ExecLVal
           /\ Current.op = "RANGE" => ExecRange
           /\ Current.op = "ITER" => ExecIter
           /\ Current.op = "STOW" => ExecStow
           /\ Current.op = "DROP" => ExecDrop
           /\ Current.op = "INPUT" => ExecInput
           /\ Current.op \in {"VEC", "VECI", "VECX"} => ExecVecNew
           /\ Current.op = "VECPUSH" => ExecVecPush
           /\ Current.op = "VECSET" => ExecVecSet
           /\ Current.op = "SLACK" => ExecSlack
           /\ Current.op \notin {"LIDX", "LVAL", "STOW", "DROP", "INPUT", "VEC",
                                 "VECI", "VECX", "VECPUSH", "VECSET", "SLACK"}
                 => regs' = regs
           /\ pc <= Len(prog.code) /\ skipDepth = 0 /\ prog' = prog
<1>1. ~Underflow
  BY DEF Underflow, Fault
<1>2. \A ops : Executing(ops) => /\ Current.op \in ops /\ pc <= Len(prog.code)
                                 /\ skipDepth = 0 /\ prog' = prog
  BY DEF Executing, hostVars
<1>3. CASE \/ ExecNop \/ ExecHalt \/ ExecBad \/ ExecPush \/ ExecPop \/ ExecCopy
           \/ ExecSwap \/ ExecSclr \/ ExecLoad \/ ExecOutput \/ ExecUnary
           \/ ExecBinary \/ ExecIdxGrid \/ ExecIdxTriu \/ ExecVecGet \/ ExecVecLen
  <2>1. /\ Current.op \in {"NOP", "TARGET", "HALT", "BAD", "PUSH", "POP", "COPY",
                           "SWAP", "SCLR", "LOAD", "OUTPUT", "IDXGRID", "IDXTRIU",
                           "VECGET", "VECLEN"} \cup UnaryOps \cup BinaryOps
        /\ regs' = regs /\ pc <= Len(prog.code) /\ skipDepth = 0 /\ prog' = prog
    BY <1>2, <1>3 DEF ExecNop, ExecHalt, ExecBad, ExecPush, ExecPop, ExecCopy,
       ExecSwap, ExecSclr, ExecLoad, ExecOutput, ExecUnary, ExecBinary,
       ExecIdxGrid, ExecIdxTriu, ExecVecGet, ExecVecLen
  <2> QED BY <2>1 DEF UnaryOps, BinaryOps
<1>4. CASE ExecJump \/ ExecJumpI \/ ExecNext \/ ExecRange \/ ExecIter
  BY <1>2, <1>4 DEF ExecJump, ExecJumpI, ExecNext, ExecRange, ExecIter
<1>5. CASE ExecLidx \/ ExecLVal \/ ExecStow \/ ExecDrop \/ ExecInput
  BY <1>2, <1>5 DEF ExecLidx, ExecLVal, ExecStow, ExecDrop, ExecInput
<1>6. CASE ExecVecNew \/ ExecVecPush \/ ExecVecSet \/ ExecSlack
  BY <1>2, <1>6 DEF ExecVecNew, ExecVecPush, ExecVecSet, ExecSlack
<1> QED BY <1>1, <1>3, <1>4, <1>5, <1>6 DEF Execute

LEMMA JumpFlow ==
    ASSUME Execute, status' = "running", Current.op \in JumpOps
    PROVE  \/ pc' = Behind
           \/ Current.imm + 1 \in 1 .. Len(prog.table) /\ pc' = prog.table[Current.imm + 1]
<1>1. /\ Continue \/ JumpTo(Current.imm)
      /\ status = "running"
  BY Dispatch DEF JumpOps, ExecJump, ExecJumpI, Executing
<1> QED BY <1>1 DEF JumpTo, Seek, Continue, Fault

\* NEXT goes back to the body of the innermost frame and keeps the frames, or
\* drops that frame and goes on.
LEMMA NextFlow ==
    ASSUME TypeOK, Execute, status' = "running", Current.op = "NEXT"
    PROVE  /\ loopStack # <<>> /\ skipDepth' = 0
           /\ \/ /\ pc' = TopFrame.body /\ Len(loopStack') = Len(loopStack)
                 /\ \A k \in 1 .. Len(loopStack) : loopStack'[k].body = loopStack[k].body
              \/ /\ pc' = Behind /\ Len(loopStack') = Len(loopStack) - 1
                 /\ \A k \in 1 .. Len(loopStack) - 1 : loopStack'[k] = loopStack[k]
<1> DEFINE f == Advanced(TopFrame)
<1>1. ExecNext /\ skipDepth = 0
  BY Dispatch
<1>2. loopStack # <<>> /\ skipDepth' = 0
  BY <1>1 DEF ExecNext, Seek, Fault, Continue
<1>3. Len(loopStack) \in Nat \ {0} /\ FrameOK(TopFrame)
  BY <1>2, TopFrameOK
<1>4. f.body = TopFrame.body
  BY <1>3 DEF Advanced, FrameOK, RangeFrame, IterFrame
<1>5. \/ /\ loopStack' = [loopStack EXCEPT ![Len(loopStack)] = f]
         /\ pc' = f.body
      \/ /\ loopStack' = SubSeq(loopStack, 1, Len(loopStack) - 1)
         /\ pc' = Behind
  BY <1>1, <1>2, Zenon DEF ExecNext, Seek, Fault, Continue
<1>6. loopStack \in Seq(RangeFrame \cup IterFrame)
  BY DEF TypeOK, LoopsOK
<1>7. CASE loopStack' = [loopStack EXCEPT ![Len(loopStack)] = f] /\ pc' = f.body
  <2>1. Len(loopStack') = Len(loopStack)
    BY <1>6, <1>7
  <2>2. \A k \in 1 .. Len(loopStack) : loopStack'[k].body = loopStack[k].body
    <3>1. \A k \in 1 .. Len(loopStack) :
             loopStack'[k] = IF k = Len(loopStack) THEN f ELSE loopStack[k]
      BY <1>6, <1>7
    <3> QED BY <1>4, <3>1 DEF TopFrame
  <2> QED BY <1>2, <1>4, <1>7, <2>1, <2>2
<1>8. CASE /\ loopStack' = SubSeq(loopStack, 1, Len(loopStack) - 1)
           /\ pc' = Behind
  <2>1. Len(loopStack) - 1 \in 0 .. Len(loopStack)
    BY <1>3
  <2> QED BY <1>2, <1>6, <1>8, <2>1, Prefix
<1> QED BY <1>5, <1>7, <1>8

\* RANGE and ITER push a frame whose body is the next instruction, or RANGE
\* starts the scan of an empty loop.
LEMMA OpenFlow ==
    ASSUME TypeOK, Execute, status' = "running", Current.op \in LoopOpeners
    PROVE  /\ pc' = Behind
           /\ \/ skipDepth' = 1 /\ loopStack' = loopStack
              \/ /\ skipDepth' = 0 /\ Len(loopStack') = Len(loopStack) + 1
                 /\ loopStack'[Len(loopStack) + 1].body = Behind
                 /\ \A k \in 1 .. Len(loopStack) : loopStack'[k] = loopStack[k]
<1>1. pc' = Behind /\ skipDepth = 0
  BY Dispatch DEF LoopOpeners, ExecRange, ExecIter, Continue, Fault
<1>2. \/ skipDepth' = 1 /\ loopStack' = loopStack
      \/ \E f : /\ skipDepth' = 0 /\ loopStack' = Append(loopStack, f)
                /\ f.body = Behind
  <2>1. CASE ExecRange
    BY <1>1, <2>1 DEF ExecRange
  <2>2. CASE ExecIter
    BY <1>1, <2>2 DEF ExecIter, Continue, Fault
  <2> QED BY <2>1, <2>2, Dispatch DEF LoopOpeners
<1>3. ASSUME NEW f, loopStack' = Append(loopStack, f)
      PROVE  /\ Len(loopStack') = Len(loopStack) + 1
             /\ loopStack'[Len(loopStack) + 1] = f
             /\ \A k \in 1 .. Len(loopStack) : loopStack'[k] = loopStack[k]
  <2> DEFINE S == (RangeFrame \cup IterFrame) \cup {f}
  <2>1. loopStack \in Seq(RangeFrame \cup IterFrame)
    BY DEF TypeOK, LoopsOK
  <2>2. loopStack \in Seq(S) /\ f \in S
    BY <2>1
  <2> HIDE DEF S
  <2> QED BY <1>3, <2>2, AppendProperties
<1> QED BY <1>1, <1>2, <1>3
==========================================================================
