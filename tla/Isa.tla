------------------------------- MODULE Isa -------------------------------
(***************************************************************************)
(* The instruction set of the XQVM as the VM, the verifier and the builder *)
(* share it: instructions, their operands, and the tables of               *)
(* src/xqvm/src/bytecode/types/table.rs.                                   *)
(*                                                                         *)
(* A program's code is a sequence of places, and a code position is an     *)
(* index of it.  In general a place is a byte: it holds the instruction    *)
(* that decodes from there on, and the next one is width places further,   *)
(* so the places between, the operand bytes, have instructions of their    *)
(* own that only run if the stream is sent there.  Where nothing sends it  *)
(* anywhere but to the start of an instruction, one place for each is      *)
(* enough (OnePlaceEach): it leaves out what lies between and keeps the    *)
(* order.                                                                  *)
(*                                                                         *)
(* The encodings of one operation by operand width are one operation here  *)
(* (PUSH1..PUSH8 are PUSH, JUMP1/JUMP2 are JUMP, JUMPI1/JUMPI2 are JUMPI). *)
(* BAD stands for bytes that do not decode.                                *)
(***************************************************************************)
EXTENDS Alu, Sequences

CONSTANT Reg           \* the register file's slots (0 .. 255 in the code)

ASSUME RegAssumption == Reg \subseteq Nat /\ 0 \in Reg

JumpOps == {"JUMP", "JUMPI"}
LoopOpeners == {"RANGE", "ITER"}

StackOps == {"PUSH", "POP", "COPY", "SWAP", "SCLR"}
RegisterOps == {"LOAD", "STOW", "DROP", "INPUT", "OUTPUT"}
ControlOps == JumpOps \cup LoopOpeners
                \cup {"NOP", "TARGET", "LIDX", "LVAL", "NEXT", "HALT"}
VecOps == {"VEC", "VECI", "VECX", "VECPUSH", "VECGET", "VECSET", "VECLEN",
           "SLACK"}
IndexOps == {"IDXGRID", "IDXTRIU"}
ModelAllocators == {"BQMX", "SQMX", "XQMX"}
SampleAllocators == {"BSMX", "SSMX", "XSMX"}
CoefficientOps == {"GETLINE", "SETLINE", "ADDLINE",
                   "GETQUAD", "SETQUAD", "ADDQUAD"}
GridOps == {"RESIZE", "ROWFIND", "COLFIND", "ROWSUM", "COLSUM"}
ConstraintOps == {"ONEHOTR", "ONEHOTC", "EXCLUDE", "IMPLIES", "EQUALITY",
                  "ATLEAST", "ATLEASTW", "REDUCE"}

Ops == StackOps \cup RegisterOps \cup ControlOps \cup UnaryOps \cup BinaryOps
         \cup VecOps \cup IndexOps \cup ModelAllocators \cup SampleAllocators
         \cup CoefficientOps \cup GridOps \cup ConstraintOps
         \cup {"ENERGY", "BAD"}

\* An instruction: its operation, its immediate (the constant of PUSH, the
\* label of a jump), its register operands and its width; operands an
\* operation does not have are 0.
Instruction == [op : Ops, imm : Int, r1 : Reg, r2 : Reg, r3 : Reg,
                width : Nat \ {0}]
OnePlaceEach(code) == \A k \in DOMAIN code : code[k].width = 1

Op(op) == [op |-> op, imm |-> 0, r1 |-> 0, r2 |-> 0, r3 |-> 0, width |-> 1]
OpImm(op, imm) == [Op(op) EXCEPT !.imm = imm]
OpReg(op, r) == [Op(op) EXCEPT !.r1 = r]
OpRegs(op, r1, r2, r3) ==
    [Op(op) EXCEPT !.r1 = r1, !.r2 = r2, !.r3 = r3]

--------------------------------------------------------------------------
\* The stack_delta column of the opcode table; SCLR is its Reset sentinel.
Delta_1 == {"PUSH", "COPY", "LOAD", "VECLEN", "ENERGY"}
Delta_m1 == BinaryOps \cup
    {"JUMPI", "STOW", "INPUT", "OUTPUT", "POP", "VECPUSH", "IDXTRIU",
     "GETQUAD", "ROWFIND", "COLFIND", "BQMX", "SQMX", "BSMX", "SSMX"}
Delta_m2 ==
    {"RANGE", "ITER", "XQMX", "XSMX", "VECSET", "SLACK", "IDXGRID",
     "SETLINE", "ADDLINE", "RESIZE", "ONEHOTR", "ONEHOTC", "EQUALITY",
     "ATLEAST", "ATLEASTW", "REDUCE"}
Delta_m3 == {"SETQUAD", "ADDQUAD", "EXCLUDE", "IMPLIES"}

StackDelta(op) ==
    IF op \in Delta_1 THEN 1 ELSE IF op \in Delta_m1 THEN -1
    ELSE IF op \in Delta_m2 THEN -2 ELSE IF op \in Delta_m3 THEN -3 ELSE 0

\* How many values must be on the stack for the handler not to raise
\* StackUnderflow: what it pops, or, for COPY and SWAP, what it looks at.
NeedOne == UnaryOps \cup
    {"JUMPI", "STOW", "INPUT", "OUTPUT", "POP", "COPY", "VECPUSH", "VECGET",
     "BQMX", "SQMX", "BSMX", "SSMX", "GETLINE", "ROWSUM", "COLSUM"}
NeedTwo == BinaryOps \cup
    {"RANGE", "ITER", "SWAP", "XQMX", "XSMX", "VECSET", "SLACK", "IDXTRIU",
     "SETLINE", "ADDLINE", "GETQUAD", "RESIZE", "ROWFIND", "COLFIND",
     "ONEHOTR", "ONEHOTC", "EQUALITY", "ATLEAST", "ATLEASTW"}
NeedThree == {"IDXGRID", "SETQUAD", "ADDQUAD", "EXCLUDE", "IMPLIES", "REDUCE"}

Needs(op) ==
    IF op \in NeedOne THEN 1 ELSE IF op \in NeedTwo THEN 2
    ELSE IF op \in NeedThree THEN 3 ELSE 0
==========================================================================
