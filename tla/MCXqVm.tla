----------------------------- MODULE MCXqVm -----------------------------
(***************************************************************************)
(* Model checking of XqVm: one VM that its host sets up, runs, and runs    *)
(* again without a reset.                                                  *)
(*                                                                         *)
(* The first run executes any program of FirstPrograms, the second one the *)
(* same program or one of Probes: short programs that look at what the     *)
(* first left behind.  Three of them take up the loops the first left open *)
(* at a NEXT of their own, where the body's position is past their end, in *)
(* the operand of an instruction that decodes as NEXT, and in one that     *)
(* decodes as a jump.                                                      *)
(*                                                                         *)
(* Programs are laid out by bytes, with the opcode bytes of table.rs as    *)
(* far as the operands here reach: an operand byte holds what decodes from *)
(* there on.                                                               *)
(***************************************************************************)
EXTENDS XqVm, SequencesExt

CONSTANTS m1, s1

VARIABLE runs                    \* how many runs were started, at most 2

Seqs(S, n) == UNION {[1 .. k -> S] : k \in 0 .. n}

\* What the operand bytes here decode to (JUMP2 takes a label of two bytes),
\* and the opcode byte of an operation: 7, NEXT's, also stands for any other
\* byte that is no label of these programs.
Decodes == 0 :> "TARGET" @@ 1 :> "JUMP" @@ 2 :> "JUMPI" @@ 3 :> "JUMP2"
             @@ 7 :> "NEXT"
Opcode(op) ==
    CASE op = "TARGET" -> 0 [] op = "JUMP" -> 1 [] op = "JUMPI" -> 2
      [] op = "LIDX" -> 5   [] op = "LVAL" -> 6 [] OTHER -> 7

\* The bytes of an instruction: its opcode and one for each operand.
Bytes(i) ==
    <<Opcode(i.op)>> \o
    (CASE i.op \in {"PUSH"} \cup JumpOps -> <<i.imm>>
       [] i.op = "SLACK"                -> <<i.r1, i.r2>>
       [] i.op \in {"ITER", "LIDX", "LVAL"} \cup RegisterOps
                 \cup (VecOps \ {"SLACK"}) -> <<i.r1>>
       [] OTHER                         -> <<>>)

\* The instruction that decodes from an operand byte on.
Decoded(bytes, k) ==
    LET op == Decodes[bytes[k]]
        width == IF op \in JumpOps THEN 2 ELSE IF op = "JUMP2" THEN 3 ELSE 1
    IN  IF k + width > Len(bytes) + 1 THEN Op("BAD")
        ELSE [(IF op \in JumpOps THEN OpImm(op, bytes[k + 1])
               ELSE IF op = "JUMP2"
               THEN OpImm("JUMP", IF bytes[k + 1] = 0 THEN bytes[k + 2] ELSE 7)
               ELSE Op(op)) EXCEPT !.width = width]

\* The loaded form of a listing: its places, and the TARGETs of the listing as
\* the jump table.
Load(listing) ==
    LET bytes == FlattenSeq([n \in 1 .. Len(listing) |-> Bytes(listing[n])])
        start(n) == 1 + Len(FlattenSeq([m \in 1 .. n - 1 |-> Bytes(listing[m])]))
        starts == {start(n) : n \in 1 .. Len(listing)}
        at(k) == listing[CHOOSE n \in 1 .. Len(listing) : start(n) = k]
        labelled == {k \in starts : at(k).op = "TARGET"}
    IN  [code |-> [k \in 1 .. Len(bytes) |->
                      IF k \in starts
                      THEN [at(k) EXCEPT !.width = Len(Bytes(at(k)))]
                      ELSE Decoded(bytes, k)],
         table |-> SetToSortSeq(labelled, <)]

\* Control flow: every arrangement of two such instructions, after two
\* operands were pushed, and some longer ones with nested loops.
ControlAlphabet ==
    {Op("RANGE"), Op("NEXT"), OpReg("LVAL", 0), OpReg("ITER", 0),
     OpImm("JUMP", 0), OpImm("JUMPI", 0), Op("TARGET"), Op("BAD")}
ControlPrograms ==
    {<<OpImm("PUSH", start), OpImm("PUSH", count)>> \o body :
        start \in {0, 7}, count \in {0, 1, 2}, body \in Seqs(ControlAlphabet, 2)}
      \cup {<<OpImm("PUSH", 1), OpImm("PUSH", outer), Op("RANGE"),
             OpImm("PUSH", 0), OpImm("PUSH", inner), opener>> \o body :
                outer \in {0, 1}, inner \in {0, 1, 2},
                opener \in {Op("RANGE"), OpReg("ITER", 0)},
                body \in {<<Op("NEXT"), Op("NEXT")>>,
                         <<OpReg("LIDX", 1), Op("NEXT"), OpReg("LVAL", 1)>>}}

\* Data: every other operation, on no operands and on some.
DataAlphabet ==
    {Op(op) : op \in UnaryOps \cup BinaryOps \cup IndexOps
                       \cup {"POP", "COPY", "SWAP", "SCLR", "NOP", "HALT"}}
      \cup {OpReg(op, 0) : op \in RegisterOps \cup {"LIDX"}
                                   \cup (VecOps \ {"SLACK"})}
      \cup {OpRegs("SLACK", 0, r, 0) : r \in {0, 1}}
Operands == {<<>>, <<0>>, <<0, 7>>, <<2, 1>>, <<7, 3>>, <<1, 2, 3>>}
Pushes(values) == [i \in 1 .. Len(values) |-> OpImm("PUSH", values[i])]
DataPrograms ==
    {Pushes(values) \o <<i>> : values \in Operands, i \in DataAlphabet}
      \cup {Pushes(<<1, 2, 3, 1>>),
             <<OpImm("PUSH", 0), OpReg("OUTPUT", 0), OpReg("DROP", 0),
               OpImm("PUSH", 0), OpReg("OUTPUT", 0)>>}

FirstPrograms == {Load(code) : code \in ControlPrograms \cup DataPrograms}
Probes ==
    {Load(<<OpReg("LVAL", 1), Op("NEXT")>> \o rest) :
        rest \in {<<>>, <<Op("NOP"), OpImm("PUSH", 7)>>,
                  <<Op("NOP"), OpImm("PUSH", 1), Op("TARGET")>>}}
      \cup {Load(<<OpReg("LOAD", 0), OpReg("OUTPUT", 0)>>)}
AllPrograms == FirstPrograms \cup Probes

Calldata == {<<[tag |-> "Sample", sample |-> s1]>>}
HostRegisters == {VecInt(<<3, 4>>), VecXqmx(<<m1>>), ModelVal(m1)}

MCInit == Init /\ runs = 0

MCNext ==
    \/ VmStep /\ UNCHANGED runs
    \/ /\ runs = 0 /\ \E p \in FirstPrograms : Run(p)
       /\ runs' = 1
    \/ /\ runs = 1 /\ \E p \in Probes \cup {prog} : Run(p)
       /\ runs' = 2
    \/ /\ runs = 0
       /\ \/ \E data \in Calldatas : SetCalldata(data)
          \/ \E n \in OutputCounts : SetOutputSlots(n)
          \/ \E limit \in StepLimits : SetStepLimit(limit)
          \/ \E v \in HostValues : SetRegister(0, v)
          \/ Reset
       /\ UNCHANGED runs

MCSpec == MCInit /\ [][MCNext]_<<vmVars, runs>> /\ WF_vmVars(VmStep)
==========================================================================
