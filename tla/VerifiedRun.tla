--------------------------- MODULE VerifiedRun ---------------------------
(***************************************************************************)
(* The verifier and the VM together: what src/xqvm/src/verifier.rs is for. *)
(*                                                                         *)
(* A host verifies a program and runs it, the way `xqcli verify` and       *)
(* `xqcli run`, or xqffi's verify and run, do: verification does not gate  *)
(* the run, so a rejected program may be run as well.  A run starts on a   *)
(* VM that is new or was reset; before it the host sets calldata, outputs  *)
(* and the step limit.  The program that runs is what Program::new makes   *)
(* of the code: its jump table is the targets the scan collected.          *)
(***************************************************************************)
EXTENDS XqVm, Verifier

ASSUME VerifiedAssumption ==
    /\ DepthLimit <= StackLimit        \* two constants of the code, both 8192
    /\ \A c \in Codes : c \in Seq([op : ExecOps, imm : Word,
                                   r1 : Reg, r2 : Reg, r3 : Reg, width : {1}])

VARIABLE clean       \* no run was started since the VM was new or reset

vars == <<vmVars, verifierVars, clean>>

\* Program::new.
Loaded == [code |-> code, table |-> targets]

Verify == VerifierStep /\ UNCHANGED <<vmVars, clean>>

RunLoaded ==
    /\ phase \in {"accepted", "rejected"} /\ clean
    /\ Run(Loaded)
    /\ clean' = FALSE
    /\ UNCHANGED verifierVars

Running == VmStep /\ UNCHANGED <<verifierVars, clean>>

ResetVm == Reset /\ clean' = TRUE /\ UNCHANGED verifierVars

Configure ==
    /\ clean
    /\ \/ \E data \in Calldatas : SetCalldata(data)
       \/ \E n \in OutputCounts : SetOutputSlots(n)
       \/ \E limit \in StepLimits : SetStepLimit(limit)
    /\ UNCHANGED <<verifierVars, clean>>

VerifiedInit == Init /\ VerifierInit /\ clean = TRUE
VerifiedNext == Verify \/ RunLoaded \/ Running \/ ResetVm \/ Configure
VerifiedSpec == VerifiedInit /\ [][VerifiedNext]_vars

--------------------------------------------------------------------------
(* Properties.                                                            *)

VerifiedTypeOK == TypeOK /\ VerifierTypeOK /\ clean \in BOOLEAN

Accepted == phase = "accepted"

\* The verifier does not follow jumps, so what it computes for a position is
\* right for a jump only if it computed the same at both of its ends.  A
\* program without jumps is disciplined, and so is one whose branches leave
\* the stack and the loops the way they found them.
Disciplined ==
    \A p \in 1 .. Len(code) : code[p].op \in JumpOps =>
        /\ code[p].imm + 1 \in 1 .. Len(targets)
        /\ LET t == targets[code[p].imm + 1]
           IN  din[t] = din[p + 1] /\ lin[t] = lin[p + 1]

\* The VM is between two instructions of an accepted, disciplined program.
AtInstruction ==
    Accepted /\ Disciplined /\ status = "running" /\ skipDepth = 0

\* The stack is as deep as the verifier computed for the position reached,
\* through every iteration, every loop skipped because its count was zero or
\* less, and every branch: no stack limit is met and no depth is left over.
DepthSound == AtInstruction => Len(stack) = din[pc]

\* The active loops are those the verifier had open at the position reached:
\* there are as many frames, and each goes back to the body of its opener.
LoopsSound ==
    AtInstruction =>
        /\ Len(loopStack) = Len(lin[pc])
        /\ \A k \in 1 .. Len(loopStack) : loopStack[k].body = lin[pc][k] + 1

\* The errors the verifier rules out.  What is wrong in the code itself is
\* ruled out for every accepted program, what depends on the path taken for
\* the disciplined ones.  (StackUnderflow is not among them: the verifier
\* looks at an instruction's net effect, so COPY on an empty stack passes.)
AcceptedRunsClean ==
    Accepted =>
        /\ status \notin {"DecodeError", "InvalidLabel"}
        /\ Disciplined =>
             status \notin {"NoActiveLoop", "UnmatchedLoop", "StackOverflow",
                             "SeekOutOfBounds"}

\* The type pass follows the code in order, so it is right about code that
\* runs in order: every register holds what the verifier says it holds, and
\* LOAD, OUTPUT and the vector operations find the type they want.
StraightLine ==
    \A p \in 1 .. Len(code) : code[p].op \notin JumpOps \cup LoopOpeners
TypesSound ==
    (Accepted /\ StraightLine /\ status = "running") =>
        \A r \in Reg : tin[pc][r] \in {regs[r].tag, "Any"}

\* verifier.rs, at RegisterTypePhase and at StackEffectPhase, and VERIFIER.md
\* say of the type and depth checks that they produce no false positives: a
\* program they reject does not run to its end.
NoFalsePositives ==
    phase = "rejected" /\ error \notin Phase1Errors => status # "ok"

--------------------------------------------------------------------------
(* The inductive invariant of verification and run.                       *)

\* The VM is new, or was reset, until a run of the verified code starts.
CleanInv ==
    /\ code \in Codes
    /\ clean => /\ stack = <<>> /\ loopStack = <<>> /\ status = "idle"
                /\ regs = [r \in Reg |-> Unset]
    /\ phase \notin {"accepted", "rejected"} => clean
    /\ ~clean => prog = Loaded

\* While the scan of an empty loop passes over the loop's body it is in as many
\* loops as are active, the skipped one, and those it has met on the way; the
\* stack is as deep as it is to be behind the skipped loop.
SkipFollows ==
    (Accepted /\ Disciplined /\ status = "running" /\ skipDepth > 0) =>
        /\ Len(lin[pc]) = Len(loopStack) + skipDepth
        /\ \A k \in 1 .. Len(loopStack) : loopStack[k].body = lin[pc][k] + 1
        /\ Len(stack) = din[lin[pc][Len(loopStack) + 1] + 1]

\* Straight-line code pushes no frame.
StraightRun ==
    (Accepted /\ StraightLine /\ status = "running") =>
        loopStack = <<>> /\ skipDepth = 0

\* Checked by TLC as an invariant, and proved inductive in VerifiedRunProofs.
RunInv ==
    /\ CleanInv /\ DepthSound /\ LoopsSound /\ SkipFollows
    /\ AcceptedRunsClean /\ StraightRun /\ TypesSound
Inductive == VerifiedTypeOK /\ WalkInv /\ CountInv /\ RunInv
==========================================================================
