----------------------------- MODULE Verifier -----------------------------
(***************************************************************************)
(* The pre-execution verifier of src/xqvm/src/verifier.rs: the default     *)
(* chain of CombinedPhase (the scan that also builds the jump table of     *)
(* Program::new), RegisterTypePhase and StackEffectPhase.                  *)
(*                                                                         *)
(* Each phase is one linear walk over the code, one instruction per step;  *)
(* the first error of a phase ends the chain.  Jumps are not followed.     *)
(* Error variants are kept, the offsets and names inside them are not.     *)
(*                                                                         *)
(* Three history variables record what the walks computed before each      *)
(* position, for the statements about runs in VerifiedRun: lin the open    *)
(* loops, tin the register types, din the stack depth.                     *)
(***************************************************************************)
EXTENDS Isa, FiniteSetsExt

CONSTANTS
    DepthLimit,    \* the verifier's own STACK_LIMIT (8192 in the code)
    Codes          \* the instruction sequences submitted for verification

ASSUME VerifierAssumption ==
    /\ DepthLimit \in Nat
    /\ Codes \subseteq Seq(Instruction)
    /\ \A c \in Codes : OnePlaceEach(c)
    /\ \A c \in Codes : \A k \in 1 .. Len(c) :      \* labels are u8 or u16
          c[k].op \in JumpOps => c[k].imm \in Nat

VARIABLES
    code,          \* the code under verification
    phase,         \* "scan" | "types" | "depth" | "accepted" | "rejected"
    pos,           \* the instruction the walk is at
    error,         \* the first error, or "none"
    targets,       \* positions of the TARGET instructions: the jump table
    loopOffsets,   \* positions of the open RANGE/ITER, outermost first
    jumpRefs,      \* the labels the jumps refer to
    types,         \* the static type of each register
    depth,         \* the static stack depth
    entries,       \* the depth pass's own loop stack
    lin, tin, din  \* history: loops, types and depth before each position

scanVars == <<targets, loopOffsets, jumpRefs, lin>>
typeVars == <<types, tin>>
depthVars == <<depth, entries, din>>
verifierVars == <<code, phase, pos, error, scanVars, typeVars, depthVars>>

Phase1Errors == {"BadOpcode", "NoActiveLoop", "UnmatchedLoop",
                 "UndefinedJumpTarget"}
VerifierErrors == Phase1Errors
    \cup {"ReadUnsetRegister", "RegisterTypeMismatch",
          "StackUnderflow", "StackOverflowRisk", "LoopStackImbalance"}

RegTypes == {"Unset", "Int", "VecInt", "VecXqmx", "Model", "Sample", "Any"}

VerifierTypeOK ==
    /\ code \in Seq(Instruction)
    /\ phase \in {"scan", "types", "depth", "accepted", "rejected"}
    /\ pos \in 1 .. Len(code) + 1
    /\ error \in VerifierErrors \cup {"none"}
    /\ targets \in Seq(1 .. Len(code))
    /\ loopOffsets \in Seq(1 .. Len(code))
    /\ jumpRefs \in Seq(Int)
    /\ types \in [Reg -> RegTypes]
    /\ depth \in 0 .. DepthLimit
    /\ entries \in Seq([opener : 1 .. Len(code), depth : 0 .. DepthLimit])
    /\ lin \in Seq(Seq(1 .. Len(code)))
    /\ tin \in Seq([Reg -> RegTypes])
    /\ din \in Seq(0 .. DepthLimit)

Instr == code[pos]
Walking(p) == phase = p /\ pos <= Len(code)
WalkOver(p) == phase = p /\ pos > Len(code)

\* The walk's next step, and its end: on to another phase, or not.
Onwards == pos' = pos + 1 /\ UNCHANGED <<code, phase, error>>
Reject(e) == phase' = "rejected" /\ error' = e /\ UNCHANGED <<code, pos>>
Enter(p) == phase' = p /\ pos' = 1 /\ UNCHANGED <<code, error>>

Popped(s) == SubSeq(s, 1, Len(s) - 1)

--------------------------------------------------------------------------
(* scan.                                                                  *)

\* An undecodable instruction ends the walk: the targets after it are never
\* recorded.
ScanBad ==
    /\ Walking("scan") /\ Instr.op = "BAD"
    /\ error' = IF error = "none" THEN "BadOpcode" ELSE error
    /\ pos' = Len(code) + 1
    /\ UNCHANGED <<code, phase, scanVars, typeVars, depthVars>>

\* The other instructions.  After an error NEXT no longer pops, but targets
\* are still collected.
ScanInstr ==
    /\ Walking("scan") /\ Instr.op # "BAD"
    /\ targets' = IF Instr.op = "TARGET" THEN Append(targets, pos) ELSE targets
    /\ jumpRefs' = IF Instr.op \in JumpOps THEN Append(jumpRefs, Instr.imm)
                                           ELSE jumpRefs
    /\ loopOffsets' =
          IF Instr.op \in LoopOpeners THEN Append(loopOffsets, pos)
          ELSE IF Instr.op = "NEXT" /\ error = "none" /\ loopOffsets # <<>>
               THEN Popped(loopOffsets) ELSE loopOffsets
    /\ error' = IF /\ error = "none" /\ loopOffsets = <<>>
                   /\ Instr.op \in {"NEXT", "LIDX", "LVAL"}
                THEN "NoActiveLoop" ELSE error
    /\ lin' = Append(lin, loopOffsets')
    /\ pos' = pos + 1
    /\ UNCHANGED <<code, phase, typeVars, depthVars>>

\* Mutant: the label checked against the number of targets, off by one.
ScanVerdictOffByOne ==
    IF error # "none" THEN error
    ELSE IF loopOffsets # <<>> THEN "UnmatchedLoop"
    ELSE IF \E k \in 1 .. Len(jumpRefs) : jumpRefs[k] > Len(targets)
    THEN "UndefinedJumpTarget" ELSE "none"

\* Mutant: loops left open at the end of the code are not an error.
ScanVerdictOpenLoops ==
    IF error # "none" THEN error
    ELSE IF \E k \in 1 .. Len(jumpRefs) : jumpRefs[k] >= Len(targets)
    THEN "UndefinedJumpTarget" ELSE "none"

\* The checks that need the whole walk.
ScanVerdict ==
    IF error # "none" THEN error
    ELSE IF loopOffsets # <<>> THEN "UnmatchedLoop"
    ELSE IF \E k \in 1 .. Len(jumpRefs) : jumpRefs[k] >= Len(targets)
    THEN "UndefinedJumpTarget" ELSE "none"

ScanEnd ==
    /\ WalkOver("scan")
    /\ IF ScanVerdict = "none" THEN Enter("types") ELSE Reject(ScanVerdict)
    /\ UNCHANGED <<scanVars, typeVars, depthVars>>

--------------------------------------------------------------------------
(* RegisterTypePhase.                                                     *)

\* A requirement is the set of types that satisfy it.
NonUnset == RegTypes \ {"Unset"}
IntReq == {"Int", "Any"}
VecIntReq == {"VecInt", "Any"}
AnyVec == {"VecInt", "VecXqmx", "Any"}
ModelReq == {"Model", "Any"}
SampleReq == {"Sample", "Any"}
Grid == {"Model", "Sample", "Any"}

\* check_reads: the registers an instruction reads, in the order they are
\* checked, with what each must satisfy.
Reads(i) ==
    CASE i.op = "LOAD"                               -> <<<<i.r1, IntReq>>>>
      [] i.op = "OUTPUT"                             -> <<<<i.r1, NonUnset>>>>
      [] i.op \in {"ITER", "VECLEN"}                 -> <<<<i.r1, AnyVec>>>>
      [] i.op \in {"VECGET", "VECSET", "VECPUSH"}    -> <<<<i.r1, VecIntReq>>>>
      [] i.op = "SLACK"      -> <<<<i.r1, VecIntReq>>, <<i.r2, VecIntReq>>>>
      [] i.op \in CoefficientOps \cup {"ONEHOTR", "ONEHOTC", "EXCLUDE",
                                       "IMPLIES", "REDUCE"}
                                                     -> <<<<i.r1, ModelReq>>>>
      [] i.op \in GridOps                            -> <<<<i.r1, Grid>>>>
      [] i.op \in {"EQUALITY", "ATLEASTW"} ->
            <<<<i.r1, ModelReq>>, <<i.r2, VecIntReq>>, <<i.r3, VecIntReq>>>>
      [] i.op = "ATLEAST"    -> <<<<i.r1, ModelReq>>, <<i.r2, VecIntReq>>>>
      [] i.op = "ENERGY"     -> <<<<i.r1, ModelReq>>, <<i.r2, SampleReq>>>>
      [] OTHER               -> <<>>

\* Mutant: DROP forgotten among the writes.
WritesWithoutDrop(before, i) ==
    CASE i.op \in {"STOW", "LIDX"}                   -> "Int"
      [] i.op \in {"INPUT", "LVAL"}                  -> "Any"
      [] i.op \in ModelAllocators                    -> "Model"
      [] i.op \in SampleAllocators                   -> "Sample"
      [] i.op \in {"VEC", "VECI"}                    -> "VecInt"
      [] i.op = "VECX"                               -> "VecXqmx"
      [] OTHER                                       -> before[i.r1]

\* apply_writes: the type of the instruction's register after it, of those it
\* found before.
Writes(before, i) ==
    CASE i.op \in {"STOW", "LIDX"}                   -> "Int"
      [] i.op = "DROP"                               -> "Unset"
      [] i.op \in {"INPUT", "LVAL"}                  -> "Any"
      [] i.op \in ModelAllocators                    -> "Model"
      [] i.op \in SampleAllocators                   -> "Sample"
      [] i.op \in {"VEC", "VECI"}                    -> "VecInt"
      [] i.op = "VECX"                               -> "VecXqmx"
      [] OTHER                                       -> before[i.r1]

Unsatisfied(i) ==
    {k \in 1 .. Len(Reads(i)) : types[Reads(i)[k][1]] \notin Reads(i)[k][2]}

CheckTypes ==
    /\ Walking("types")
    /\ Unsatisfied(Instr) = {}
    /\ types' = [types EXCEPT ![Instr.r1] = Writes(types, Instr)]
    /\ tin' = Append(tin, types')
    /\ Onwards
    /\ UNCHANGED <<scanVars, depthVars>>

RejectTypes ==
    /\ Walking("types")
    /\ Unsatisfied(Instr) # {}
    /\ LET first == Reads(Instr)[Min(Unsatisfied(Instr))][1]
       IN  Reject(IF types[first] = "Unset" THEN "ReadUnsetRegister"
                                            ELSE "RegisterTypeMismatch")
    /\ UNCHANGED <<scanVars, typeVars, depthVars>>

TypesEnd ==
    /\ WalkOver("types")
    /\ Enter("depth")
    /\ UNCHANGED <<scanVars, typeVars, depthVars>>

--------------------------------------------------------------------------
(* StackEffectPhase.                                                      *)

\* The static depth after an instruction, before the limits are looked at.
DepthAfterInstr == IF Instr.op = "SCLR" THEN 0 ELSE depth + StackDelta(Instr.op)

\* Mutant: ITER does not open a loop in the depth pass.
EntriesWithoutIter(d) ==
    IF Instr.op = "RANGE" THEN Append(entries, [opener |-> pos, depth |-> d])
    ELSE IF Instr.op = "NEXT" /\ entries # <<>> THEN Popped(entries) ELSE entries

EntriesAfter(d) ==
    IF Instr.op \in LoopOpeners THEN Append(entries, [opener |-> pos, depth |-> d])
    ELSE IF Instr.op = "NEXT" /\ entries # <<>> THEN Popped(entries) ELSE entries

\* Mutant: the net effect of a loop body is not looked at.
DepthVerdictNoBalance(d) ==
    IF d < 0 THEN "StackUnderflow"
    ELSE IF d > DepthLimit THEN "StackOverflowRisk" ELSE "none"

DepthVerdict(d) ==
    IF d < 0 THEN "StackUnderflow"
    ELSE IF d > DepthLimit THEN "StackOverflowRisk"
    ELSE IF Instr.op = "NEXT" /\ entries # <<>> /\ entries[Len(entries)].depth # d
    THEN "LoopStackImbalance" ELSE "none"

CheckDepth ==
    /\ Walking("depth")
    /\ DepthVerdict(DepthAfterInstr) = "none"
    /\ depth' = DepthAfterInstr
    /\ entries' = EntriesAfter(DepthAfterInstr)
    /\ din' = Append(din, depth')
    /\ Onwards
    /\ UNCHANGED <<scanVars, typeVars>>

RejectDepth ==
    /\ Walking("depth")
    /\ DepthVerdict(DepthAfterInstr) # "none"
    /\ Reject(DepthVerdict(DepthAfterInstr))
    /\ UNCHANGED <<scanVars, typeVars, depthVars>>

Accept ==
    /\ WalkOver("depth")
    /\ Enter("accepted")
    /\ UNCHANGED <<scanVars, typeVars, depthVars>>

--------------------------------------------------------------------------
VerifierInit ==
    /\ code \in Codes
    /\ phase = "scan" /\ pos = 1 /\ error = "none"
    /\ targets = <<>> /\ loopOffsets = <<>> /\ jumpRefs = <<>>
    /\ types = [r \in Reg |-> "Unset"]
    /\ depth = 0 /\ entries = <<>>
    /\ lin = <<loopOffsets>> /\ tin = <<types>> /\ din = <<depth>>

VerifierStep ==
    \/ ScanBad \/ ScanInstr \/ ScanEnd
    \/ CheckTypes \/ RejectTypes \/ TypesEnd
    \/ CheckDepth \/ RejectDepth \/ Accept

VerifierSpec == VerifierInit /\ [][VerifierStep]_verifierVars

--------------------------------------------------------------------------
(* Properties.                                                            *)

\* What the three phases that scan replaces ask of the code, each on its own
\* (StructuralPhase, JumpTargetPhase, LoopNestingPhase), by counting.
CountOf(ops, n) == Cardinality({k \in 1 .. n : code[k].op \in ops})
OpenAt(n) == CountOf(LoopOpeners, n) - CountOf({"NEXT"}, n)

StructuralPhase == CountOf({"BAD"}, Len(code)) = 0
JumpTargetPhase ==
    \A k \in 1 .. Len(code) :
        code[k].op \in JumpOps => code[k].imm < CountOf({"TARGET"}, Len(code))
LoopNestingPhase ==
    /\ \A k \in 1 .. Len(code) :
          code[k].op \in {"NEXT", "LIDX", "LVAL"} => OpenAt(k - 1) > 0
    /\ OpenAt(Len(code)) = 0

\* The single combined pass accepts exactly the programs that the three phases
\* it stands in for accept one after the other, although it stops popping
\* loops at the first error and checks labels last.
ScanIsPhase1 ==
    phase # "scan" =>
        (error \in Phase1Errors
            <=> ~(StructuralPhase /\ JumpTargetPhase /\ LoopNestingPhase))

\* The depth pass keeps a loop stack of its own and says nothing when NEXT
\* finds it empty: it relies on the scan having seen the same loops.  At every
\* position it has open exactly the loops the scan had open there, and has
\* kept for each the depth its body is entered with.
PhasesAgree ==
    phase = "depth" =>
        /\ Len(entries) = Len(lin[pos])
        /\ \A k \in 1 .. Len(entries) :
              /\ entries[k].opener = lin[pos][k]
              /\ entries[k].depth = din[entries[k].opener + 1]

--------------------------------------------------------------------------
(* What the walks have established of the positions behind them: the       *)
(* inductive invariant of the verifier.                                    *)

\* The scan at a position it passed without an error.
ScanFollows(p) ==
    /\ code[p].op # "BAD"
    /\ code[p].op \in {"NEXT", "LIDX", "LVAL"} => lin[p] # <<>>
    /\ lin[p + 1] = IF code[p].op \in LoopOpeners THEN Append(lin[p], p)
                    ELSE IF code[p].op = "NEXT" THEN Popped(lin[p]) ELSE lin[p]
    /\ code[p].op \in JumpOps =>
          \E k \in 1 .. Len(jumpRefs) : jumpRefs[k] = code[p].imm

\* Loops nest: each loop open at a position was opened before it, inside those
\* that are around it at the position.
LoopsNest(p) ==
    \A k \in 1 .. Len(lin[p]) :
        LET o == lin[p][k]
        IN  /\ o < p /\ code[o].op \in LoopOpeners
            /\ Len(lin[o + 1]) = k
            /\ \A j \in 1 .. k : lin[o + 1][j] = lin[p][j]

ScanInv ==
    /\ Len(lin) >= 1 /\ lin[1] = <<>> /\ lin[Len(lin)] = loopOffsets
    /\ phase = "scan" /\ error = "none" => Len(lin) = pos
    /\ phase \in {"types", "depth", "accepted"} =>
          /\ error = "none" /\ Len(lin) = Len(code) + 1 /\ loopOffsets = <<>>
          /\ \A k \in 1 .. Len(jumpRefs) : jumpRefs[k] < Len(targets)
    /\ (phase = "scan" /\ error = "none") \/ phase \in {"types", "depth", "accepted"} =>
          /\ \A p \in 1 .. Len(lin) - 1 : ScanFollows(p)
          /\ \A p \in 1 .. Len(lin) : LoopsNest(p)

TypesFollow(p) ==
    tin[p + 1] = [tin[p] EXCEPT ![code[p].r1] = Writes(tin[p], code[p])]

TypesInv ==
    /\ Len(tin) >= 1 /\ tin[1] = [r \in Reg |-> "Unset"]
    /\ phase = "scan" => Len(tin) = 1 /\ types = tin[1]
    /\ phase = "types" => Len(tin) = pos /\ types = tin[pos]
    /\ phase \in {"depth", "accepted"} => Len(tin) = Len(code) + 1
    /\ \A p \in 1 .. Len(tin) - 1 : TypesFollow(p)

\* The depth pass at a position: NEXT is reached with the depth the body of its
\* loop is entered with.
DepthFollows(p) ==
    /\ din[p + 1] = IF code[p].op = "SCLR" THEN 0
                    ELSE din[p] + StackDelta(code[p].op)
    /\ code[p].op = "NEXT" => din[p] = din[lin[p][Len(lin[p])] + 1]

DepthInv ==
    /\ Len(din) >= 1 /\ din[1] = 0
    /\ phase \in {"scan", "types"} => Len(din) = 1 /\ depth = 0 /\ entries = <<>>
    /\ phase = "depth" => Len(din) = pos /\ depth = din[pos]
    /\ phase = "accepted" => Len(din) = Len(code) + 1
    /\ \A p \in 1 .. Len(din) - 1 : DepthFollows(p)

\* While the scan has met no error, what it keeps are the counts that the
\* three phases of ScanIsPhase1 take; once it has, one of them fails as well.
ScanCounts ==
    phase = "scan" =>
        IF error = "none"
        THEN /\ OpenAt(pos - 1) = Len(loopOffsets)
             /\ CountOf({"TARGET"}, pos - 1) = Len(targets)
             /\ \A k \in 1 .. pos - 1 :
                   /\ code[k].op # "BAD"
                   /\ code[k].op \in {"NEXT", "LIDX", "LVAL"} => OpenAt(k - 1) > 0
             /\ \A j \in 1 .. Len(jumpRefs) : \E k \in 1 .. pos - 1 :
                   code[k].op \in JumpOps /\ code[k].imm = jumpRefs[j]
        ELSE /\ error \in Phase1Errors
             /\ ~StructuralPhase \/ ~LoopNestingPhase

WalkInv == ScanInv /\ TypesInv /\ DepthInv /\ PhasesAgree
CountInv == ScanCounts /\ ScanIsPhase1
==========================================================================
