------------------------- MODULE VerifiedRunProofs -------------------------
(***************************************************************************)
(* The verifier for every code it may be given: types, what the walks      *)
(* establish of the positions behind them, the agreement of the scan with  *)
(* the three phases it stands in for, and of the depth pass's loop stack   *)
(* with the scan's.  Then what verification promises of a run, for every   *)
(* code, every calldata and every host: the inductive invariant of         *)
(* VerifiedRun is preserved by the walks of the verifier, by every         *)
(* instruction the VM executes or skips, and by the host.                  *)
(***************************************************************************)
EXTENDS VerifiedRun, XqVmProofs, FiniteSetTheorems

--------------------------------------------------------------------------
(* The verifier.                                                          *)

LEMMA PoppedSeq ==
    ASSUME NEW S, NEW s \in Seq(S), s # <<>>
    PROVE  /\ Len(s) \in Nat \ {0} /\ s[Len(s)] \in S
           /\ Popped(s) \in Seq(S) /\ Len(Popped(s)) = Len(s) - 1
           /\ \A i \in 1 .. Len(s) - 1 : Popped(s)[i] = s[i]
<1>1. Len(s) \in Nat /\ Len(s) # 0
  BY LenProperties, EmptySeq
<1>2. \A i \in 1 .. Len(s) : s[i] \in S
  BY ElementOfSeq
<1>3. /\ SubSeq(s, 1, Len(s) - 1) \in Seq(S)
      /\ Len(SubSeq(s, 1, Len(s) - 1)) = IF 1 <= Len(s) - 1 THEN Len(s) - 1 - 1 + 1 ELSE 0
      /\ \A i \in 1 .. Len(s) - 1 - 1 + 1 : SubSeq(s, 1, Len(s) - 1)[i] = s[1 + i - 1]
  BY <1>1, <1>2, SubSeqProperties
<1>4. Len(s) \in Nat \ {0} /\ s[Len(s)] \in S
  BY <1>1, <1>2
<1>5. Popped(s) \in Seq(S) /\ Len(Popped(s)) = Len(s) - 1
  <2>1. CASE Len(s) = 1
    <3>1. Popped(s) = <<>>
      BY <2>1, SubSeqEmpty DEF Popped
    <3> QED BY <2>1, <3>1, EmptySeq
  <2>2. CASE Len(s) # 1
    <3> DEFINE n == Len(s)
    <3>1. n \in Nat /\ n # 0 /\ n # 1
      BY <1>1, <2>2
    <3> HIDE DEF n
    <3>2. 1 <= n - 1 /\ n - 1 - 1 + 1 = n - 1
      BY <3>1
    <3> QED BY <1>3, <3>2, Zenon DEF n, Popped
  <2> QED BY <2>1, <2>2
<1>6. ASSUME NEW i \in 1 .. Len(s) - 1 PROVE Popped(s)[i] = s[i]
  <2>1. i \in 1 .. Len(s) - 1 - 1 + 1 /\ 1 + i - 1 = i
    BY <1>1
  <2> QED BY <1>3, <2>1 DEF Popped
<1> QED BY <1>4, <1>5, <1>6

LEMMA Appended ==
    ASSUME NEW S, NEW s \in Seq(S), NEW e \in S
    PROVE  /\ Append(s, e) \in Seq(S) /\ Len(s) \in Nat
           /\ Len(Append(s, e)) = Len(s) + 1 /\ Append(s, e)[Len(s) + 1] = e
           /\ \A i \in 1 .. Len(s) : Append(s, e)[i] = s[i]
BY AppendProperties, LenProperties

LEMMA DeltaRange == ASSUME NEW op PROVE StackDelta(op) \in Int
<1>1. StackDelta(op) \in {-3, -2, -1, 0, 1}
  BY DEF StackDelta
<1> QED BY <1>1

--------------------------------------------------------------------------
(* Types.                                                                 *)

LEMMA InstrOK ==
    ASSUME VerifierTypeOK, pos <= Len(code)
    PROVE  /\ pos \in 1 .. Len(code) /\ Len(code) \in Nat
           /\ Instr \in Instruction /\ Instr = code[pos]
           /\ pos + 1 \in 1 .. Len(code) + 1
<1>1. code \in Seq(Instruction) /\ Len(code) \in Nat
  BY LenProperties DEF VerifierTypeOK
<1>2. pos \in 1 .. Len(code) /\ pos + 1 \in 1 .. Len(code) + 1
  BY <1>1 DEF VerifierTypeOK
<1> QED BY <1>1, <1>2, ElementOfSeq DEF Instr

LEMMA WritesOK ==
    ASSUME NEW t \in [Reg -> RegTypes], NEW i \in Instruction
    PROVE  Writes(t, i) \in RegTypes
<1>1. t[i.r1] \in RegTypes
  BY DEF Instruction
<1> QED BY <1>1, Zenon DEF Writes, RegTypes

LEMMA ScanInstrTypes == ASSUME VerifierTypeOK, ScanInstr PROVE VerifierTypeOK'
<1> USE DEF VerifierTypeOK
<1>1. /\ pos \in 1 .. Len(code) /\ Instr \in Instruction
      /\ UNCHANGED <<code, phase, types, tin, depth, entries, din>>
      /\ pos' = pos + 1 /\ pos' \in 1 .. Len(code) + 1
  BY InstrOK DEF ScanInstr, Walking, typeVars, depthVars
<1>2. targets' \in Seq(1 .. Len(code))
  BY <1>1, Appended DEF ScanInstr
<1>3. jumpRefs' \in Seq(Int)
  <2>1. Instr.imm \in Int
    BY <1>1 DEF Instruction
  <2> QED BY <1>1, <2>1, Appended DEF ScanInstr
<1>4. loopOffsets' \in Seq(1 .. Len(code))
  <2>1. \/ loopOffsets' = Append(loopOffsets, pos)
        \/ loopOffsets # <<>> /\ loopOffsets' = Popped(loopOffsets)
        \/ loopOffsets' = loopOffsets
    BY Zenon DEF ScanInstr
  <2>2. Append(loopOffsets, pos) \in Seq(1 .. Len(code))
    BY <1>1, Appended
  <2>3. loopOffsets # <<>> => Popped(loopOffsets) \in Seq(1 .. Len(code))
    BY PoppedSeq
  <2> QED BY <2>1, <2>2, <2>3
<1>5. lin' \in Seq(Seq(1 .. Len(code)))
  BY <1>4, Appended DEF ScanInstr
<1>6. error' \in VerifierErrors \cup {"none"}
  BY DEF ScanInstr, VerifierErrors, Phase1Errors
<1> QED BY <1>1, <1>2, <1>3, <1>4, <1>5, <1>6

LEMMA CheckTypesTypes == ASSUME VerifierTypeOK, CheckTypes PROVE VerifierTypeOK'
<1> USE DEF VerifierTypeOK
<1>1. /\ pos \in 1 .. Len(code) /\ Instr \in Instruction
      /\ UNCHANGED <<code, phase, error, scanVars, depthVars>>
      /\ pos' = pos + 1 /\ pos' \in 1 .. Len(code) + 1
  BY InstrOK DEF CheckTypes, Walking, Onwards
<1>2. types' \in [Reg -> RegTypes]
  <2>1. Writes(types, Instr) \in RegTypes
    BY <1>1, WritesOK
  <2> QED BY <2>1 DEF CheckTypes
<1>3. tin' \in Seq([Reg -> RegTypes])
  BY <1>2, Appended DEF CheckTypes
<1> QED BY <1>1, <1>2, <1>3 DEF scanVars, depthVars

LEMMA CheckDepthTypes == ASSUME VerifierTypeOK, CheckDepth PROVE VerifierTypeOK'
<1> USE DEF VerifierTypeOK
<1>1. /\ pos \in 1 .. Len(code)
      /\ UNCHANGED <<code, phase, error, scanVars, typeVars>>
      /\ pos' = pos + 1 /\ pos' \in 1 .. Len(code) + 1
  BY InstrOK DEF CheckDepth, Walking, Onwards
<1>2. depth' = DepthAfterInstr /\ depth' \in 0 .. DepthLimit
  <2>1. ~(DepthAfterInstr < 0) /\ ~(DepthAfterInstr > DepthLimit)
    BY DEF CheckDepth, DepthVerdict
  <2>2. DepthAfterInstr \in Int
    <3>1. depth \in Int
      BY VerifierAssumption
    <3>2. StackDelta(Instr.op) \in Int
      BY DeltaRange
    <3> QED BY <3>1, <3>2 DEF DepthAfterInstr
  <2>3. depth' = DepthAfterInstr
    BY DEF CheckDepth
  <2>4. DepthAfterInstr \in 0 .. DepthLimit
    BY ONLY <2>1, <2>2, VerifierAssumption
  <2> QED BY ONLY <2>3, <2>4
<1>3. entries' \in Seq([opener : 1 .. Len(code), depth : 0 .. DepthLimit])
  <2>1. \/ entries' = Append(entries, [opener |-> pos, depth |-> DepthAfterInstr])
        \/ entries # <<>> /\ entries' = Popped(entries)
        \/ entries' = entries
    BY Zenon DEF CheckDepth, EntriesAfter
  <2>2. Append(entries, [opener |-> pos, depth |-> DepthAfterInstr])
           \in Seq([opener : 1 .. Len(code), depth : 0 .. DepthLimit])
    BY <1>1, <1>2, Appended
  <2>3. entries # <<>> =>
           Popped(entries) \in Seq([opener : 1 .. Len(code), depth : 0 .. DepthLimit])
    BY PoppedSeq
  <2> QED BY <2>1, <2>2, <2>3
<1>4. din' \in Seq(0 .. DepthLimit)
  BY <1>2, Appended DEF CheckDepth
<1> QED BY <1>1, <1>2, <1>3, <1>4 DEF scanVars, typeVars

LEMMA TurnTypes ==
    ASSUME VerifierTypeOK,
           ScanBad \/ ScanEnd \/ RejectTypes \/ TypesEnd \/ RejectDepth \/ Accept
    PROVE  VerifierTypeOK'
<1> USE DEF VerifierTypeOK
<1>1. code \in Seq(Instruction) /\ Len(code) \in Nat
  BY LenProperties
<1>2. CASE ScanBad
  BY <1>1, <1>2 DEF ScanBad, scanVars, typeVars, depthVars, VerifierErrors, Phase1Errors
<1>3. CASE ScanEnd
  <2>1. ScanVerdict # "none" => ScanVerdict \in VerifierErrors
    BY DEF ScanVerdict, VerifierErrors, Phase1Errors
  <2>2. /\ UNCHANGED <<code, scanVars, typeVars, depthVars>>
        /\ pos' \in {1, pos} /\ phase' \in {"types", "rejected"}
        /\ error' \in VerifierErrors \cup {"none"}
    BY <1>3, <2>1 DEF ScanEnd, Enter, Reject
  <2> QED BY <1>1, <2>2 DEF scanVars, typeVars, depthVars
<1>4. CASE RejectTypes
  <2>1. /\ phase' = "rejected" /\ error' \in VerifierErrors
        /\ UNCHANGED <<code, pos, scanVars, typeVars, depthVars>>
    BY <1>4 DEF RejectTypes, Reject, VerifierErrors
  <2> QED BY <2>1 DEF scanVars, typeVars, depthVars
<1>5. CASE TypesEnd \/ Accept
  <2>1. /\ UNCHANGED <<code, error, scanVars, typeVars, depthVars>>
        /\ pos' = 1 /\ phase' \in {"depth", "accepted"}
    BY <1>5 DEF TypesEnd, Accept, Enter
  <2> QED BY <1>1, <2>1 DEF scanVars, typeVars, depthVars
<1>6. CASE RejectDepth
  <2>1. DepthVerdict(DepthAfterInstr) # "none"
           => DepthVerdict(DepthAfterInstr) \in VerifierErrors
    BY DEF DepthVerdict, VerifierErrors
  <2> QED BY <1>6, <2>1 DEF RejectDepth, Reject, scanVars, typeVars, depthVars
<1> QED BY <1>2, <1>3, <1>4, <1>5, <1>6

LEMMA VerifierStepTypes ==
    ASSUME VerifierTypeOK, VerifierStep PROVE VerifierTypeOK'
BY ScanInstrTypes, CheckTypesTypes, CheckDepthTypes, TurnTypes DEF VerifierStep

LEMMA VerifierInitTypes == ASSUME VerifierInit PROVE VerifierTypeOK
<1> USE DEF VerifierInit
<1>1. code \in Seq(Instruction) /\ Len(code) \in Nat
  BY VerifierAssumption, LenProperties
<1>2. types \in [Reg -> RegTypes] /\ depth \in 0 .. DepthLimit
  BY VerifierAssumption DEF RegTypes
<1>3. /\ <<>> \in Seq(1 .. Len(code)) /\ <<>> \in Seq(Int)
      /\ <<>> \in Seq([opener : 1 .. Len(code), depth : 0 .. DepthLimit])
  BY EmptySeq
<1>4. /\ lin \in Seq(Seq(1 .. Len(code))) /\ tin \in Seq([Reg -> RegTypes])
      /\ din \in Seq(0 .. DepthLimit)
  BY <1>2, <1>3
<1> QED BY <1>1, <1>2, <1>3, <1>4 DEF VerifierTypeOK

--------------------------------------------------------------------------
(* What the walks establish of the positions behind them.                 *)

LEMMA CodeLen ==
    ASSUME VerifierTypeOK
    PROVE  /\ Len(code) \in Nat /\ pos \in Nat /\ pos >= 1 /\ pos <= Len(code) + 1
           /\ Len(lin) \in Nat /\ Len(tin) \in Nat /\ Len(din) \in Nat
           /\ Len(entries) \in Nat /\ Len(loopOffsets) \in Nat
           /\ Len(jumpRefs) \in Nat /\ Len(targets) \in Nat
<1>1. Len(code) \in Nat
  BY LenProperties DEF VerifierTypeOK
<1>2. pos \in Nat /\ pos >= 1 /\ pos <= Len(code) + 1
  BY <1>1 DEF VerifierTypeOK
<1> QED BY <1>1, <1>2, LenProperties DEF VerifierTypeOK

LEMMA InitWalk == ASSUME VerifierInit PROVE WalkInv
<1> USE DEF VerifierInit
<1>1. /\ Len(lin) = 1 /\ lin[1] = <<>> /\ Len(<<>>) = 0
      /\ Len(tin) = 1 /\ tin[1] = types /\ Len(din) = 1 /\ din[1] = 0
  OBVIOUS
<1>2. ScanInv
  BY <1>1 DEF ScanInv, LoopsNest
<1>3. TypesInv /\ DepthInv
  BY <1>1 DEF TypesInv, DepthInv
<1>4. PhasesAgree
  BY DEF PhasesAgree
<1> QED BY <1>2, <1>3, <1>4 DEF WalkInv

\* The history of the scan grows by the loops now open.
LEMMA LinGrows ==
    ASSUME VerifierTypeOK, ScanInstr
    PROVE  /\ pos \in 1 .. Len(code) /\ lin' = Append(lin, loopOffsets')
           /\ Len(lin) \in Nat /\ Len(lin') = Len(lin) + 1
           /\ lin'[Len(lin) + 1] = loopOffsets'
           /\ \A p \in 1 .. Len(lin) : lin'[p] = lin[p]
           /\ \A p \in 1 .. Len(lin) : lin[p] \in Seq(1 .. Len(code))
           /\ \A p \in 1 .. Len(lin) : Len(lin[p]) \in Nat
<1>1. pos \in 1 .. Len(code) /\ code' = code
  BY InstrOK DEF ScanInstr, Walking
<1>2. loopOffsets' \in Seq(1 .. Len(code))
  BY <1>1, ScanInstrTypes DEF VerifierTypeOK
<1>3. lin \in Seq(Seq(1 .. Len(code)))
  BY DEF VerifierTypeOK
<1>4. \A p \in 1 .. Len(lin) : lin[p] \in Seq(1 .. Len(code))
  BY <1>3, ElementOfSeq
<1>5. \A p \in 1 .. Len(lin) : Len(lin[p]) \in Nat
  BY <1>4, LenProperties
<1>6. lin' = Append(lin, loopOffsets')
  BY DEF ScanInstr
<1> QED BY <1>1, <1>2, <1>3, <1>4, <1>5, <1>6, Appended

\* One more label is one more.
LEMMA RefsGrow ==
    ASSUME VerifierTypeOK, ScanInstr
    PROVE  /\ \A j \in 1 .. Len(jumpRefs) : \E k \in 1 .. Len(jumpRefs') :
                 jumpRefs'[k] = jumpRefs[j]
           /\ Instr.op \in JumpOps =>
                 \E k \in 1 .. Len(jumpRefs') : jumpRefs'[k] = Instr.imm
           /\ \A k \in 1 .. Len(jumpRefs') :
                 \/ k \in 1 .. Len(jumpRefs) /\ jumpRefs'[k] = jumpRefs[k]
                 \/ Instr.op \in JumpOps /\ jumpRefs'[k] = Instr.imm
<1>1. Instr.imm \in Int /\ jumpRefs \in Seq(Int)
  BY InstrOK DEF ScanInstr, Walking, Instruction, VerifierTypeOK
<1>2. CASE Instr.op \in JumpOps
  <2>1. /\ Len(jumpRefs) \in Nat /\ Len(jumpRefs') = Len(jumpRefs) + 1
        /\ jumpRefs'[Len(jumpRefs) + 1] = Instr.imm
        /\ \A i \in 1 .. Len(jumpRefs) : jumpRefs'[i] = jumpRefs[i]
    BY <1>1, <1>2, Appended DEF ScanInstr
  <2> HIDE <1>1
  <2> QED BY <1>2, <2>1
<1>3. CASE Instr.op \notin JumpOps
  BY <1>3 DEF ScanInstr
<1> QED BY <1>2, <1>3

\* Unless it meets an error, the scan keeps what it established.
LEMMA ScanFollowsOn ==
    ASSUME VerifierTypeOK, ScanInv, ScanInstr, error' = "none"
    PROVE  /\ \A p \in 1 .. Len(lin') - 1 : ScanFollows(p)'
           /\ Len(lin) = pos /\ lin[pos] = loopOffsets
<1>1. /\ error = "none" /\ phase = "scan" /\ code' = code
      /\ Len(lin) = pos /\ lin[pos] = loopOffsets /\ pos \in 1 .. Len(code)
      /\ Instr.op \in {"NEXT", "LIDX", "LVAL"} => loopOffsets # <<>>
  BY LinGrows DEF ScanInv, ScanInstr, Walking
<1>2. ASSUME NEW p \in 1 .. Len(lin) - 1 PROVE ScanFollows(p)'
  <2>1. ScanFollows(p) /\ lin'[p] = lin[p] /\ lin'[p + 1] = lin[p + 1]
    <3>1. ScanFollows(p)
      BY <1>1, <1>2 DEF ScanInv
    <3>2. PICK n \in Nat : n = Len(lin)
      BY LinGrows
    <3>3. p \in 1 .. n /\ p + 1 \in 1 .. n
      BY <3>2
    <3>4. \A q \in 1 .. n : lin'[q] = lin[q]
      BY <3>2, LinGrows
    <3> QED BY <3>1, <3>3, <3>4
  <2>2. code[p].op \in JumpOps =>
           \E k \in 1 .. Len(jumpRefs') : jumpRefs'[k] = code[p].imm
    BY <2>1, RefsGrow DEF ScanFollows
  <2> QED BY <1>1, <2>1, <2>2 DEF ScanFollows
<1>3. ASSUME NEW p, p = pos PROVE ScanFollows(p)'
  <2>1. lin'[p] = loopOffsets /\ lin'[p + 1] = loopOffsets' /\ code[p] = Instr
    BY <1>1, <1>3, LinGrows DEF Instr
  <2>2. loopOffsets' = IF Instr.op \in LoopOpeners THEN Append(loopOffsets, pos)
                       ELSE IF Instr.op = "NEXT" THEN Popped(loopOffsets)
                       ELSE loopOffsets
    BY <1>1 DEF ScanInstr
  <2>3. Instr.op # "BAD"
    BY DEF ScanInstr
  <2>4. Instr.op \in JumpOps =>
           \E k \in 1 .. Len(jumpRefs') : jumpRefs'[k] = Instr.imm
    BY RefsGrow
  <2> QED BY <1>1, <1>3, <2>1, <2>2, <2>3, <2>4 DEF ScanFollows, Popped
<1>4. Len(lin') - 1 = pos /\ pos \in Nat
  BY <1>1, LinGrows, CodeLen
<1>5. ASSUME NEW p \in 1 .. Len(lin') - 1 PROVE p \in 1 .. Len(lin) - 1 \/ p = pos
  BY <1>1, <1>4
<1> QED BY <1>1, <1>2, <1>3, <1>5

\* Of the loops open behind an instruction, all but one it opens were open
\* before it.
LEMMA LoopsBehind ==
    ASSUME VerifierTypeOK, ScanInstr, error' = "none",
           NEW k \in 1 .. Len(loopOffsets')
    PROVE  \/ /\ k \in 1 .. Len(loopOffsets)
              /\ \A j \in 1 .. k : loopOffsets'[j] = loopOffsets[j]
           \/ /\ k = Len(loopOffsets) + 1 /\ k = Len(loopOffsets')
              /\ loopOffsets'[k] = pos /\ Instr.op \in LoopOpeners
<1> DEFINE n == Len(loopOffsets)
<1>1. loopOffsets \in Seq(1 .. Len(code)) /\ n \in Nat /\ pos \in 1 .. Len(code)
  BY CodeLen, LinGrows DEF VerifierTypeOK
<1>2. CASE loopOffsets' = Append(loopOffsets, pos) /\ Instr.op \in LoopOpeners
  <2>1. /\ Len(loopOffsets') = n + 1 /\ loopOffsets'[n + 1] = pos
        /\ \A j \in 1 .. n : loopOffsets'[j] = loopOffsets[j]
    BY <1>1, <1>2, Appended
  <2> HIDE DEF n
  <2>2. k \in 1 .. n \/ k = n + 1
    BY <1>1, <2>1
  <2>3. k \in 1 .. n => \A j \in 1 .. k : j \in 1 .. n
    BY <1>1
  <2> QED BY <1>2, <2>1, <2>2, <2>3 DEF n
<1>3. CASE loopOffsets' = Popped(loopOffsets) /\ loopOffsets # <<>>
  <2>1. /\ Len(loopOffsets') = n - 1
        /\ \A j \in 1 .. n - 1 : loopOffsets'[j] = loopOffsets[j]
    BY <1>1, <1>3, PoppedSeq
  <2> HIDE DEF n
  <2>2. k \in 1 .. n /\ \A j \in 1 .. k : j \in 1 .. n - 1
    BY <1>1, <2>1
  <2> QED BY <2>1, <2>2 DEF n
<1>4. CASE loopOffsets' = loopOffsets
  BY <1>4
<1>5. \/ loopOffsets' = Append(loopOffsets, pos) /\ Instr.op \in LoopOpeners
      \/ loopOffsets' = Popped(loopOffsets) /\ loopOffsets # <<>>
      \/ loopOffsets' = loopOffsets
  BY Zenon DEF ScanInstr
<1> QED BY <1>2, <1>3, <1>4, <1>5

LEMMA ScanNests ==
    ASSUME VerifierTypeOK, ScanInv, ScanInstr, error' = "none"
    PROVE  \A p \in 1 .. Len(lin') : LoopsNest(p)'
<1>1. /\ error = "none" /\ phase = "scan" /\ code' = code
      /\ Len(lin) = pos /\ lin[pos] = loopOffsets /\ pos \in Nat /\ pos >= 1
      /\ Len(lin') = pos + 1 /\ lin'[pos + 1] = loopOffsets'
  BY LinGrows, CodeLen DEF ScanInv, ScanInstr, Walking
<1>2. \A p \in 1 .. pos : LoopsNest(p) /\ lin'[p] = lin[p] /\ lin[p] \in Seq(1 .. Len(code))
  BY <1>1, LinGrows DEF ScanInv
<1>3. ASSUME NEW p \in 1 .. pos, NEW k \in 1 .. Len(lin[p])
      PROVE  /\ lin[p][k] \in 1 .. p - 1 /\ code'[lin[p][k]].op \in LoopOpeners
             /\ lin'[lin[p][k] + 1] = lin[lin[p][k] + 1]
             /\ Len(lin[lin[p][k] + 1]) = k
             /\ \A j \in 1 .. k : lin[lin[p][k] + 1][j] = lin[p][j]
  <2> DEFINE o == lin[p][k]
  <2>1. o \in 1 .. Len(code)
    BY <1>2, ElementOfSeq
  <2>2. /\ o < p /\ code[o].op \in LoopOpeners /\ Len(lin[o + 1]) = k
        /\ \A j \in 1 .. k : lin[o + 1][j] = lin[p][j]
    BY <1>2 DEF LoopsNest
  <2> HIDE DEF o
  <2>3. o \in 1 .. p - 1 /\ o + 1 \in 1 .. pos
    <3>1. o \in Nat /\ o >= 1 /\ o < p /\ p <= pos /\ pos \in Nat /\ p \in Nat
      BY <1>1, <2>1, <2>2, CodeLen
    <3> QED BY ONLY <3>1
  <2> QED BY <1>1, <1>2, <2>2, <2>3 DEF o
<1>4. ASSUME NEW p \in 1 .. pos PROVE LoopsNest(p)'
  <2>1. ASSUME NEW k \in 1 .. Len(lin'[p])
        PROVE  LET o == lin'[p][k]
               IN  /\ o < p /\ code'[o].op \in LoopOpeners
                   /\ Len(lin'[o + 1]) = k
                   /\ \A j \in 1 .. k : lin'[o + 1][j] = lin'[p][j]
    <3>1. k \in 1 .. Len(lin[p]) /\ lin'[p] = lin[p]
      BY <1>2
    <3> DEFINE o == lin[p][k]
    <3>2. /\ o \in 1 .. p - 1 /\ code'[o].op \in LoopOpeners
          /\ lin'[o + 1] = lin[o + 1] /\ Len(lin[o + 1]) = k
          /\ \A j \in 1 .. k : lin[o + 1][j] = lin[p][j]
      BY <1>3, <3>1
    <3>3. o = lin'[p][k]
      BY <3>1
    <3> HIDE DEF o
    <3>4. o < p
      BY <3>2
    <3> QED BY <3>1, <3>2, <3>3, <3>4
  <2> QED BY <2>1 DEF LoopsNest
<1>5. ASSUME NEW p, p = pos + 1 PROVE LoopsNest(p)'
  <2>1. ASSUME NEW k \in 1 .. Len(lin'[p])
        PROVE  LET o == lin'[p][k]
               IN  /\ o < p /\ code'[o].op \in LoopOpeners
                   /\ Len(lin'[o + 1]) = k
                   /\ \A j \in 1 .. k : lin'[o + 1][j] = lin'[p][j]
    <3>1. lin'[p] = loopOffsets' /\ k \in 1 .. Len(loopOffsets')
      BY <1>1, <1>5
    <3>2. CASE /\ k \in 1 .. Len(loopOffsets)
               /\ \A j \in 1 .. k : loopOffsets'[j] = loopOffsets[j]
      <4>1. k \in 1 .. Len(lin[pos]) /\ pos \in 1 .. pos
        BY <1>1, <3>2
      <4>2. lin'[p][k] = lin[pos][k] /\ \A j \in 1 .. k : lin'[p][j] = lin[pos][j]
        BY <1>1, <3>1, <3>2
      <4> DEFINE o == lin[pos][k]
      <4>3. /\ o \in 1 .. pos - 1 /\ code'[o].op \in LoopOpeners
            /\ lin'[o + 1] = lin[o + 1] /\ Len(lin[o + 1]) = k
            /\ \A j \in 1 .. k : lin[o + 1][j] = lin[pos][j]
        BY <1>3, <4>1
      <4>4. lin'[p][k] = o
        BY <4>2
      <4> HIDE DEF o
      <4>5. o < p /\ o \in 1 .. pos - 1
        BY <1>1, <1>5, <4>3
      <4>6. /\ code'[o].op \in LoopOpeners /\ Len(lin'[o + 1]) = k
            /\ \A j \in 1 .. k : lin'[o + 1][j] = lin'[p][j]
        BY ONLY <4>2, <4>3
      <4> QED BY ONLY <4>4, <4>5, <4>6
    <3>3. CASE /\ k = Len(loopOffsets')
               /\ loopOffsets'[k] = pos /\ Instr.op \in LoopOpeners
      BY <1>1, <1>5, <3>1, <3>3 DEF Instr
    <3> QED BY <3>1, <3>2, <3>3, LoopsBehind
  <2> QED BY <2>1 DEF LoopsNest
<1>6. ASSUME NEW p \in 1 .. Len(lin') PROVE p \in 1 .. pos \/ p = pos + 1
  BY <1>1
<1> QED BY <1>4, <1>5, <1>6

LEMMA ScanInstrScan ==
    ASSUME VerifierTypeOK, ScanInv, ScanInstr PROVE ScanInv'
<1>1. /\ phase = "scan" /\ phase' = "scan" /\ Len(lin) >= 1 /\ lin[1] = <<>>
      /\ (error = "none" => Len(lin) = pos) /\ (error' = "none" => error = "none")
      /\ pos' = pos + 1
  BY DEF ScanInv, ScanInstr, Walking
<1>2. /\ Len(lin) \in Nat /\ Len(lin') = Len(lin) + 1
      /\ lin'[Len(lin')] = loopOffsets' /\ lin'[1] = lin[1]
  BY <1>1, LinGrows
<1>3. error' = "none" =>
         /\ \A p \in 1 .. Len(lin') - 1 : ScanFollows(p)'
         /\ \A p \in 1 .. Len(lin') : LoopsNest(p)'
  BY ScanFollowsOn, ScanNests
<1> QED BY <1>1, <1>2, <1>3 DEF ScanInv

\* What the scan established is about variables no other step changes.
LEMMA ScanKept ==
    ASSUME UNCHANGED <<code, scanVars>>
    PROVE  /\ \A p : ScanFollows(p)' = ScanFollows(p)
           /\ \A p : LoopsNest(p)' = LoopsNest(p)
BY DEF scanVars, ScanFollows, LoopsNest

LEMMA ScanTurns ==
    ASSUME VerifierTypeOK, ScanInv, VerifierStep, ~ScanInstr PROVE ScanInv'
<1>1. UNCHANGED <<code, scanVars>>
  BY DEF VerifierStep, ScanBad, ScanEnd, CheckTypes, RejectTypes, TypesEnd,
         CheckDepth, RejectDepth, Accept, Onwards, Reject, Enter
<1>2. /\ Len(lin') >= 1 /\ lin'[1] = <<>> /\ lin'[Len(lin')] = loopOffsets'
      /\ \A p : ScanFollows(p)' = ScanFollows(p)
      /\ \A p : LoopsNest(p)' = LoopsNest(p)
  BY <1>1, ScanKept DEF ScanInv, scanVars
<1>3. CASE ScanBad
  BY <1>2, <1>3 DEF ScanInv, ScanBad, Walking
<1>4. CASE ScanEnd
  <2>1. CASE ScanVerdict = "none"
    <3>1. /\ error = "none" /\ loopOffsets = <<>>
          /\ \A k \in 1 .. Len(jumpRefs) : ~(jumpRefs[k] >= Len(targets))
      BY <2>1, Zenon DEF ScanVerdict
    <3>2. \A k \in 1 .. Len(jumpRefs) : jumpRefs[k] < Len(targets)
      <4>1. \A k \in 1 .. Len(jumpRefs) : jumpRefs[k] \in Int
        BY ElementOfSeq DEF VerifierTypeOK
      <4> QED BY <3>1, <4>1, CodeLen
    <3>3. /\ phase = "scan" /\ phase' = "types" /\ error' = "none"
          /\ pos > Len(code)
      BY <1>4, <2>1, <3>1 DEF ScanEnd, WalkOver, Enter
    <3>4. Len(lin) = Len(code) + 1
      BY <3>1, <3>3, CodeLen DEF ScanInv
    <3> QED BY <1>1, <1>2, <3>1, <3>2, <3>3, <3>4 DEF ScanInv, scanVars
  <2>2. CASE ScanVerdict # "none"
    BY <1>2, <1>4, <2>2 DEF ScanInv, ScanEnd, Reject
  <2> QED BY <2>1, <2>2
<1>5. CASE RejectTypes \/ RejectDepth
  BY <1>2, <1>5 DEF ScanInv, RejectTypes, RejectDepth, Reject
<1>6. CASE CheckTypes \/ TypesEnd \/ CheckDepth \/ Accept
  <2>1. /\ phase \in {"types", "depth", "accepted"} /\ error' = error
        /\ phase' \in {"types", "depth", "accepted"}
    BY <1>6 DEF CheckTypes, TypesEnd, CheckDepth, Accept, Onwards, Enter,
                Walking, WalkOver
  <2> QED BY <1>1, <1>2, <2>1 DEF ScanInv, scanVars
<1> QED BY <1>3, <1>4, <1>5, <1>6 DEF VerifierStep

\* The phases of the chain follow each other.
LEMMA VerifierPhases ==
    ASSUME VerifierStep
    PROVE  /\ phase' = "scan" => phase = "scan" /\ (ScanBad \/ ScanInstr)
           /\ phase' = "types" => CheckTypes \/ (phase = "scan" /\ ScanEnd /\ pos' = 1)
           /\ phase' = "depth" =>
                 \/ phase = "depth" /\ CheckDepth
                 \/ phase = "types" /\ pos > Len(code) /\ TypesEnd /\ pos' = 1
           /\ phase' = "accepted" => phase = "depth" /\ pos > Len(code) /\ Accept
<1>1. CASE ScanBad \/ ScanInstr
  BY <1>1 DEF ScanBad, ScanInstr, Walking
<1>2. CASE ScanEnd
  BY <1>2 DEF ScanEnd, WalkOver, Enter, Reject
<1>3. CASE CheckTypes
  BY <1>3 DEF CheckTypes, Walking, Onwards
<1>4. CASE RejectTypes \/ RejectDepth
  BY <1>4 DEF RejectTypes, RejectDepth, Reject
<1>5. CASE TypesEnd \/ Accept
  BY <1>5 DEF TypesEnd, Accept, WalkOver, Enter
<1>6. CASE CheckDepth
  BY <1>6 DEF CheckDepth, Walking, Onwards
<1> QED BY <1>1, <1>2, <1>3, <1>4, <1>5, <1>6 DEF VerifierStep

\* A type pass follows the writes.
LEMMA TypesStep ==
    ASSUME VerifierTypeOK, TypesInv, VerifierStep PROVE TypesInv'
<1> USE DEF VerifierTypeOK
<1>1. CASE CheckTypes
  <2>1. /\ phase = "types" /\ phase' = "types" /\ code' = code /\ pos' = pos + 1
        /\ Len(tin) = pos /\ types = tin[pos] /\ tin[1] = [r \in Reg |-> "Unset"]
        /\ pos \in Nat /\ pos >= 1
    BY <1>1, CodeLen DEF CheckTypes, Walking, Onwards, TypesInv
  <2>2. types' \in [Reg -> RegTypes]
    BY <1>1, CheckTypesTypes
  <2>3. /\ Len(tin') = pos + 1 /\ tin'[pos + 1] = types'
        /\ \A i \in 1 .. pos : tin'[i] = tin[i]
    BY <1>1, <2>1, <2>2, Appended DEF CheckTypes
  <2>4. ASSUME NEW p \in 1 .. Len(tin') - 1 PROVE TypesFollow(p)'
    <3>1. CASE p = pos
      <4>1. types' = [types EXCEPT ![code[p].r1] = Writes(types, code[p])]
        BY <1>1, <3>1 DEF CheckTypes, Instr
      <4>2. TypesFollow(p)' <=>
               tin'[p + 1] = [tin'[p] EXCEPT ![code'[p].r1] = Writes(tin'[p], code'[p])]
        BY DEF TypesFollow
      <4>3. tin'[p] = types /\ tin'[p + 1] = types' /\ code' = code
        BY <2>1, <2>3, <3>1
      <4> QED BY <4>1, <4>2, <4>3
    <3>2. CASE p # pos
      <4>1. p \in 1 .. pos - 1 /\ p \in 1 .. pos /\ p + 1 \in 1 .. pos
        BY <2>1, <2>3, <3>2
      <4>2. TypesFollow(p)
        BY <2>1, <4>1 DEF TypesInv
      <4> QED BY <2>1, <2>3, <4>1, <4>2 DEF TypesFollow, Writes
    <3> QED BY <3>1, <3>2
  <2>5. /\ Len(tin') >= 1 /\ tin'[1] = [r \in Reg |-> "Unset"]
        /\ Len(tin') = pos' /\ types' = tin'[pos'] /\ phase' = "types"
    <3>1. tin'[1] = tin[1] /\ tin'[pos'] = types'
      BY <2>1, <2>3
    <3> QED BY <2>1, <2>3, <3>1
  <2> QED BY ONLY <2>4, <2>5 DEF TypesInv
<1>2. CASE ~CheckTypes
  <2>1. /\ UNCHANGED <<code, types, tin>>
        /\ phase' = phase \/ phase' \in {"rejected", "types", "depth", "accepted"}
    BY <1>2 DEF VerifierStep, ScanBad, ScanInstr, ScanEnd, RejectTypes, TypesEnd,
         CheckDepth, RejectDepth, Accept, Onwards, Reject, Enter, typeVars
  <2>2. \A p \in 1 .. Len(tin') - 1 : TypesFollow(p)'
    <3>1. \A p : TypesFollow(p)' <=> TypesFollow(p)
      BY <2>1 DEF TypesFollow
    <3> QED BY <2>1, <3>1 DEF TypesInv
  <2>3. /\ phase' = "scan" => phase = "scan"
        /\ phase' = "types" => phase = "scan" /\ pos' = 1
        /\ phase' = "depth" => phase = "depth" \/ (phase = "types" /\ pos > Len(code))
        /\ phase' = "accepted" => phase = "depth"
    BY <1>2, VerifierPhases
  <2>4. phase = "types" /\ pos > Len(code) => Len(tin) = Len(code) + 1
    BY CodeLen DEF TypesInv
  <2> QED BY <2>1, <2>2, <2>3, <2>4 DEF TypesInv
<1> QED BY <1>1, <1>2

\* The scan's history while a later pass walks.
LEMMA LinWalked ==
    ASSUME VerifierTypeOK, ScanInv, phase \in {"types", "depth", "accepted"}
    PROVE  /\ Len(lin) = Len(code) + 1 /\ lin[1] = <<>>
           /\ \A p \in 1 .. Len(code) + 1 :
                 /\ lin[p] \in Seq(1 .. Len(code)) /\ Len(lin[p]) \in Nat
                 /\ (lin[p] # <<>> => Len(lin[p]) >= 1)
                 /\ LoopsNest(p)
           /\ \A p \in 1 .. Len(code) : ScanFollows(p)
           /\ \A p \in 1 .. Len(code) + 1 : \A k \in 1 .. Len(lin[p]) :
                 lin[p][k] \in 1 .. p - 1
<1>1. /\ Len(lin) = Len(code) + 1 /\ lin[1] = <<>> /\ Len(lin) - 1 = Len(code)
      /\ \A p \in 1 .. Len(lin) - 1 : ScanFollows(p)
      /\ \A p \in 1 .. Len(lin) : LoopsNest(p)
  BY CodeLen DEF ScanInv
<1>2. \A p \in 1 .. Len(code) + 1 : lin[p] \in Seq(1 .. Len(code))
  BY <1>1, ElementOfSeq DEF VerifierTypeOK
<1>3. \A p \in 1 .. Len(code) + 1 : Len(lin[p]) \in Nat
  BY <1>2, LenProperties
<1>4. ASSUME NEW p \in 1 .. Len(code) + 1, lin[p] # <<>> PROVE Len(lin[p]) >= 1
  <2>1. Len(lin[p]) \in Nat \ {0}
    BY <1>2, <1>4, PoppedSeq
  <2> DEFINE n == Len(lin[p])
  <2>2. n \in Nat \ {0}
    BY <2>1
  <2> HIDE DEF n
  <2>3. n >= 1
    BY <2>2
  <2> QED BY <2>3 DEF n
<1>5. ASSUME NEW p \in 1 .. Len(code) + 1, NEW k \in 1 .. Len(lin[p])
      PROVE  lin[p][k] \in 1 .. p - 1
  <2>1. lin[p][k] \in 1 .. Len(code)
    BY <1>2, ElementOfSeq
  <2>2. lin[p][k] < p
    BY <1>1 DEF LoopsNest
  <2> DEFINE o == lin[p][k]
  <2>3. o \in 1 .. Len(code) /\ o < p /\ p \in Nat
    BY <2>1, <2>2, CodeLen
  <2> HIDE DEF o
  <2>4. o \in 1 .. p - 1
    BY <2>3, CodeLen
  <2> QED BY <2>4 DEF o
<1> QED BY <1>1, <1>2, <1>3, <1>4, <1>5

\* The depth pass takes in its loop stack the step the scan took.
LEMMA EntriesBehind ==
    ASSUME VerifierTypeOK, ScanInv, PhasesAgree, CheckDepth
    PROVE  /\ Len(entries') = Len(lin[pos + 1])
           /\ \A k \in 1 .. Len(entries') :
                 \/ /\ k \in 1 .. Len(entries) /\ entries'[k] = entries[k]
                    /\ lin[pos + 1][k] = lin[pos][k]
                 \/ /\ entries'[k] = [opener |-> pos, depth |-> depth']
                    /\ lin[pos + 1][k] = pos
<1> DEFINE E == [opener : 1 .. Len(code), depth : 0 .. DepthLimit]
           s == lin[pos]
           n == Len(entries)
<1>1. /\ phase = "depth" /\ pos \in 1 .. Len(code) /\ Instr = code[pos]
      /\ pos \in 1 .. Len(code) + 1
  BY InstrOK DEF CheckDepth, Walking
<1>2. /\ s \in Seq(1 .. Len(code)) /\ ScanFollows(pos) /\ n = Len(s) /\ n \in Nat
      /\ entries \in Seq(E)
  BY <1>1, LinWalked DEF PhasesAgree, VerifierTypeOK
<1>3. entries' = EntriesAfter(depth') /\ depth' \in 0 .. DepthLimit
  BY CheckDepthTypes DEF CheckDepth, VerifierTypeOK
<1>4. CASE Instr.op \in LoopOpeners
  <2>1. entries' = Append(entries, [opener |-> pos, depth |-> depth'])
    BY <1>3, <1>4 DEF EntriesAfter
  <2>2. lin[pos + 1] = Append(s, pos)
    BY <1>1, <1>2, <1>4 DEF ScanFollows
  <2>3. /\ Len(entries') = n + 1
        /\ entries'[n + 1] = [opener |-> pos, depth |-> depth']
        /\ \A i \in 1 .. n : entries'[i] = entries[i]
    <3>1. [opener |-> pos, depth |-> depth'] \in E
      BY <1>1, <1>3
    <3> HIDE DEF E
    <3> QED BY <1>2, <2>1, <3>1, Appended
  <2>4. /\ Len(lin[pos + 1]) = n + 1 /\ lin[pos + 1][n + 1] = pos
        /\ \A i \in 1 .. n : lin[pos + 1][i] = s[i]
    BY <1>1, <1>2, <2>2, Appended
  <2> HIDE DEF n, s, E
  <2>5. \A k \in 1 .. n + 1 : k \in 1 .. n \/ k = n + 1
    BY <1>2
  <2> QED BY <2>3, <2>4, <2>5 DEF n, s
<1>5. CASE Instr.op = "NEXT"
  <2>1. s # <<>> /\ Instr.op \notin LoopOpeners
    BY <1>1, <1>2, <1>5 DEF ScanFollows, LoopOpeners
  <2>2. entries # <<>>
    BY <1>2, <2>1, EmptySeq
  <2>3. entries' = Popped(entries)
    BY <1>3, <1>5, <2>1, <2>2 DEF EntriesAfter
  <2>4. lin[pos + 1] = Popped(s)
    BY <1>1, <1>2, <1>5, <2>1 DEF ScanFollows
  <2>8. n = Len(entries)
    OBVIOUS
  <2> HIDE DEF n, s, E
  <2>5. /\ Len(entries') = n - 1 /\ \A i \in 1 .. n - 1 : entries'[i] = entries[i]
    BY <1>2, <2>2, <2>3, <2>8, PoppedSeq
  <2>6. /\ Len(lin[pos + 1]) = n - 1 /\ \A i \in 1 .. n - 1 : lin[pos + 1][i] = s[i]
    BY <1>2, <2>1, <2>4, PoppedSeq
  <2>7. \A k \in 1 .. n - 1 : k \in 1 .. n
    BY <1>2
  <2> QED BY <2>5, <2>6, <2>7 DEF n, s
<1>6. CASE Instr.op \notin LoopOpeners /\ Instr.op # "NEXT"
  <2>1. entries' = entries
    BY <1>3, <1>6 DEF EntriesAfter
  <2>2. lin[pos + 1] = s
    BY <1>1, <1>2, <1>6 DEF ScanFollows
  <2> QED BY <1>2, <2>1, <2>2
<1> QED BY <1>4, <1>5, <1>6

\* The depth pass follows the effects, and finds at a NEXT the depth it noted
\* at the opener of the loop.
LEMMA CheckDepthStep ==
    ASSUME VerifierTypeOK, ScanInv, DepthInv, PhasesAgree, CheckDepth
    PROVE  DepthInv' /\ PhasesAgree'
<1>1. /\ phase = "depth" /\ pos \in 1 .. Len(code) /\ Instr = code[pos]
      /\ pos \in 1 .. Len(code) + 1 /\ pos \in Nat /\ phase' = phase
      /\ UNCHANGED <<code, lin>> /\ pos' = pos + 1 /\ pos >= 1
  BY InstrOK, CodeLen DEF CheckDepth, Walking, Onwards, scanVars
<1>2. /\ Len(din) = pos /\ depth = din[pos] /\ din[1] = 0
      /\ \A p \in 1 .. pos - 1 : DepthFollows(p)
  BY <1>1 DEF DepthInv
<1>3. depth' = DepthAfterInstr /\ depth' \in 0 .. DepthLimit
  BY CheckDepthTypes DEF CheckDepth, VerifierTypeOK
<1>4. /\ Len(din') = pos + 1 /\ din'[pos + 1] = depth'
      /\ \A i \in 1 .. pos : din'[i] = din[i]
  <2>1. din \in Seq(0 .. DepthLimit) /\ din' = Append(din, depth')
    BY DEF VerifierTypeOK, CheckDepth
  <2> QED BY <1>2, <1>3, <2>1, Appended
<1>5. \A p \in 1 .. pos : \A k \in 1 .. Len(lin[p]) :
         lin[p][k] + 1 \in 1 .. pos /\ din'[lin[p][k] + 1] = din[lin[p][k] + 1]
  <2>1. ASSUME NEW p \in 1 .. pos, NEW k \in 1 .. Len(lin[p])
        PROVE lin[p][k] + 1 \in 1 .. pos
    <3>1. p \in 1 .. Len(code) + 1
      BY <1>1, CodeLen
    <3>2. lin[p][k] \in 1 .. p - 1
      BY <1>1, <3>1, LinWalked
    <3> QED BY <1>1, <3>2
  <2> QED BY <1>4, <2>1
<1>6. \A p \in 1 .. pos : code[p].op = "NEXT" =>
         lin[p] # <<>> /\ Len(lin[p]) \in 1 .. Len(lin[p])
  <2>1. ASSUME NEW p \in 1 .. pos, code[p].op = "NEXT"
        PROVE  lin[p] # <<>> /\ Len(lin[p]) \in 1 .. Len(lin[p])
    <3>1. p \in 1 .. Len(code) /\ p \in 1 .. Len(code) + 1
      BY <1>1, CodeLen
    <3>2. lin[p] # <<>>
      BY <1>1, <2>1, <3>1, LinWalked DEF ScanFollows
    <3>3. Len(lin[p]) \in Nat /\ Len(lin[p]) >= 1
      BY <1>1, <3>1, <3>2, LinWalked
    <3> QED BY <3>2, <3>3
  <2> QED BY <2>1
<1>7. ASSUME NEW p \in 1 .. pos - 1 PROVE DepthFollows(p)'
  <2>1. DepthFollows(p) /\ p \in 1 .. pos /\ p + 1 \in 1 .. pos
    BY <1>1, <1>2
  <2> QED BY <1>1, <1>4, <1>5, <1>6, <2>1 DEF DepthFollows
<1>8. ASSUME NEW p, p = pos PROVE DepthFollows(p)'
  <2>1. din'[p + 1] = IF code[p].op = "SCLR" THEN 0
                      ELSE din'[p] + StackDelta(code[p].op)
    <3>1. din'[p] = depth /\ p \in 1 .. pos
      BY <1>1, <1>2, <1>4, <1>8
    <3> QED BY <1>1, <1>3, <1>4, <1>8, <3>1 DEF DepthAfterInstr
  <2>2. ASSUME code[p].op = "NEXT"
        PROVE  din'[p] = din'[lin[p][Len(lin[p])] + 1]
    <3>1. /\ Len(lin[p]) \in 1 .. Len(lin[p]) /\ Len(entries) = Len(lin[p])
          /\ entries # <<>>
      BY <1>1, <1>6, <1>8, <2>2, EmptySeq DEF PhasesAgree
    <3>2. entries[Len(entries)].depth = DepthAfterInstr
      <4>1. DepthVerdict(DepthAfterInstr) = "none"
        BY DEF CheckDepth
      <4> QED BY <1>1, <1>8, <2>2, <3>1, <4>1 DEF DepthVerdict
    <3>3. DepthAfterInstr = depth
      <4>1. StackDelta("NEXT") = 0
        BY DEF StackDelta, Delta_1, Delta_m1, Delta_m2, Delta_m3,
               BinaryOps, UnaryOps, CoefficientOps, GridOps
      <4>2. depth \in Int
        BY VerifierAssumption DEF VerifierTypeOK
      <4> QED BY <1>1, <1>8, <2>2, <4>1, <4>2 DEF DepthAfterInstr
    <3>4. entries[Len(entries)].depth = din[lin[p][Len(lin[p])] + 1]
      BY <1>1, <1>8, <3>1 DEF PhasesAgree
    <3> QED BY <1>1, <1>2, <1>4, <1>5, <1>8, <3>1, <3>2, <3>3, <3>4
  <2> QED BY <1>1, <2>1, <2>2 DEF DepthFollows
<1>9. DepthInv'
  <2>1. ASSUME NEW p \in 1 .. Len(din') - 1 PROVE DepthFollows(p)'
    <3>1. p \in 1 .. pos - 1 \/ p = pos
      BY <1>1, <1>4
    <3> QED BY <1>7, <1>8, <3>1
  <2> QED BY <1>1, <1>2, <1>4, <2>1 DEF DepthInv
<1>10. PhasesAgree'
  <2>1. Len(entries') = Len(lin[pos + 1])
    BY EntriesBehind
  <2>2. ASSUME NEW k \in 1 .. Len(entries')
        PROVE  /\ entries'[k].opener = lin[pos + 1][k]
               /\ entries'[k].depth = din'[entries'[k].opener + 1]
    <3>1. CASE /\ k \in 1 .. Len(entries) /\ entries'[k] = entries[k]
               /\ lin[pos + 1][k] = lin[pos][k]
      <4>1. /\ entries[k].opener = lin[pos][k] /\ k \in 1 .. Len(lin[pos])
            /\ entries[k].depth = din[entries[k].opener + 1] /\ pos \in 1 .. pos
        BY <1>1, <3>1 DEF PhasesAgree
      <4> QED BY <1>5, <3>1, <4>1
    <3>2. CASE /\ entries'[k] = [opener |-> pos, depth |-> depth']
               /\ lin[pos + 1][k] = pos
      BY <1>4, <3>2
    <3> QED BY <3>1, <3>2, EntriesBehind
  <2> QED BY <1>1, <2>1, <2>2 DEF PhasesAgree
<1> QED BY <1>9, <1>10

LEMMA DepthTurns ==
    ASSUME VerifierTypeOK, ScanInv, DepthInv, PhasesAgree, VerifierStep, ~CheckDepth
    PROVE  DepthInv' /\ PhasesAgree'
<1>1. UNCHANGED <<code, depth, entries, din>>
  BY DEF VerifierStep, ScanBad, ScanInstr, ScanEnd, CheckTypes, RejectTypes, TypesEnd,
         RejectDepth, Accept, Onwards, Reject, Enter, depthVars
<1>2. Len(din') >= 1 /\ din'[1] = 0
  BY <1>1 DEF DepthInv
<1>3. /\ phase' \in {"scan", "types"} => phase \in {"scan", "types"}
      /\ phase' = "depth" => phase = "types" /\ pos' = 1
      /\ phase' = "accepted" => phase = "depth" /\ pos > Len(code)
  <2>1. CheckTypes => phase = "types"
    BY DEF CheckTypes, Walking
  <2> QED BY <2>1, VerifierPhases
<1>4. \A p \in 1 .. Len(din') - 1 : DepthFollows(p)'
  <2>1. CASE phase = "scan"
    <3>1. Len(din') - 1 = 0
      BY <1>1, <2>1 DEF DepthInv
    <3>2. \A p \in 1 .. 0 : FALSE
      OBVIOUS
    <3> QED BY <3>1, <3>2, Zenon
  <2>2. CASE phase # "scan"
    <3>1. ~ScanInstr
      BY <2>2 DEF ScanInstr, Walking
    <3>2. lin' = lin
      BY <3>1 DEF VerifierStep, ScanBad, ScanEnd, CheckTypes, RejectTypes, TypesEnd,
             CheckDepth, RejectDepth, Accept, scanVars
    <3>3. \A p : DepthFollows(p)' <=> DepthFollows(p)
      BY <1>1, <3>2 DEF DepthFollows
    <3> QED BY <1>1, <3>3 DEF DepthInv
  <2> QED BY <2>1, <2>2
<1>5. phase = "depth" /\ pos > Len(code) => Len(din) = Len(code) + 1
  BY CodeLen DEF DepthInv
<1>6. DepthInv'
  BY <1>1, <1>2, <1>3, <1>4, <1>5 DEF DepthInv
<1>7. PhasesAgree'
  <2>1. phase' = "depth" => entries' = <<>> /\ pos' = 1 /\ phase = "types"
    BY <1>1, <1>3 DEF DepthInv
  <2>2. lin'[1] = <<>>
    BY ScanInstrScan, ScanTurns DEF ScanInv
  <2> QED BY <2>1, <2>2 DEF PhasesAgree
<1> QED BY <1>6, <1>7

LEMMA WalkStep ==
    ASSUME VerifierTypeOK, WalkInv, VerifierStep PROVE WalkInv'
<1>1. ScanInv'
  BY ScanInstrScan, ScanTurns DEF WalkInv
<1>2. TypesInv'
  BY TypesStep DEF WalkInv
<1>3. DepthInv' /\ PhasesAgree'
  BY CheckDepthStep, DepthTurns DEF WalkInv
<1> QED BY <1>1, <1>2, <1>3 DEF WalkInv

LEMMA VerifierUnchanged ==
    ASSUME UNCHANGED verifierVars
    PROVE  /\ VerifierTypeOK' <=> VerifierTypeOK
           /\ WalkInv' <=> WalkInv
<1>1. UNCHANGED <<code, phase, pos, error, targets, loopOffsets, jumpRefs, types,
                  depth, entries, lin, tin, din>>
  BY DEF verifierVars, scanVars, typeVars, depthVars
<1>2. VerifierTypeOK' <=> VerifierTypeOK
  BY <1>1 DEF VerifierTypeOK
<1>3. ScanInv' <=> ScanInv
  BY <1>1 DEF ScanInv, ScanFollows, LoopsNest
<1>4. TypesInv' <=> TypesInv
  BY <1>1 DEF TypesInv, TypesFollow
<1>5. (DepthInv' <=> DepthInv) /\ (PhasesAgree' <=> PhasesAgree)
  BY <1>1 DEF DepthInv, DepthFollows, PhasesAgree
<1> QED BY <1>2, <1>3, <1>4, <1>5 DEF WalkInv

--------------------------------------------------------------------------
(* The scan counts.                                                       *)

\* How many of the first n instructions are among ops, for a code that is
\* given: CountOf of it.
LEMMA Counting ==
    ASSUME code \in Seq(Instruction), NEW ops, NEW n \in 1 .. Len(code)
    PROVE  /\ CountOf(ops, n - 1) \in Nat /\ CountOf(ops, n) \in Nat
           /\ CountOf(ops, n) = IF code[n].op \in ops THEN CountOf(ops, n - 1) + 1
                                ELSE CountOf(ops, n - 1)
<1> DEFINE A == {k \in 1 .. n - 1 : code[k].op \in ops}
           B == {k \in 1 .. n : code[k].op \in ops}
<1>1. n \in Nat /\ n >= 1 /\ Len(code) \in Nat
  BY LenProperties
<1>2. IsFiniteSet(A) /\ IsFiniteSet(B)
  <2>1. IsFiniteSet(1 .. n - 1) /\ IsFiniteSet(1 .. n)
    BY <1>1, FS_Interval
  <2>2. A \subseteq 1 .. n - 1 /\ B \subseteq 1 .. n
    OBVIOUS
  <2> QED BY <2>1, <2>2, FS_Subset
<1>3. Cardinality(A) \in Nat /\ Cardinality(B) \in Nat
  BY <1>2, FS_CardinalityType
<1>4. n \notin A
  BY <1>1
<1>5. code[n].op \in ops => B = A \cup {n}
  BY <1>1
<1>6. code[n].op \notin ops => B = A
  BY <1>1
<1> HIDE DEF A, B
<1>7. Cardinality(A \cup {n}) = Cardinality(A) + 1
  BY <1>2, <1>4, FS_AddElement
<1> QED BY <1>3, <1>5, <1>6, <1>7 DEF CountOf, A, B

LEMMA CountNone ==
    ASSUME code \in Seq(Instruction), NEW ops, NEW n \in 0 .. Len(code)
    PROVE  /\ CountOf(ops, n) \in Nat
           /\ CountOf(ops, n) = 0 <=> \A k \in 1 .. n : code[k].op \notin ops
<1> DEFINE B == {k \in 1 .. n : code[k].op \in ops}
<1>1. IsFiniteSet(B)
  <2>1. IsFiniteSet(1 .. n) /\ B \subseteq 1 .. n
    BY FS_Interval, LenProperties
  <2> QED BY <2>1, FS_Subset
<1>2. Cardinality(B) \in Nat /\ (Cardinality(B) = 0 <=> B = {})
  BY <1>1, FS_CardinalityType, FS_EmptySet
<1>3. B = {} <=> \A k \in 1 .. n : code[k].op \notin ops
  OBVIOUS
<1> QED BY <1>2, <1>3 DEF CountOf

LEMMA InitCounts == ASSUME VerifierInit PROVE CountInv
<1>1. code \in Seq(Instruction) /\ Len(code) \in Nat
  BY VerifierInitTypes, CodeLen DEF VerifierTypeOK
<1>2. pos - 1 = 0 /\ loopOffsets = <<>> /\ targets = <<>> /\ jumpRefs = <<>>
      /\ phase = "scan" /\ error = "none"
  BY DEF VerifierInit
<1>3. \A ops : CountOf(ops, 0) = 0
  BY <1>1, CountNone
<1>4. OpenAt(0) = 0
  BY <1>3 DEF OpenAt
<1>5. ScanCounts
  BY <1>2, <1>3, <1>4 DEF ScanCounts
<1> QED BY <1>2, <1>5 DEF CountInv, ScanIsPhase1

\* The counts are of the code, which no step changes.
LEMMA CountsKept ==
    ASSUME code' = code
    PROVE  /\ \A ops, n : CountOf(ops, n)' = CountOf(ops, n)
           /\ \A n : OpenAt(n)' = OpenAt(n)
           /\ StructuralPhase' <=> StructuralPhase
           /\ JumpTargetPhase' <=> JumpTargetPhase
           /\ LoopNestingPhase' <=> LoopNestingPhase
BY DEF CountOf, OpenAt, StructuralPhase, JumpTargetPhase, LoopNestingPhase

\* One instruction more, one loop more or less.
LEMMA OpenStep ==
    ASSUME code \in Seq(Instruction), NEW n \in 1 .. Len(code)
    PROVE  /\ OpenAt(n - 1) \in Int
           /\ OpenAt(n) = IF code[n].op \in LoopOpeners THEN OpenAt(n - 1) + 1
                          ELSE IF code[n].op = "NEXT" THEN OpenAt(n - 1) - 1
                          ELSE OpenAt(n - 1)
<1> DEFINE a == CountOf(LoopOpeners, n - 1)
           b == CountOf({"NEXT"}, n - 1)
<1>1. a \in Nat /\ b \in Nat
  BY Counting
<1>2. OpenAt(n - 1) = a - b
  BY DEF OpenAt
<1>3. CASE code[n].op \in LoopOpeners
  <2>1. code[n].op \notin {"NEXT"}
    BY <1>3 DEF LoopOpeners
  <2>2. CountOf(LoopOpeners, n) = a + 1 /\ CountOf({"NEXT"}, n) = b
    BY <1>3, <2>1, Counting
  <2> HIDE DEF a, b
  <2> QED BY <1>1, <1>2, <1>3, <2>2 DEF OpenAt
<1>4. CASE code[n].op = "NEXT"
  <2>1. code[n].op \notin LoopOpeners /\ code[n].op \in {"NEXT"}
    BY <1>4 DEF LoopOpeners
  <2>2. CountOf(LoopOpeners, n) = a /\ CountOf({"NEXT"}, n) = b + 1
    BY <2>1, Counting
  <2> HIDE DEF a, b
  <2> QED BY <1>1, <1>2, <1>4, <2>1, <2>2 DEF OpenAt
<1>5. CASE code[n].op \notin LoopOpeners /\ code[n].op # "NEXT"
  <2>1. CountOf(LoopOpeners, n) = a /\ CountOf({"NEXT"}, n) = b
    BY <1>5, Counting
  <2> HIDE DEF a, b
  <2> QED BY <1>1, <1>2, <1>5, <2>1 DEF OpenAt
<1> QED BY <1>3, <1>4, <1>5

\* The scan keeps its counts right while it meets no error, and an error it
\* meets is one of the three phases' as well.
LEMMA ScanInstrCounts ==
    ASSUME VerifierTypeOK, ScanCounts, ScanInstr PROVE ScanCounts'
<1>1. /\ code \in Seq(Instruction) /\ code' = code /\ pos \in 1 .. Len(code)
      /\ Instr = code[pos] /\ phase = "scan" /\ phase' = "scan" /\ pos' - 1 = pos
      /\ Instr.op # "BAD" /\ pos \in Nat /\ pos - 1 \in Nat /\ Len(code) \in Nat
  BY InstrOK, CodeLen DEF ScanInstr, Walking, VerifierTypeOK
<1>2. CASE error # "none"
  BY <1>1, <1>2, CountsKept DEF ScanCounts, ScanInstr
<1>3. CASE error = "none" /\ error' # "none"
  <2>1. loopOffsets = <<>> /\ Instr.op \in {"NEXT", "LIDX", "LVAL"}
    BY <1>3 DEF ScanInstr
  <2>2. OpenAt(pos - 1) = 0
    BY <1>1, <1>3, <2>1 DEF ScanCounts
  <2>3. ~LoopNestingPhase
    BY <1>1, <2>1, <2>2 DEF LoopNestingPhase
  <2>4. error' \in Phase1Errors
    BY <1>3, <2>1 DEF ScanInstr, Phase1Errors
  <2> QED BY <1>1, <1>3, <2>3, <2>4, CountsKept DEF ScanCounts
<1>4. CASE error = "none" /\ error' = "none"
  <2>1. /\ OpenAt(pos - 1) = Len(loopOffsets)
        /\ CountOf({"TARGET"}, pos - 1) = Len(targets)
        /\ \A k \in 1 .. pos - 1 :
              /\ code[k].op # "BAD"
              /\ code[k].op \in {"NEXT", "LIDX", "LVAL"} => OpenAt(k - 1) > 0
        /\ \A j \in 1 .. Len(jumpRefs) : \E k \in 1 .. pos - 1 :
              code[k].op \in JumpOps /\ code[k].imm = jumpRefs[j]
    BY <1>1, <1>4 DEF ScanCounts
  <2>2. Instr.op \in {"NEXT", "LIDX", "LVAL"} => loopOffsets # <<>>
    BY <1>4 DEF ScanInstr
  <2>3. loopOffsets # <<>> => Len(loopOffsets) > 0
    <3>1. loopOffsets \in Seq(1 .. Len(code)) /\ Len(loopOffsets) \in Nat
      BY CodeLen DEF VerifierTypeOK
    <3>2. loopOffsets # <<>> => Len(loopOffsets) # 0
      BY <3>1, EmptySeq
    <3> QED BY <3>1, <3>2
  <2>4. OpenAt(pos) = Len(loopOffsets')
    <3>1. loopOffsets \in Seq(1 .. Len(code)) /\ Len(loopOffsets) \in Nat
      BY CodeLen DEF VerifierTypeOK
    <3>2. CASE Instr.op \in LoopOpeners
      <4>1. loopOffsets' = Append(loopOffsets, pos)
        BY <3>2 DEF ScanInstr
      <4>2. Len(loopOffsets') = Len(loopOffsets) + 1
        BY <1>1, <3>1, <4>1, Appended
      <4> QED BY <1>1, <2>1, <3>2, <4>2, OpenStep
    <3>3. CASE Instr.op = "NEXT"
      <4>1. Instr.op \notin LoopOpeners
        BY <3>3 DEF LoopOpeners
      <4>2. loopOffsets # <<>> /\ loopOffsets' = Popped(loopOffsets)
        BY <1>4, <2>2, <3>3, <4>1 DEF ScanInstr
      <4>3. Len(loopOffsets') = Len(loopOffsets) - 1
        BY <3>1, <4>2, PoppedSeq
      <4> QED BY <1>1, <2>1, <3>3, <4>1, <4>3, OpenStep
    <3>4. CASE Instr.op \notin LoopOpeners /\ Instr.op # "NEXT"
      <4>1. loopOffsets' = loopOffsets
        BY <3>4 DEF ScanInstr
      <4> QED BY <1>1, <2>1, <3>4, <4>1, OpenStep
    <3> QED BY <3>2, <3>3, <3>4
  <2>5. CountOf({"TARGET"}, pos) = Len(targets')
    <3>1. CASE Instr.op = "TARGET"
      <4>1. Len(targets') = Len(targets) + 1
        BY <1>1, <3>1, Appended DEF ScanInstr, VerifierTypeOK
      <4> QED BY <1>1, <2>1, <3>1, <4>1, Counting
    <3>2. CASE Instr.op # "TARGET"
      BY <1>1, <2>1, <3>2, Counting DEF ScanInstr
    <3> QED BY <3>1, <3>2
  <2>6. \A k \in 1 .. pos :
           /\ code[k].op # "BAD"
           /\ code[k].op \in {"NEXT", "LIDX", "LVAL"} => OpenAt(k - 1) > 0
    <3>1. ASSUME NEW k \in 1 .. pos PROVE k \in 1 .. pos - 1 \/ k = pos
      BY <1>1
    <3> QED BY <1>1, <2>1, <2>2, <2>3, <3>1
  <2>7. \A j \in 1 .. Len(jumpRefs') : \E k \in 1 .. pos :
           code[k].op \in JumpOps /\ code[k].imm = jumpRefs'[j]
    <3>1. ASSUME NEW j \in 1 .. Len(jumpRefs')
          PROVE  \E k \in 1 .. pos :
                    code[k].op \in JumpOps /\ code[k].imm = jumpRefs'[j]
      <4>1. CASE j \in 1 .. Len(jumpRefs) /\ jumpRefs'[j] = jumpRefs[j]
        <5>1. PICK k \in 1 .. pos - 1 :
                 code[k].op \in JumpOps /\ code[k].imm = jumpRefs[j]
          BY <2>1, <4>1
        <5>2. k \in 1 .. pos
          BY <1>1
        <5> QED BY <4>1, <5>1, <5>2
      <4>2. CASE Instr.op \in JumpOps /\ jumpRefs'[j] = Instr.imm
        BY <1>1, <4>2
      <4> QED BY <4>1, <4>2, RefsGrow
    <3> QED BY <3>1
  <2> QED BY <1>1, <1>4, <2>4, <2>5, <2>6, <2>7, CountsKept DEF ScanCounts
<1> QED BY <1>2, <1>3, <1>4

LEMMA ScanBadCounts ==
    ASSUME VerifierTypeOK, ScanCounts, ScanBad PROVE ScanCounts'
<1>1. /\ code \in Seq(Instruction) /\ code' = code /\ pos \in 1 .. Len(code)
      /\ code[pos].op = "BAD" /\ phase = "scan" /\ phase' = "scan"
      /\ Len(code) \in Nat
  BY InstrOK, CodeLen DEF ScanBad, Walking, VerifierTypeOK
<1>3. error' # "none" /\ error' \in Phase1Errors
  BY <1>1 DEF ScanBad, ScanCounts, Phase1Errors
<1>2. ~StructuralPhase
  <2>1. Len(code) \in 0 .. Len(code) /\ code[pos].op \in {"BAD"}
    BY <1>1
  <2> QED BY <1>1, <2>1, CountNone DEF StructuralPhase
<1> QED BY <1>1, <1>2, <1>3, CountsKept DEF ScanCounts

\* At its end the scan accepts what the three phases accept.
LEMMA ScanEndIsPhase1 ==
    ASSUME VerifierTypeOK, ScanInv, ScanCounts, ScanEnd
    PROVE  error' \in Phase1Errors
              <=> ~(StructuralPhase /\ JumpTargetPhase /\ LoopNestingPhase)
<1>1. /\ code \in Seq(Instruction) /\ Len(code) \in Nat /\ phase = "scan"
      /\ pos - 1 = Len(code) /\ pos > Len(code)
      /\ error' = IF ScanVerdict = "none" THEN error ELSE ScanVerdict
  <2>1. phase = "scan" /\ pos > Len(code)
    BY DEF ScanEnd, WalkOver
  <2>2. error' = IF ScanVerdict = "none" THEN error ELSE ScanVerdict
    BY DEF ScanEnd, Enter, Reject
  <2>3. code \in Seq(Instruction) /\ Len(code) \in Nat /\ pos - 1 = Len(code)
    <3> DEFINE n == Len(code)
    <3>1. n \in Nat /\ pos \in Nat /\ pos <= n + 1 /\ pos > n
      BY <2>1, CodeLen
    <3> HIDE DEF n
    <3>2. n \in Nat /\ pos - 1 = n
      BY <3>1
    <3> QED BY <3>2 DEF n, VerifierTypeOK
  <2> QED BY <2>1, <2>2, <2>3
<1>2. CASE error # "none"
  <2>1. ~StructuralPhase \/ ~LoopNestingPhase
    BY <1>1, <1>2 DEF ScanCounts
  <2>2. error' \in Phase1Errors
    <3>1. error' = error
      BY <1>1, <1>2 DEF ScanVerdict
    <3>2. error \in Phase1Errors
      BY <1>1, <1>2 DEF ScanCounts
    <3> QED BY <3>1, <3>2
  <2> QED BY <2>1, <2>2
<1>3. CASE error = "none"
  <2>1. /\ OpenAt(Len(code)) = Len(loopOffsets)
        /\ CountOf({"TARGET"}, Len(code)) = Len(targets)
        /\ \A k \in 1 .. Len(code) :
              /\ code[k].op # "BAD"
              /\ code[k].op \in {"NEXT", "LIDX", "LVAL"} => OpenAt(k - 1) > 0
        /\ \A j \in 1 .. Len(jumpRefs) : \E k \in 1 .. Len(code) :
              code[k].op \in JumpOps /\ code[k].imm = jumpRefs[j]
    BY <1>1, <1>3 DEF ScanCounts
  <2>2. StructuralPhase
    <3>1. Len(code) \in 0 .. Len(code)
      BY <1>1
    <3> QED BY <1>1, <2>1, <3>1, CountNone DEF StructuralPhase
  <2>3. \A k \in 1 .. Len(code) : code[k].op \in JumpOps =>
           \E j \in 1 .. Len(jumpRefs) : jumpRefs[j] = code[k].imm
    <3>1. Len(lin) - 1 = Len(code)
      BY <1>1, <1>3, CodeLen DEF ScanInv
    <3> QED BY <1>1, <1>3, <3>1 DEF ScanInv, ScanFollows
  <2>4. LoopNestingPhase <=> loopOffsets = <<>>
    <3>1. loopOffsets = <<>> <=> Len(loopOffsets) = 0
      BY EmptySeq DEF VerifierTypeOK
    <3> QED BY <2>1, <3>1 DEF LoopNestingPhase
  <2>5. JumpTargetPhase
           <=> ~\E j \in 1 .. Len(jumpRefs) : jumpRefs[j] >= Len(targets)
    <3>1. /\ \A j \in 1 .. Len(jumpRefs) : jumpRefs[j] \in Int
          /\ Len(targets) \in Nat
      BY ElementOfSeq, CodeLen DEF VerifierTypeOK
    <3>2. JumpTargetPhase
             <=> \A j \in 1 .. Len(jumpRefs) : jumpRefs[j] < Len(targets)
      BY <2>1, <2>3 DEF JumpTargetPhase
    <3> QED BY <3>1, <3>2
  <2>6. error' \in Phase1Errors <=> ScanVerdict # "none"
    BY <1>1, <1>3 DEF ScanVerdict, Phase1Errors
  <2>7. ScanVerdict # "none" <=>
           \/ loopOffsets # <<>>
           \/ \E j \in 1 .. Len(jumpRefs) : jumpRefs[j] >= Len(targets)
    BY <1>3 DEF ScanVerdict
  <2> QED BY <2>2, <2>4, <2>5, <2>6, <2>7
<1> QED BY <1>2, <1>3

LEMMA CountStep ==
    ASSUME VerifierTypeOK, ScanInv, CountInv, VerifierStep PROVE CountInv'
<1>1. ScanCounts'
  <2>1. ScanCounts
    BY DEF CountInv
  <2>2. CASE ScanInstr \/ ScanBad
    BY <2>1, <2>2, ScanInstrCounts, ScanBadCounts
  <2>3. CASE ~(ScanInstr \/ ScanBad)
    BY <2>3, VerifierPhases DEF ScanCounts
  <2> QED BY <2>2, <2>3
<1>2. ScanIsPhase1'
  <2>1. code' = code
    BY DEF VerifierStep, ScanBad, ScanInstr, ScanEnd, CheckTypes, RejectTypes,
           TypesEnd, CheckDepth, RejectDepth, Accept, Onwards, Reject, Enter
  <2>2. CASE ScanEnd
    BY <2>1, <2>2, ScanEndIsPhase1, CountsKept DEF CountInv, ScanIsPhase1
  <2>3. CASE CheckTypes \/ TypesEnd \/ CheckDepth \/ Accept
    <3>1. phase # "scan" /\ error' = error
      BY <2>3 DEF CheckTypes, TypesEnd, CheckDepth, Accept, Walking, WalkOver,
                  Onwards, Enter
    <3> QED BY <2>1, <3>1, CountsKept DEF CountInv, ScanIsPhase1
  <2>4. CASE RejectTypes \/ RejectDepth
    <3>1. phase \in {"types", "depth"} /\ error' \notin Phase1Errors
      BY <2>4 DEF RejectTypes, RejectDepth, Walking, Reject, DepthVerdict, Phase1Errors
    <3>2. error \notin Phase1Errors
      BY <3>1 DEF ScanInv, Phase1Errors
    <3> QED BY <2>1, <3>1, <3>2, CountsKept DEF CountInv, ScanIsPhase1
  <2>5. CASE ScanBad \/ ScanInstr
    BY <2>5 DEF ScanBad, ScanInstr, Walking, ScanIsPhase1
  <2> QED BY <2>2, <2>3, <2>4, <2>5 DEF VerifierStep
<1> QED BY <1>1, <1>2 DEF CountInv

LEMMA CountUnchanged ==
    ASSUME UNCHANGED verifierVars PROVE CountInv' <=> CountInv
<1>1. UNCHANGED <<code, phase, pos, error, targets, loopOffsets, jumpRefs>>
  BY DEF verifierVars, scanVars
<1> QED BY <1>1, CountsKept DEF CountInv, ScanCounts, ScanIsPhase1

--------------------------------------------------------------------------
(* The theorems.                                                          *)

VerifierInv == VerifierTypeOK /\ WalkInv /\ CountInv

LEMMA VerifierInvInit == ASSUME VerifierInit PROVE VerifierInv
BY VerifierInitTypes, InitWalk, InitCounts DEF VerifierInv

LEMMA VerifierInvStep == ASSUME VerifierInv, VerifierStep PROVE VerifierInv'
BY VerifierStepTypes, WalkStep, CountStep DEF VerifierInv, WalkInv

LEMMA VerifierInvKept ==
    ASSUME VerifierInv, UNCHANGED verifierVars PROVE VerifierInv'
BY VerifierUnchanged, CountUnchanged DEF VerifierInv

\* Whatever the code, the verifier on its own keeps its types and its
\* inductive invariant.
THEOREM VerifierInvariant == VerifierSpec => []VerifierInv
<1>1. VerifierInv /\ [VerifierStep]_verifierVars => VerifierInv'
  BY VerifierInvStep, VerifierInvKept
<1> QED BY <1>1, VerifierInvInit, PTL DEF VerifierSpec

\* CombinedPhase, for every code: its one walk, which stops popping loops at
\* the first error and looks at the labels last, rejects exactly the code that
\* one of the three phases it replaces rejects.
THEOREM CombinedPhaseIsThePhases == VerifierSpec => []ScanIsPhase1
<1>1. VerifierInv => ScanIsPhase1
  BY DEF VerifierInv, CountInv
<1> QED BY <1>1, VerifierInvariant, PTL

\* StackEffectPhase, for every code that the scan let through: its own loop
\* stack is the scan's at every position, with the depth of every loop's body.
THEOREM LoopStacksAgree == VerifierSpec => []PhasesAgree
<1>1. VerifierInv => PhasesAgree
  BY DEF VerifierInv, WalkInv
<1> QED BY <1>1, VerifierInvariant, PTL

--------------------------------------------------------------------------
(* Runs of verified code.                                                 *)

\* What an accepted code that runs has behind it.
LEMMA AcceptedRun ==
    ASSUME Inductive, Accepted, status = "running"
    PROVE  /\ clean = FALSE /\ prog.code = code /\ prog.table = targets
           /\ Len(code) \in Nat /\ pc \in 1 .. Len(code) + 1
           /\ Len(din) = Len(code) + 1 /\ Len(tin) = Len(code) + 1
           /\ loopOffsets = <<>> /\ lin[Len(code) + 1] = <<>>
           /\ \A p \in 1 .. Len(code) : DepthFollows(p) /\ TypesFollow(p)
           /\ \A p \in 1 .. Len(code) : code[p].op \in JumpOps =>
                 code[p].imm + 1 \in 1 .. Len(targets)
<1> USE DEF Inductive, RunInv, CleanInv, Accepted, WalkInv
<1>1. clean = FALSE /\ prog = Loaded
  BY DEF VerifiedTypeOK
<1>2. prog.code = code /\ prog.table = targets
  BY <1>1 DEF Loaded
<1>3. Len(code) \in Nat /\ pc \in 1 .. Len(code) + 1
  BY <1>2, CodeLen DEF VerifiedTypeOK, TypeOK, ControlOK
<1>4. /\ Len(din) = Len(code) + 1 /\ Len(tin) = Len(code) + 1
      /\ Len(din) - 1 = Len(code) /\ Len(tin) - 1 = Len(code)
  BY <1>3 DEF DepthInv, TypesInv
<1>5. \A p \in 1 .. Len(code) : DepthFollows(p) /\ TypesFollow(p)
  BY <1>4 DEF DepthInv, TypesInv
<1>6. /\ Len(lin) = Len(code) + 1 /\ Len(lin) - 1 = Len(code)
      /\ loopOffsets = <<>> /\ lin[Len(lin)] = loopOffsets
      /\ \A k \in 1 .. Len(jumpRefs) : jumpRefs[k] < Len(targets)
      /\ \A p \in 1 .. Len(lin) - 1 : ScanFollows(p)
  BY <1>3 DEF ScanInv
<1>7. ASSUME NEW p \in 1 .. Len(code), code[p].op \in JumpOps
      PROVE  code[p].imm + 1 \in 1 .. Len(targets)
  <2>1. code[p].imm \in Nat
    BY <1>7, VerifierAssumption
  <2>2. code[p].imm < Len(targets) /\ Len(targets) \in Nat
    BY <1>6, <1>7, CodeLen DEF ScanFollows, VerifiedTypeOK
  <2> QED BY <2>1, <2>2
<1> QED BY <1>1, <1>2, <1>3, <1>4, <1>5, <1>6, <1>7

\* The same of the scan.
LEMMA AcceptedScan ==
    ASSUME Inductive, Accepted
    PROVE  /\ \A p \in 1 .. Len(code) + 1 :
                 /\ lin[p] \in Seq(1 .. Len(code)) /\ Len(lin[p]) \in Nat
                 /\ (lin[p] # <<>> => Len(lin[p]) >= 1)
                 /\ LoopsNest(p)
           /\ \A p \in 1 .. Len(code) : ScanFollows(p)
           /\ \A p \in 1 .. Len(code) + 1 : \A k \in 1 .. Len(lin[p]) :
                 lin[p][k] \in 1 .. p - 1
BY LinWalked DEF Inductive, VerifiedTypeOK, WalkInv, Accepted

\* The loops open behind an instruction, of those open at it.
LEMMA LoopsAfter ==
    ASSUME Inductive, Accepted, NEW p \in 1 .. Len(code)
    PROVE  /\ code[p].op \in LoopOpeners =>
                 /\ Len(lin[p + 1]) = Len(lin[p]) + 1
                 /\ lin[p + 1][Len(lin[p]) + 1] = p
                 /\ \A k \in 1 .. Len(lin[p]) : lin[p + 1][k] = lin[p][k]
           /\ code[p].op = "NEXT" =>
                 /\ Len(lin[p]) >= 1 /\ Len(lin[p + 1]) = Len(lin[p]) - 1
                 /\ \A k \in 1 .. Len(lin[p]) - 1 : lin[p + 1][k] = lin[p][k]
           /\ code[p].op \notin LoopOpeners \cup {"NEXT"} => lin[p + 1] = lin[p]
           /\ code[p].op # "BAD" /\ Len(lin[p]) \in Nat
           /\ code[p].op \in {"NEXT", "LIDX", "LVAL"} => lin[p] # <<>>
<1>1. Len(code) \in Nat /\ p \in 1 .. Len(code) + 1
  BY CodeLen DEF Inductive, VerifiedTypeOK
<1>2. lin[p] \in Seq(1 .. Len(code)) /\ Len(lin[p]) \in Nat /\ ScanFollows(p)
  BY <1>1, AcceptedScan
<1>3. CASE code[p].op \in LoopOpeners
  <2>1. lin[p + 1] = Append(lin[p], p) /\ code[p].op \notin {"NEXT", "LIDX", "LVAL"}
    BY <1>2, <1>3 DEF ScanFollows, LoopOpeners
  <2> QED BY <1>2, <1>3, <2>1, Appended DEF ScanFollows
<1>4. CASE code[p].op = "NEXT"
  <2>1. code[p].op \notin LoopOpeners
    BY <1>4 DEF LoopOpeners
  <2>2. lin[p] # <<>> /\ lin[p + 1] = Popped(lin[p])
    BY <1>2, <1>4, <2>1 DEF ScanFollows
  <2>3. Len(lin[p]) >= 1
    BY <1>1, <2>2, AcceptedScan
  <2>4. /\ Len(lin[p + 1]) = Len(lin[p]) - 1
        /\ \A k \in 1 .. Len(lin[p]) - 1 : lin[p + 1][k] = lin[p][k]
    BY <1>2, <2>2, PoppedSeq
  <2> QED BY <1>2, <1>4, <2>1, <2>2, <2>3, <2>4
<1>5. CASE code[p].op \notin LoopOpeners \cup {"NEXT"}
  BY <1>2, <1>5 DEF ScanFollows
<1> QED BY <1>3, <1>4, <1>5

--------------------------------------------------------------------------
(* One executed instruction of an accepted, disciplined code.             *)

\* The verified code has one place for each instruction.
LEMMA OnePlace ==
    ASSUME Inductive, NEW k \in 1 .. Len(code) PROVE code[k].width = 1
<1>1. code \in Seq([op : ExecOps, imm : Word, r1 : Reg, r2 : Reg, r3 : Reg,
                   width : {1}])
  BY VerifiedAssumption DEF Inductive, RunInv, CleanInv
<1>2. code[k] \in [op : ExecOps, imm : Word, r1 : Reg, r2 : Reg, r3 : Reg,
                   width : {1}]
  BY <1>1, ElementOfSeq
<1> QED BY <1>2

\* The instruction that is executed, and what is so of the frames at it.
LEMMA AtPc ==
    ASSUME Inductive, Accepted, Disciplined, Execute
    PROVE  /\ status = "running" /\ skipDepth = 0 /\ pc \in 1 .. Len(code)
           /\ Current = code[pc] /\ Behind = pc + 1
           /\ Len(stack) \in Nat /\ Len(loopStack) \in Nat
           /\ Len(stack) = din[pc] /\ Len(loopStack) = Len(lin[pc])
           /\ \A k \in 1 .. Len(loopStack) : loopStack[k].body = lin[pc][k] + 1
           /\ (loopStack = <<>> <=> Len(lin[pc]) = 0)
<1>1. status = "running" /\ skipDepth = 0 /\ pc <= Len(prog.code)
  BY ExecuteStart
<1>2. pc \in 1 .. Len(code) /\ Current = code[pc]
  BY <1>1, AcceptedRun DEF Current
<1>3. AtInstruction /\ DepthSound /\ LoopsSound /\ TypeOK
  BY <1>1 DEF AtInstruction, Inductive, RunInv, VerifiedTypeOK
<1>4. /\ Len(stack) \in Nat /\ loopStack \in Seq(RangeFrame \cup IterFrame)
      /\ Len(loopStack) \in Nat
  BY <1>3, LenProperties DEF TypeOK, StackOK, LoopsOK
<1>5. loopStack = <<>> <=> Len(loopStack) = 0
  BY <1>4, EmptySeq
<1>6. Behind = pc + 1
  BY <1>2, OnePlace DEF Behind
<1> QED BY <1>1, <1>2, <1>3, <1>4, <1>5, <1>6 DEF DepthSound, LoopsSound

LEMMA ExecuteDepth ==
    ASSUME Inductive, Accepted, Disciplined, Execute, status' = "running"
    PROVE  /\ Len(stack') = din[pc + 1]
           /\ skipDepth' = 0 => Len(stack') = din[pc']
<1>1. TypeOK
  BY DEF Inductive, VerifiedTypeOK
<1>2. Follows
  BY <1>1, ExecuteEffect DEF Effect
<1>3. DepthFollows(pc) /\ Len(stack') = din[pc + 1]
  BY <1>2, AtPc, AcceptedRun DEF Follows, DepthFollows
<1>4. CASE Current.op \notin JumpOps \cup {"NEXT"}
  BY <1>2, <1>3, <1>4, AtPc DEF Follows
<1>5. CASE Current.op \in JumpOps
  <2>1. \/ pc' = pc + 1
        \/ /\ Current.imm + 1 \in 1 .. Len(targets)
           /\ pc' = targets[Current.imm + 1]
    BY <1>5, JumpFlow, AtPc, AcceptedRun
  <2>2. din[targets[Current.imm + 1]] = din[pc + 1]
    BY <1>5, AtPc DEF Disciplined
  <2> QED BY <1>3, <2>1, <2>2
<1>6. CASE Current.op = "NEXT"
  <2>1. \/ pc' = pc + 1
        \/ pc' = loopStack[Len(loopStack)].body
    BY <1>1, <1>6, NextFlow, AtPc DEF TopFrame
  <2>2. Len(loopStack) \in 1 .. Len(loopStack)
    BY <1>6, AtPc, LoopsAfter
  <2>3. loopStack[Len(loopStack)].body = lin[pc][Len(lin[pc])] + 1
    BY <2>2, AtPc
  <2>4. din[pc] = din[lin[pc][Len(lin[pc])] + 1]
    BY <1>3, <1>6, AtPc DEF DepthFollows
  <2>5. StackDelta("NEXT") = 0 /\ "NEXT" # "SCLR"
    BY DeltaOf
  <2>6. Len(stack') = din[pc]
    BY <1>2, <1>6, <2>5, AtPc DEF Follows
  <2> QED BY <1>3, <2>1, <2>3, <2>4, <2>6
<1> QED BY <1>3, <1>4, <1>5, <1>6

LEMMA ExecuteLoops ==
    ASSUME Inductive, Accepted, Disciplined, Execute, status' = "running"
    PROVE  /\ skipDepth' = 0 =>
                 /\ Len(loopStack') = Len(lin[pc'])
                 /\ \A k \in 1 .. Len(loopStack') :
                       loopStack'[k].body = lin[pc'][k] + 1
           /\ skipDepth' # 0 =>
                 /\ skipDepth' = 1 /\ pc' = pc + 1 /\ loopStack' = loopStack
                 /\ Len(lin[pc + 1]) = Len(loopStack) + 1
                 /\ lin[pc + 1][Len(loopStack) + 1] = pc
                 /\ \A k \in 1 .. Len(loopStack) :
                       loopStack[k].body = lin[pc + 1][k] + 1
<1>1. TypeOK /\ pc \in 1 .. Len(code) /\ Current = code[pc]
  BY AtPc DEF Inductive, VerifiedTypeOK
<1>2. Follows
  BY <1>1, ExecuteEffect DEF Effect
<1>3. CASE Current.op \in LoopOpeners
  <2>1. /\ Len(lin[pc + 1]) = Len(loopStack) + 1
        /\ lin[pc + 1][Len(loopStack) + 1] = pc
        /\ \A k \in 1 .. Len(loopStack) : lin[pc + 1][k] = lin[pc][k]
    BY <1>1, <1>3, LoopsAfter, AtPc
  <2>2. \A k \in 1 .. Len(loopStack) : loopStack[k].body = lin[pc + 1][k] + 1
    BY <2>1, AtPc
  <2>3. CASE skipDepth' = 1 /\ loopStack' = loopStack
    BY <1>1, <1>3, <2>1, <2>2, <2>3, OpenFlow, AtPc
  <2>4. CASE /\ skipDepth' = 0 /\ Len(loopStack') = Len(loopStack) + 1
             /\ loopStack'[Len(loopStack) + 1].body = pc + 1
             /\ \A k \in 1 .. Len(loopStack) : loopStack'[k] = loopStack[k]
    <3>1. pc' = pc + 1
      BY <1>1, <1>3, OpenFlow, AtPc
    <3>2. ASSUME NEW k \in 1 .. Len(loopStack')
          PROVE  loopStack'[k].body = lin[pc + 1][k] + 1
      <4>1. k \in 1 .. Len(loopStack) \/ k = Len(loopStack) + 1
        BY <2>4, AtPc
      <4> QED BY <2>1, <2>2, <2>4, <4>1
    <3> QED BY <2>1, <2>4, <3>1, <3>2
  <2> QED BY <1>1, <1>3, <2>3, <2>4, OpenFlow, AtPc
<1>4. CASE Current.op = "NEXT"
  <2>1. /\ Len(lin[pc]) >= 1 /\ Len(lin[pc + 1]) = Len(lin[pc]) - 1
        /\ \A k \in 1 .. Len(lin[pc]) - 1 : lin[pc + 1][k] = lin[pc][k]
    BY <1>1, <1>4, LoopsAfter
  <2>2. skipDepth' = 0
    BY <1>1, <1>4, NextFlow
  <2>3. CASE /\ pc' = TopFrame.body /\ Len(loopStack') = Len(loopStack)
             /\ \A k \in 1 .. Len(loopStack) : loopStack'[k].body = loopStack[k].body
    <3> DEFINE n == Len(loopStack)  o == lin[pc][n]
    <3>1. n \in 1 .. Len(lin[pc]) /\ n \in 1 .. n /\ n = Len(lin[pc])
      BY <2>1, AtPc
    <3>2. pc' = o + 1
      BY <2>3, <3>1, AtPc DEF TopFrame
    <3>3. LoopsNest(pc)
      BY <1>1, AcceptedScan, CodeLen DEF Inductive, VerifiedTypeOK
    <3>4. Len(lin[o + 1]) = n /\ \A j \in 1 .. n : lin[o + 1][j] = lin[pc][j]
      BY <3>1, <3>3 DEF LoopsNest
    <3> HIDE DEF o
    <3> QED BY <2>2, <2>3, <3>1, <3>2, <3>4, AtPc
  <2>4. CASE /\ pc' = pc + 1 /\ Len(loopStack') = Len(loopStack) - 1
             /\ \A k \in 1 .. Len(loopStack) - 1 : loopStack'[k] = loopStack[k]
    <3>1. \A k \in 1 .. Len(loopStack) - 1 : k \in 1 .. Len(loopStack)
      BY AtPc
    <3> QED BY <2>1, <2>2, <2>4, <3>1, AtPc
  <2> QED BY <1>1, <1>4, <2>3, <2>4, NextFlow, AtPc
<1>5. CASE Current.op \notin LoopOpeners \cup {"NEXT"}
  <2>1. lin[pc + 1] = lin[pc] /\ loopStack' = loopStack
    BY <1>1, <1>2, <1>5, LoopsAfter DEF Follows
  <2>2. skipDepth' = 0
    BY <1>2, <1>5, AtPc DEF Follows, LoopOpeners
  <2>3. lin[pc'] = lin[pc + 1]
    <3>1. CASE Current.op \notin JumpOps
      BY <1>2, <1>5, <3>1, AtPc DEF Follows
    <3>2. CASE Current.op \in JumpOps
      <4>1. \/ pc' = pc + 1
            \/ /\ Current.imm + 1 \in 1 .. Len(targets)
               /\ pc' = targets[Current.imm + 1]
        BY <3>2, JumpFlow, AtPc, AcceptedRun
      <4>2. lin[targets[Current.imm + 1]] = lin[pc + 1]
        BY <1>1, <3>2 DEF Disciplined
      <4> QED BY <4>1, <4>2
    <3> QED BY <3>1, <3>2
  <2> QED BY <2>1, <2>2, <2>3, AtPc
<1> QED BY <1>3, <1>4, <1>5

\* The errors that an accepted code cannot end with.
LEMMA ExecuteClean ==
    ASSUME Inductive, Accepted, Execute
    PROVE  /\ status' \notin {"DecodeError", "InvalidLabel"}
           /\ Disciplined =>
                status' \notin {"NoActiveLoop", "UnmatchedLoop", "StackOverflow",
                                "SeekOutOfBounds"}
<1>1. TypeOK /\ EndsOnly
  BY ExecuteEffect DEF Effect, Inductive, VerifiedTypeOK
<1>2. /\ status = "running" /\ pc <= Len(prog.code)
  BY ExecuteStart
<1>3. /\ pc \in 1 .. Len(code) /\ Current = code[pc] /\ prog.table = targets
      /\ Current.op \in JumpOps => Current.imm + 1 \in 1 .. Len(targets)
  BY <1>2, AcceptedRun DEF Current
<1>4. status' \notin {"DecodeError", "InvalidLabel"}
  BY <1>1, <1>3, LoopsAfter DEF EndsOnly
<1>5. ASSUME Disciplined
      PROVE  status' \notin {"NoActiveLoop", "UnmatchedLoop", "StackOverflow",
                             "SeekOutOfBounds"}
  <2>1. status' # "NoActiveLoop"
    <3>1. SUFFICES ASSUME status' = "NoActiveLoop" PROVE FALSE
      OBVIOUS
    <3>2. Current.op \in {"NEXT", "LIDX", "LVAL"} /\ loopStack = <<>>
      BY <1>1, <3>1 DEF EndsOnly
    <3>3. lin[pc] # <<>> /\ Len(lin[pc]) = 0 /\ pc \in 1 .. Len(code) + 1
      BY <1>3, <1>5, <3>2, AtPc, LoopsAfter, CodeLen DEF Inductive, VerifiedTypeOK
    <3>4. Len(lin[pc]) >= 1
      BY <3>3, AcceptedScan
    <3> QED BY <3>3, <3>4
  <2>2. status' # "StackOverflow"
    <3>1. SUFFICES ASSUME status' = "StackOverflow" PROVE FALSE
      OBVIOUS
    <3>2. /\ Len(stack) >= StackLimit /\ Current.op # "SCLR"
          /\ StackDelta(Current.op) = 1
      BY <1>1, <3>1 DEF EndsOnly
    <3>3. din[pc + 1] = Len(stack) + 1 /\ Len(stack) \in Nat
      BY <1>3, <1>5, <3>2, AtPc, AcceptedRun DEF DepthFollows
    <3>4. din[pc + 1] \in 0 .. DepthLimit
      <4>1. pc + 1 \in 1 .. Len(din)
        BY <1>2, <1>3, AcceptedRun
      <4> QED BY <4>1, ElementOfSeq DEF Inductive, VerifiedTypeOK, VerifierTypeOK
    <3>5. DepthLimit \in Nat /\ DepthLimit <= StackLimit /\ StackLimit \in Nat
      BY VerifierAssumption, VerifiedAssumption, VmAssumption
    <3> QED BY <3>2, <3>3, <3>4, <3>5
  <2>3. status' # "SeekOutOfBounds"
    <3>1. SUFFICES ASSUME status' = "SeekOutOfBounds" PROVE FALSE
      OBVIOUS
    <3> DEFINE n == Len(loopStack)
    <3>2. loopStack # <<>> /\ loopStack[n].body > Len(code) + 1
      BY <1>1, <1>2, <3>1, AcceptedRun DEF EndsOnly, TopFrame
    <3>3. n \in Nat /\ n = Len(lin[pc]) /\ n \in 1 .. n
      BY <1>5, <3>2, AtPc
    <3>4. loopStack[n].body = lin[pc][n] + 1
      BY <1>5, <3>3, AtPc
    <3>5. Len(code) \in Nat /\ pc \in 1 .. Len(code) + 1
      BY <1>3, CodeLen DEF Inductive, VerifiedTypeOK
    <3>6. lin[pc] \in Seq(1 .. Len(code))
      BY <3>5, AcceptedScan
    <3> HIDE DEF n
    <3>7. lin[pc][n] \in 1 .. Len(code)
      BY <3>3, <3>6, ElementOfSeq
    <3> QED BY <3>2, <3>4, <3>5, <3>7
  <2> QED BY <1>1, <2>1, <2>2, <2>3 DEF EndsOnly
<1> QED BY <1>4, <1>5

--------------------------------------------------------------------------
(* One instruction of the scan of an empty loop.                          *)

LEMMA SkipSound ==
    ASSUME Inductive, Accepted, SkipScan
    PROVE  /\ status' # "DecodeError"
           /\ Disciplined =>
                /\ status' = "running" /\ skipDepth' \in Nat /\ pc' = pc + 1
                /\ Len(lin[pc + 1]) = Len(loopStack) + skipDepth'
                /\ \A k \in 1 .. Len(loopStack) :
                      loopStack[k].body = lin[pc + 1][k] + 1
                /\ skipDepth' > 0 =>
                      Len(stack) = din[lin[pc + 1][Len(loopStack) + 1] + 1]
                /\ skipDepth' = 0 => Len(stack) = din[pc + 1]
<1>1. /\ status = "running" /\ skipDepth > 0 /\ skipDepth \in Nat
      /\ pc \in 1 .. Len(code) + 1 /\ Len(code) \in Nat /\ Len(loopStack) \in Nat
      /\ prog.code = code
  BY AcceptedRun, LenProperties
     DEF SkipScan, Inductive, VerifiedTypeOK, TypeOK, ControlOK, LoopsOK
<1>2. CASE pc > Len(code)
  <2>1. status' = "UnmatchedLoop"
    BY <1>1, <1>2 DEF SkipScan, Fault
  <2>2. ~Disciplined
    <3>1. SUFFICES ASSUME Disciplined PROVE FALSE
      OBVIOUS
    <3>2. Len(lin[pc]) = Len(loopStack) + skipDepth
      BY <1>1, <3>1 DEF Inductive, RunInv, SkipFollows
    <3>3. pc = Len(code) + 1
      BY <1>1, <1>2
    <3>4. lin[pc] = <<>> /\ Len(<<>>) = 0
      BY <1>1, <3>3, AcceptedRun, EmptySeq
    <3> QED BY <1>1, <3>2, <3>4
  <2> QED BY <2>1, <2>2
<1>3. CASE pc <= Len(code)
  <2>1. pc \in 1 .. Len(code) /\ Current = code[pc]
    BY <1>1, <1>3 DEF Current
  <2>2. /\ status' = "running" /\ pc' = pc + 1
        /\ skipDepth' = DepthAfter(skipDepth, code[pc].op)
    BY <1>1, <1>3, <2>1, LoopsAfter, OnePlace DEF SkipScan, Behind
  <2>3. SUFFICES ASSUME Disciplined
                 PROVE  /\ skipDepth' \in Nat
                        /\ Len(lin[pc + 1]) = Len(loopStack) + skipDepth'
                        /\ \A k \in 1 .. Len(loopStack) :
                              loopStack[k].body = lin[pc + 1][k] + 1
                        /\ skipDepth' > 0 =>
                              Len(stack) = din[lin[pc + 1][Len(loopStack) + 1] + 1]
                        /\ skipDepth' = 0 => Len(stack) = din[pc + 1]
    BY <2>2
  <2>4. /\ Len(lin[pc]) = Len(loopStack) + skipDepth
        /\ \A k \in 1 .. Len(loopStack) : loopStack[k].body = lin[pc][k] + 1
        /\ Len(stack) = din[lin[pc][Len(loopStack) + 1] + 1]
    BY <1>1, <2>3 DEF Inductive, RunInv, SkipFollows
  <2> DEFINE n == Len(loopStack)
  <2>5. n \in Nat /\ Len(lin[pc]) = n + skipDepth /\ n + 1 \in 1 .. Len(lin[pc])
    BY <1>1, <2>4
  <2>6. CASE code[pc].op \in LoopOpeners
    <3>1. skipDepth' = skipDepth + 1
      BY <2>2, <2>6 DEF DepthAfter
    <3>2. /\ Len(lin[pc + 1]) = Len(lin[pc]) + 1
          /\ \A k \in 1 .. Len(lin[pc]) : lin[pc + 1][k] = lin[pc][k]
      BY <2>1, <2>6, LoopsAfter
    <3> HIDE DEF n
    <3>3. \A k \in 1 .. n : k \in 1 .. Len(lin[pc])
      BY <1>1, <2>5
    <3>4. skipDepth' \in Nat /\ skipDepth' # 0 /\ Len(lin[pc + 1]) = n + skipDepth'
      BY <1>1, <2>5, <3>1, <3>2
    <3>5. lin[pc + 1][n + 1] = lin[pc][n + 1]
      BY <2>5, <3>2
    <3>6. \A k \in 1 .. n : lin[pc + 1][k] = lin[pc][k]
      BY <3>2, <3>3
    <3> QED BY <2>4, <3>4, <3>5, <3>6 DEF n
  <2>7. CASE code[pc].op = "NEXT"
    <3>1. skipDepth' = skipDepth - 1
      BY <2>2, <2>7 DEF DepthAfter, LoopOpeners
    <3>2. /\ Len(lin[pc + 1]) = Len(lin[pc]) - 1
          /\ \A k \in 1 .. Len(lin[pc]) - 1 : lin[pc + 1][k] = lin[pc][k]
      BY <2>1, <2>7, LoopsAfter
    <3>3. \A k \in 1 .. n : k \in 1 .. Len(lin[pc]) - 1
      BY <1>1, <2>5
    <3>4. skipDepth' > 0 => n + 1 \in 1 .. Len(lin[pc]) - 1
      BY <1>1, <2>5, <3>1
    <3>5. ASSUME skipDepth' = 0 PROVE Len(stack) = din[pc + 1]
      <4>1. Len(lin[pc]) = n + 1
        BY <1>1, <2>5, <3>1, <3>5
      <4>2. din[pc] = din[lin[pc][n + 1] + 1] /\ DepthFollows(pc)
        BY <1>1, <2>1, <2>7, <4>1, AcceptedRun DEF DepthFollows
      <4>3. StackDelta("NEXT") = 0 /\ "NEXT" # "SCLR"
        BY DeltaOf
      <4>4. din[pc] \in Int
        <5>1. Len(stack) \in Nat
          BY LenProperties DEF Inductive, VerifiedTypeOK, TypeOK, StackOK
        <5> QED BY <2>4, <4>2, <5>1
      <4> QED BY <2>4, <2>7, <4>2, <4>3, <4>4 DEF DepthFollows
    <3>6. skipDepth' \in Nat /\ Len(lin[pc + 1]) = n + skipDepth'
      BY <1>1, <2>5, <3>1, <3>2
    <3> QED BY <2>4, <3>2, <3>3, <3>4, <3>5, <3>6
  <2>8. CASE code[pc].op \notin LoopOpeners \cup {"NEXT"}
    <3>1. skipDepth' = skipDepth /\ lin[pc + 1] = lin[pc]
      BY <2>1, <2>2, <2>8, LoopsAfter DEF DepthAfter
    <3> QED BY <1>1, <2>4, <3>1
  <2> QED BY <2>6, <2>7, <2>8
<1> QED BY <1>1, <1>2, <1>3

--------------------------------------------------------------------------
(* One instruction of straight-line code: the registers.                  *)

\* The kind of value RegVal's constructors make.
LEMMA Tags ==
    /\ Unset.tag = "Unset"
    /\ \A i : IntVal(i).tag = "Int"
    /\ \A s : VecInt(s).tag = "VecInt"
    /\ \A s : VecXqmx(s).tag = "VecXqmx"
BY DEF Unset, IntVal, VecInt, VecXqmx

LEMMA WritesOf ==
    ASSUME NEW t, NEW i
    PROVE  /\ i.op = "STOW" => Writes(t, i) = "Int"
           /\ i.op = "DROP" => Writes(t, i) = "Unset"
           /\ i.op = "INPUT" => Writes(t, i) = "Any"
           /\ i.op \in {"VEC", "VECI"} => Writes(t, i) = "VecInt"
           /\ i.op = "VECX" => Writes(t, i) = "VecXqmx"
           /\ i.op \in ExecOps \ {"STOW", "LIDX", "DROP", "INPUT", "LVAL", "VEC",
                                  "VECI", "VECX"}
                 => Writes(t, i) = t[i.r1]
<1>1. i.op = "STOW" => Writes(t, i) = "Int"
  BY DEF Writes, ModelAllocators, SampleAllocators
<1>2. i.op = "DROP" => Writes(t, i) = "Unset"
  BY DEF Writes, ModelAllocators, SampleAllocators
<1>3. i.op = "INPUT" => Writes(t, i) = "Any"
  BY DEF Writes, ModelAllocators, SampleAllocators
<1>4. i.op \in {"VEC", "VECI"} => Writes(t, i) = "VecInt"
  BY DEF Writes, ModelAllocators, SampleAllocators
<1>5. i.op = "VECX" => Writes(t, i) = "VecXqmx"
  BY DEF Writes, ModelAllocators, SampleAllocators
<1>6. ASSUME i.op \in ExecOps \ {"STOW", "LIDX", "DROP", "INPUT", "LVAL", "VEC",
                                 "VECI", "VECX"}
      PROVE  Writes(t, i) = t[i.r1]
  <2>1. /\ i.op \notin {"STOW", "LIDX"} /\ i.op # "DROP"
        /\ i.op \notin {"INPUT", "LVAL"} /\ i.op \notin {"VEC", "VECI"}
        /\ i.op # "VECX"
    BY <1>6
  <2>2. i.op \notin ModelAllocators /\ i.op \notin SampleAllocators
    BY <1>6 DEF ExecOps, ModelAllocators, SampleAllocators, StackOps,
       RegisterOps, ControlOps, JumpOps, LoopOpeners, UnaryOps, BinaryOps,
       VecOps, IndexOps
  <2> QED BY <2>1, <2>2, Zenon DEF Writes
<1> QED BY <1>1, <1>2, <1>3, <1>4, <1>5, <1>6

\* Every instruction but those that write a register leaves the types of the
\* values alone; those write a value of the type the verifier writes.
LEMMA RegisterTypesFollow ==
    ASSUME TypeOK, Execute, status' = "running", NEW t \in [Reg -> RegTypes],
           \A r \in Reg : t[r] \in {regs[r].tag, "Any"},
           Current.op \notin {"LIDX", "LVAL"}
    PROVE  \A r \in Reg : [t EXCEPT ![Current.r1] = Writes(t, Current)][r]
                             \in {regs'[r].tag, "Any"}
<1> DEFINE a == Current.r1
           u == [t EXCEPT ![a] = Writes(t, Current)]
<1>1. /\ Current \in VmInstr /\ Current.op \in ExecOps /\ a \in Reg
      /\ Current.r2 \in Reg /\ regs \in [Reg -> RegVal]
  <2>1. Current \in VmInstr /\ Current.op \in ExecOps
    BY ExecuteStart, Fetched DEF TypeOK
  <2> QED BY <2>1 DEF VmInstr, TypeOK, RegsOK
<1>2. /\ u[a] = Writes(t, Current)
      /\ \A r \in Reg : r # a => u[r] = t[r]
  BY <1>1
<1>3. CASE Current.op = "STOW"
  <2>1. \E x : regs' = [regs EXCEPT ![a] = IntVal(x)]
    BY <1>3, Dispatch DEF ExecStow
  <2> QED BY <1>1, <1>2, <1>3, <2>1, WritesOf, Tags
<1>4. CASE Current.op = "DROP"
  <2>1. regs' = [regs EXCEPT ![a] = Unset]
    BY <1>4, Dispatch DEF ExecDrop
  <2> QED BY <1>1, <1>2, <1>4, <2>1, WritesOf, Tags
<1>5. CASE Current.op = "INPUT"
  <2>1. \E v : regs' = [regs EXCEPT ![a] = v]
    BY <1>5, Dispatch DEF ExecInput, Fault
  <2> QED BY <1>1, <1>2, <1>5, <2>1, WritesOf
<1>6. CASE Current.op \in {"VEC", "VECI", "VECX"}
  <2>1. regs' = [regs EXCEPT ![a] =
                   IF Current.op = "VECX" THEN VecXqmx(<<>>) ELSE VecInt(<<>>)]
    BY <1>6, Dispatch DEF ExecVecNew
  <2> QED BY <1>1, <1>2, <1>6, <2>1, WritesOf, Tags
<1>7. CASE Current.op \notin {"STOW", "DROP", "INPUT", "VEC", "VECI", "VECX"}
  <2>1. Writes(t, Current) = t[a]
    BY <1>1, <1>7, WritesOf
  <2>2. \A r \in Reg : u[r] = t[r]
    BY <1>1, <1>2, <2>1
  <2>3. \A r \in Reg : regs'[r].tag = regs[r].tag
    <3>1. CASE Current.op = "VECPUSH"
      <4>1. /\ regs[a].tag = "VecInt"
            /\ \E s : regs' = [regs EXCEPT ![a] = VecInt(s)]
        BY <3>1, Dispatch DEF ExecVecPush, Fault
      <4> QED BY <1>1, <4>1, Tags
    <3>2. CASE Current.op = "VECSET"
      <4>1. /\ regs[a].tag = "VecInt"
            /\ \E s : regs' = [regs EXCEPT ![a] = VecInt(s)]
        BY <3>2, Dispatch DEF ExecVecSet, Fault
      <4> QED BY <1>1, <4>1, Tags
    <3>3. CASE Current.op = "SLACK"
      <4> DEFINE bits == BitLen(Operand(1))
                 fit == IF Overflows(Operand(2) + bits - 1)
                        THEN MaxWord - Operand(2) + 1 ELSE bits
                 s == regs[a].ints
                        \o [i \in 1 .. fit |-> Wrap(Operand(2) + i - 1)]
                 w == [regs EXCEPT ![a] = VecInt(s)]
                 z == w[Current.r2].ints \o [i \in 1 .. bits |-> 2 ^ (i - 1)]
      <4>1. ExecSlack
        BY <3>3, Dispatch
      <4>2. \/ regs' = regs
            \/ /\ regs[a].tag = "VecInt" /\ w[Current.r2].tag = "VecInt"
               /\ regs' = [w EXCEPT ![Current.r2] = VecInt(z)]
        BY <4>1 DEF ExecSlack, Fault
      <4> HIDE DEF s, z
      <4>3. CASE regs' # regs
        <5>1. \A r \in Reg : w[r].tag = regs[r].tag
          BY <1>1, <4>2, <4>3, Tags
        <5>2. w \in [Reg -> RegVal \cup {VecInt(s)}]
          BY <1>1
        <5> HIDE DEF w
        <5>3. \A r \in Reg : regs'[r].tag = w[r].tag
          BY <1>1, <4>2, <4>3, <5>2, Tags
        <5> QED BY <5>1, <5>3
      <4> QED BY <4>3
    <3>4. CASE Current.op \notin {"VECPUSH", "VECSET", "SLACK"}
      BY <1>7, <3>4, Dispatch
    <3> QED BY <3>1, <3>2, <3>3, <3>4
  <2> QED BY <2>2, <2>3
<1> QED BY <1>3, <1>4, <1>5, <1>6, <1>7

LEMMA ExecuteStraight ==
    ASSUME Inductive, Accepted, StraightLine, Execute, status' = "running"
    PROVE  /\ loopStack' = <<>> /\ skipDepth' = 0
           /\ \A r \in Reg : tin[pc'][r] \in {regs'[r].tag, "Any"}
<1>1. /\ TypeOK /\ status = "running" /\ skipDepth = 0 /\ pc <= Len(prog.code)
  BY ExecuteStart, Dispatch DEF Inductive, VerifiedTypeOK
<1>2. pc \in 1 .. Len(code) /\ Current = code[pc]
  BY <1>1, AcceptedRun DEF Current
<1>3. loopStack = <<>> /\ \A r \in Reg : tin[pc][r] \in {regs[r].tag, "Any"}
  BY <1>1 DEF Inductive, RunInv, StraightRun, TypesSound
<1>4. Current.op \notin JumpOps \cup LoopOpeners
  BY <1>2 DEF StraightLine
<1>5. Current.op \notin {"NEXT", "LIDX", "LVAL"}
  BY <1>3, Dispatch DEF ExecNext, ExecLidx, ExecLVal, Fault
<1>6. Follows
  BY <1>1, ExecuteEffect DEF Effect
<1>7. loopStack' = <<>> /\ skipDepth' = 0 /\ pc' = pc + 1
  BY <1>1, <1>2, <1>3, <1>4, <1>5, <1>6, OnePlace DEF Follows, LoopOpeners, Behind
<1>8. tin[pc] \in [Reg -> RegTypes]
  <2>1. pc \in 1 .. Len(tin)
    BY <1>1, <1>2, AcceptedRun
  <2> QED BY <2>1, ElementOfSeq DEF Inductive, VerifiedTypeOK, VerifierTypeOK
<1>9. tin[pc + 1] = [tin[pc] EXCEPT ![Current.r1] = Writes(tin[pc], Current)]
  BY <1>1, <1>2, AcceptedRun DEF TypesFollow
<1>10. \A r \in Reg : tin[pc + 1][r] \in {regs'[r].tag, "Any"}
  BY <1>1, <1>3, <1>5, <1>8, <1>9, RegisterTypesFollow
<1> QED BY <1>7, <1>10

--------------------------------------------------------------------------
(* The steps of the composition.                                          *)

Flow == DepthSound /\ LoopsSound /\ SkipFollows /\ StraightRun /\ TypesSound

\* Nothing but CleanInv speaks of a VM that does not run and met no error.
LEMMA NotRunning ==
    /\ status # "running" => Flow
    /\ status = "idle" => AcceptedRunsClean
    /\ RunInv <=> CleanInv /\ AcceptedRunsClean /\ Flow
BY DEF Flow, DepthSound, LoopsSound, SkipFollows, StraightRun, TypesSound,
       AtInstruction, AcceptedRunsClean, RunInv

LEMMA NotRunningNext ==
    /\ status' # "running" => Flow'
    /\ status' = "idle" => AcceptedRunsClean'
    /\ RunInv' <=> CleanInv' /\ AcceptedRunsClean' /\ Flow'
BY DEF Flow, DepthSound, LoopsSound, SkipFollows, StraightRun, TypesSound,
       AtInstruction, AcceptedRunsClean, RunInv

\* What the verifier says of the code stays while the verifier rests.
LEMMA VerdictKept ==
    ASSUME UNCHANGED verifierVars
    PROVE  /\ Accepted' <=> Accepted
           /\ Disciplined' <=> Disciplined
           /\ StraightLine' <=> StraightLine
           /\ Loaded' = Loaded
           /\ UNCHANGED <<code, phase, targets, lin, tin, din>>
<1>1. UNCHANGED <<code, phase, targets, lin, tin, din>>
  BY DEF verifierVars, scanVars, typeVars, depthVars
<1> QED BY <1>1 DEF Accepted, Disciplined, StraightLine, Loaded

\* Program::new of code that was scanned is a program the VM can run.
LEMMA LoadedWellFormed ==
    ASSUME VerifierTypeOK, code \in Codes PROVE WellFormed(Loaded)
<1>1. Loaded.code = code /\ Loaded.table = targets
  BY DEF Loaded
<1>2. code \in Seq([op : ExecOps, imm : Word, r1 : Reg, r2 : Reg, r3 : Reg,
                   width : {1}])
  BY VerifiedAssumption
<1>3. Len(code) \in Nat /\ Len(targets) \in Nat
  BY CodeLen
<1>4. \A l \in 1 .. Len(targets) : targets[l] \in 1 .. Len(code)
  BY ElementOfSeq DEF VerifierTypeOK
<1>5. targets \in Seq(Nat \ {0})
  <2>1. targets \in [1 .. Len(targets) -> 1 .. Len(code)]
    BY LenProperties DEF VerifierTypeOK
  <2>2. \A l \in 1 .. Len(targets) : targets[l] \in Nat \ {0}
    BY <1>3, <1>4
  <2>3. targets \in [1 .. Len(targets) -> Nat \ {0}]
    BY <2>1, <2>2
  <2> QED BY <1>3, <2>3, SeqDef
<1>6. Loaded \in Program
  <2>1. [op : ExecOps, imm : Word, r1 : Reg, r2 : Reg, r3 : Reg, width : {1}]
          \subseteq VmInstr
    BY DEF VmInstr, ExecOps, Ops
  <2>2. \A k \in 1 .. Len(code) : code[k] \in VmInstr
    BY <1>2, <2>1, ElementOfSeq
  <2>3. code \in [1 .. Len(code) -> VmInstr]
    BY <1>2, <2>2, LenProperties
  <2>4. code \in Seq(VmInstr)
    BY <1>3, <2>3, SeqDef
  <2> QED BY <1>5, <2>4 DEF Loaded, Program, VmInstr
<1>7. \A k \in 1 .. Len(code) : k + code[k].width <= Len(code) + 1
  <2> TAKE k \in 1 .. Len(code)
  <2>1. code[k] \in [op : ExecOps, imm : Word, r1 : Reg, r2 : Reg, r3 : Reg,
                     width : {1}]
    BY <1>2, ElementOfSeq
  <2>2. code[k].width = 1
    BY <2>1
  <2> QED BY <1>3, <2>2
<1> QED BY <1>1, <1>3, <1>4, <1>6, <1>7 DEF WellFormed

\* A verifier step is taken with the VM still new, or reset.
LEMMA VerifySound == ASSUME Inductive, Verify PROVE Inductive'
<1>1. VerifierInv'
  BY VerifierInvStep DEF Inductive, VerifiedTypeOK, VerifierInv, Verify
<1>2. phase \notin {"accepted", "rejected"} /\ code' = code
  BY DEF Verify, VerifierStep, ScanBad, ScanInstr, ScanEnd, CheckTypes,
         RejectTypes, TypesEnd, CheckDepth, RejectDepth, Accept, Walking,
         WalkOver, Onwards, Reject, Enter
<1>3. clean = TRUE /\ clean' = clean /\ UNCHANGED vmVars
  BY <1>2 DEF Verify, Inductive, RunInv, CleanInv, VerifiedTypeOK
<1>4. UNCHANGED <<prog, pc, status, skipDepth, stack, regs, loopStack, calldata,
                  outputs, stepLimit, steps>>
  BY <1>3 DEF vmVars
<1>5. TypeOK'
  BY <1>4 DEF Inductive, VerifiedTypeOK, TypeOK, ControlOK, WellFormed, StackOK,
              RegsOK, LoopsOK, SlotsOK
<1>6. CleanInv' /\ status' = "idle"
  BY <1>2, <1>3, <1>4 DEF Inductive, RunInv, CleanInv
<1>7. RunInv'
  BY <1>6, NotRunningNext
<1> QED BY <1>1, <1>3, <1>5, <1>7 DEF Inductive, VerifiedTypeOK, VerifierInv

\* A run of an accepted program starts with no values, no loops and no types.
LEMMA RunSound == ASSUME Inductive, RunLoaded PROVE Inductive'
<1>1. /\ clean = TRUE /\ clean' = FALSE /\ Run(Loaded) /\ UNCHANGED verifierVars
      /\ phase \in {"accepted", "rejected"}
  BY DEF RunLoaded, Inductive, VerifiedTypeOK
<1>2. VerifierInv'
  BY <1>1, VerifierInvKept DEF Inductive, VerifiedTypeOK, VerifierInv
<1>3. TypeOK'
  BY <1>1, LoadedWellFormed, RunOK DEF Inductive, VerifiedTypeOK, RunInv, CleanInv
<1>4. /\ prog' = Loaded /\ pc' = 1 /\ skipDepth' = 0 /\ status' = "running"
      /\ stack' = <<>> /\ loopStack' = <<>> /\ regs' = [r \in Reg |-> Unset]
  BY <1>1 DEF Run, Inductive, RunInv, CleanInv
<1>5. lin'[1] = <<>> /\ din'[1] = 0 /\ tin'[1] = [r \in Reg |-> "Unset"]
  BY <1>2 DEF VerifierInv, WalkInv, ScanInv, TypesInv, DepthInv
<1>6. CleanInv'
  BY <1>1, <1>4, VerdictKept DEF Inductive, RunInv, CleanInv
<1>7. AcceptedRunsClean'
  BY <1>4 DEF AcceptedRunsClean
<1>8. Len(stack') = 0 /\ Len(loopStack') = 0 /\ Len(lin'[1]) = 0
  BY <1>4, <1>5, EmptySeq
<1>9. DepthSound' /\ LoopsSound' /\ SkipFollows' /\ StraightRun'
  BY <1>4, <1>5, <1>8 DEF DepthSound, LoopsSound, SkipFollows, StraightRun
<1>10. TypesSound'
  BY <1>4, <1>5, Tags DEF TypesSound
<1> QED BY <1>1, <1>2, <1>3, <1>6, <1>7, <1>9, <1>10
        DEF Inductive, VerifiedTypeOK, VerifierInv, RunInv

\* The errors a step of a run ends in.
LEMMA RunningClean ==
    ASSUME Inductive, Running PROVE AcceptedRunsClean'
<1>1. (Accepted' <=> Accepted) /\ (Disciplined' <=> Disciplined)
  BY VerdictKept DEF Running
<1>2. CASE Execute
  BY <1>1, <1>2, ExecuteClean DEF AcceptedRunsClean
<1>3. CASE StepLimitHit \/ EndOfStream
  <2>1. status' \in {"StepLimitExceeded", "ok"}
    BY <1>3 DEF StepLimitHit, EndOfStream, Fault
  <2> QED BY <2>1 DEF AcceptedRunsClean
<1>4. CASE SkipScan
  <2>1. status' \in {"running", "UnmatchedLoop", "DecodeError"}
    BY <1>4 DEF SkipScan, Fault
  <2> QED BY <1>1, <1>4, <2>1, SkipSound DEF AcceptedRunsClean
<1> QED BY <1>2, <1>3, <1>4 DEF Running, VmStep

\* The stack and the loops after a step that runs on.
LEMMA RunningFlow ==
    ASSUME Inductive, Running, status' = "running" PROVE Flow'
<1>1. /\ Accepted' <=> Accepted
      /\ Disciplined' <=> Disciplined
      /\ StraightLine' <=> StraightLine
      /\ UNCHANGED <<lin, tin, din>>
  BY VerdictKept DEF Running
<1>2. Execute \/ SkipScan
  BY DEF Running, VmStep, StepLimitHit, EndOfStream, Fault
<1>3. CASE ~Accepted
  BY <1>1, <1>3 DEF Flow, AtInstruction, DepthSound, LoopsSound, SkipFollows,
                    StraightRun, TypesSound
<1>4. CASE Accepted /\ Execute
  <2>1. DepthSound'
    BY <1>1, <1>4, ExecuteDepth DEF DepthSound, AtInstruction
  <2>2. LoopsSound'
    BY <1>1, <1>4, ExecuteLoops DEF LoopsSound, AtInstruction
  <2>3. SkipFollows'
    <3>1. SUFFICES ASSUME Disciplined, skipDepth' > 0
                   PROVE  /\ Len(lin[pc']) = Len(loopStack') + skipDepth'
                          /\ \A k \in 1 .. Len(loopStack') :
                                loopStack'[k].body = lin[pc'][k] + 1
                          /\ Len(stack') = din[lin[pc'][Len(loopStack') + 1] + 1]
      BY <1>1 DEF SkipFollows
    <3>2. skipDepth' # 0
      BY <3>1
    <3> QED BY <1>4, <3>1, <3>2, ExecuteLoops, ExecuteDepth
  <2>4. StraightRun' /\ TypesSound'
    BY <1>1, <1>4, ExecuteStraight DEF StraightRun, TypesSound
  <2> QED BY <2>1, <2>2, <2>3, <2>4 DEF Flow
<1>5. CASE Accepted /\ SkipScan
  <2>1. UNCHANGED <<stack, loopStack>> /\ status = "running" /\ skipDepth > 0
    BY <1>5 DEF SkipScan
  <2>2. DepthSound'
    BY <1>1, <1>5, <2>1, SkipSound DEF DepthSound, AtInstruction
  <2>3. LoopsSound'
    <3>1. SUFFICES ASSUME Disciplined, skipDepth' = 0
                   PROVE  /\ Len(loopStack) = Len(lin[pc'])
                          /\ \A k \in 1 .. Len(loopStack) :
                                loopStack[k].body = lin[pc'][k] + 1
      BY <1>1, <2>1 DEF LoopsSound, AtInstruction
    <3>2. Len(loopStack) \in Nat
      BY LenProperties DEF Inductive, VerifiedTypeOK, TypeOK, LoopsOK
    <3> QED BY <1>5, <3>1, <3>2, SkipSound
  <2>4. SkipFollows'
    BY <1>1, <1>5, <2>1, SkipSound DEF SkipFollows
  <2>5. ~StraightLine
    <3>1. StraightLine => skipDepth = 0
      BY <1>5, <2>1 DEF Inductive, RunInv, StraightRun
    <3> QED BY <2>1, <3>1
  <2> QED BY <1>1, <2>2, <2>3, <2>4, <2>5 DEF Flow, StraightRun, TypesSound
<1> QED BY <1>2, <1>3, <1>4, <1>5

LEMMA RunningSound == ASSUME Inductive, Running PROVE Inductive'
<1>1. VmStep /\ UNCHANGED verifierVars /\ clean' = clean
  BY DEF Running
<1>2. VerifierInv'
  BY <1>1, VerifierInvKept DEF Inductive, VerifiedTypeOK, VerifierInv
<1>3. TypeOK'
  BY <1>1, ExecuteOK, LoopEndsOK DEF VmStep, Inductive, VerifiedTypeOK
<1>4. status = "running" /\ prog' = prog
  BY <1>1, ExecuteStart DEF VmStep, StepLimitHit, EndOfStream, SkipScan, hostVars
<1>5. CleanInv'
  <2>1. clean = FALSE
    BY <1>4 DEF Inductive, VerifiedTypeOK, RunInv, CleanInv
  <2> QED BY <1>1, <1>4, <2>1, VerdictKept DEF Inductive, RunInv, CleanInv
<1>6. RunInv'
  BY <1>5, RunningClean, RunningFlow, NotRunningNext
<1> QED BY <1>1, <1>2, <1>3, <1>6 DEF Inductive, VerifiedTypeOK, VerifierInv

\* The host's other calls leave a VM that does not run.
LEMMA HostSound == ASSUME Inductive, ResetVm \/ Configure PROVE Inductive'
<1>1. UNCHANGED verifierVars
  BY DEF ResetVm, Configure
<1>2. VerifierInv'
  BY <1>1, VerifierInvKept DEF Inductive, VerifiedTypeOK, VerifierInv
<1>3. TypeOK'
  BY ResetOK, ConfigureOK DEF ResetVm, Configure, Inductive, VerifiedTypeOK
<1>4. /\ clean' = TRUE /\ status' = "idle" /\ stack' = <<>> /\ loopStack' = <<>>
      /\ regs' = [r \in Reg |-> Unset]
  <2>1. CASE ResetVm
    BY <2>1 DEF ResetVm, Reset
  <2>2. CASE Configure
    BY <2>2 DEF Configure, SetCalldata, SetOutputSlots, SetStepLimit, controlVars,
                Inductive, VerifiedTypeOK, RunInv, CleanInv
  <2> QED BY <2>1, <2>2
<1>5. CleanInv'
  BY <1>1, <1>4, VerdictKept DEF Inductive, RunInv, CleanInv
<1>6. RunInv'
  BY <1>4, <1>5, NotRunningNext
<1> QED BY <1>2, <1>3, <1>4, <1>6 DEF Inductive, VerifiedTypeOK, VerifierInv

LEMMA VerifiedUnchanged == ASSUME Inductive, UNCHANGED vars PROVE Inductive'
<1>1. UNCHANGED verifierVars /\ UNCHANGED vmVars /\ clean' = clean
  BY DEF vars
<1>2. VerifierInv'
  BY <1>1, VerifierInvKept DEF Inductive, VerifiedTypeOK, VerifierInv
<1>3. UNCHANGED <<prog, pc, status, skipDepth, stack, regs, loopStack, calldata,
                  outputs, stepLimit, steps>>
  BY <1>1 DEF vmVars
<1>4. TypeOK'
  BY <1>3 DEF Inductive, VerifiedTypeOK, TypeOK, ControlOK, WellFormed, StackOK,
              RegsOK, LoopsOK, SlotsOK
<1>5. /\ UNCHANGED <<code, phase, lin, tin, din>>
      /\ Loaded' = Loaded /\ (Accepted' <=> Accepted)
      /\ (Disciplined' <=> Disciplined) /\ (StraightLine' <=> StraightLine)
  BY <1>1, VerdictKept
<1>6. CleanInv'
  BY <1>1, <1>3, <1>5 DEF Inductive, RunInv, CleanInv
<1>7. DepthSound' /\ LoopsSound' /\ SkipFollows'
  BY <1>3, <1>5 DEF Inductive, RunInv, AtInstruction, DepthSound, LoopsSound, SkipFollows
<1>8. AcceptedRunsClean' /\ StraightRun' /\ TypesSound'
  BY <1>3, <1>5 DEF Inductive, RunInv, AcceptedRunsClean, StraightRun, TypesSound
<1> QED BY <1>1, <1>2, <1>4, <1>6, <1>7, <1>8
        DEF Inductive, VerifiedTypeOK, VerifierInv, RunInv

LEMMA VerifiedInitSound == ASSUME VerifiedInit PROVE Inductive
<1>1. Init /\ VerifierInit /\ clean = TRUE
  BY DEF VerifiedInit
<1>2. TypeOK /\ VerifierInv
  BY <1>1, InitOK, VerifierInvInit
<1>3. CleanInv /\ status = "idle"
  BY <1>1 DEF Init, VerifierInit, CleanInv
<1>4. RunInv
  BY <1>3, NotRunning
<1> QED BY <1>1, <1>2, <1>4 DEF Inductive, VerifiedTypeOK, VerifierInv

--------------------------------------------------------------------------
(* The theorems.                                                          *)

\* Verification and run, whatever the code, the calldata and the limits: the
\* walks of the verifier and the run of the VM keep the invariant Inductive.  What
\* it says of the depth and the loops of a run, it says of accepted programs that
\* are Disciplined.
THEOREM VerifiedInductive == VerifiedSpec => []Inductive
<1>1. Inductive /\ [VerifiedNext]_vars => Inductive'
  BY VerifySound, RunSound, RunningSound, HostSound, VerifiedUnchanged
     DEF VerifiedNext
<1> QED BY <1>1, VerifiedInitSound, PTL DEF VerifiedSpec

\* Types of the verifier's state and of the VM's, in the composition: what
\* Program::new makes of scanned code is a program the VM's proofs cover.
THEOREM VerifiedTypeCorrect == VerifiedSpec => []VerifiedTypeOK
<1>1. Inductive => VerifiedTypeOK
  BY DEF Inductive
<1> QED BY <1>1, VerifiedInductive, PTL

\* StackEffectPhase is right about every accepted program whose branches join
\* at equal depths: the VM's stack is as deep as it computed, at every
\* instruction, in every iteration and behind every skipped loop.
THEOREM DepthsSound == VerifiedSpec => []DepthSound
<1>1. Inductive => DepthSound
  BY DEF Inductive, RunInv
<1> QED BY <1>1, VerifiedInductive, PTL

\* LoopNestingPhase is right about the same programs: the VM's frames are the
\* loops the scan had open, each going back to its own opener's body.
THEOREM LoopsSoundness == VerifiedSpec => []LoopsSound
<1>1. Inductive => LoopsSound
  BY DEF Inductive, RunInv
<1> QED BY <1>1, VerifiedInductive, PTL

\* The promise of the verifier: no accepted program meets an undecodable
\* instruction or an unknown label, and no disciplined one a NEXT without a
\* loop, a loop without its NEXT or a stack overflow.
THEOREM AcceptedRunsAreClean == VerifiedSpec => []AcceptedRunsClean
<1>1. Inductive => AcceptedRunsClean
  BY DEF Inductive, RunInv
<1> QED BY <1>1, VerifiedInductive, PTL

\* RegisterTypePhase is right about accepted code that runs in order: every
\* register holds a value of the type it computed.
THEOREM TypesSoundness == VerifiedSpec => []TypesSound
<1>1. Inductive => TypesSound
  BY DEF Inductive, RunInv
<1> QED BY <1>1, VerifiedInductive, PTL
=============================================================================
