----------------------------- MODULE MCBackends -----------------------------
(***************************************************************************)
(* Model checking of Backends: a host sets up both VMs, runs a program on  *)
(* them, and runs a second one after changing the limit or a reset.        *)
(***************************************************************************)
EXTENDS Backends

VARIABLE turn        \* what the host has done so far

Seqs(S, n) == UNION {[1 .. k -> S] : k \in 0 .. n}
Pushes(values) == [i \in 1 .. Len(values) |-> OpImm("PUSH", values[i])]
Load(code) ==
    LET targets == {k \in 1 .. Len(code) : code[k].op = "TARGET"} IN
    [code |-> code,
     table |-> [l \in 1 .. Cardinality(targets) |->
                   CHOOSE k \in targets :
                       Cardinality({j \in targets : j < k}) = l - 1]]

\* Arithmetic on every pair of a few words, the boundaries among them.
Numbers == {-8, -3, -1, 0, 1, 2, 3, 4, 7}
ArithmeticPrograms ==
    {Pushes(<<a, b>>) \o <<Op(op)>> :
        a, b \in Numbers, op \in BinaryOps \cup {"IDXTRIU", "SWAP", "POP", "SCLR"}}
      \cup {Pushes(<<a>>) \o <<Op(op)>> : a \in Numbers, op \in UnaryOps \cup {"NOP", "COPY"}}
      \cup {Pushes(<<a, b, c>>) \o <<Op("IDXGRID")>> : a, b, c \in {-3, 0, 2, 4}}
      \cup {<<Op(op)>> : op \in BinaryOps} \cup {Pushes(<<1, 2, 3>>) \o <<Op("COPY")>>}

\* Registers, slots and vectors: every three of these pieces of code.
On(values, i) == Pushes(values) \o <<i>>
Pieces ==
    {On(<<slot>>, OpReg("INPUT", r)) : slot \in {0, 1}, r \in {0, 1}}
      \cup {On(<<2>>, OpReg("INPUT", 0)), On(<<3>>, OpReg("INPUT", 0)),
             On(<<0>>, OpReg("OUTPUT", 0)), On(<<1>>, OpReg("OUTPUT", 1)),
             On(<<-1>>, OpReg("OUTPUT", 0)), On(<<5>>, OpReg("STOW", 1)),
             On(<<7>>, OpReg("VECPUSH", 0)), On(<<4>>, OpReg("VECPUSH", 1)),
             On(<<0, 6>>, OpReg("VECSET", 0)), On(<<1>>, OpReg("VECGET", 0)),
             <<OpReg("VEC", 0)>>, <<OpReg("VECI", 1)>>, <<OpReg("VECX", 1)>>,
             <<OpReg("VECLEN", 0)>>, <<OpReg("LOAD", 1)>>, <<OpReg("DROP", 0)>>,
             On(<<2, 3>>, OpRegs("SLACK", 0, 1, 0)), On(<<1, 2>>, OpRegs("SLACK", 0, 0, 0)),
             On(<<7, 2>>, OpRegs("SLACK", 1, 0, 0)), On(<<2, 0>>, OpRegs("SLACK", 0, 1, 0))}
Flat(parts) == IF Len(parts) = 2 THEN parts[1] \o parts[2] ELSE parts[1] \o parts[2] \o parts[3]
VectorPrograms == {Flat(parts) : parts \in Seqs(Pieces, 3) \ Seqs(Pieces, 1)}

\* Loops over ranges and vectors, nested, empty, skipped and left open, and
\* jumps around them and back.
Openers == {On(<<start, count>>, Op("RANGE")) : start \in {0, 6}, count \in {-1, 0, 1, 2}}
             \cup {On(<<start, end>>, OpReg("ITER", 0)) : start \in {-1, 0, 1}, end \in {0, 1, 2, 3}}
Bodies == {<<>>, <<OpReg("LVAL", 1), OpReg("LOAD", 1)>>, <<OpReg("LIDX", 1)>>,
           On(<<5>>, OpReg("VECPUSH", 0)), <<Op("HALT")>>}
Fetch == On(<<0>>, OpReg("INPUT", 0))
LoopPrograms ==
    {Fetch \o opener \o body \o <<Op("NEXT"), OpReg("LIDX", 1)>> : opener \in Openers, body \in Bodies}
      \cup {Fetch \o On(<<0, count>>, Op("RANGE")) \o opener \o body \o <<Op("NEXT")>>
              \o tail \o <<Op("NEXT")>> :
              count \in {0, 2}, opener \in Openers, body \in Bodies, tail \in {<<>>, <<OpReg("LIDX", 0)>>}}
      \cup {Fetch \o opener \o <<Op("POP")>> : opener \in Openers}
EmptyBodyPrograms ==
    {On(<<0, 2>>, Op("RANGE")) \o On(<<0, 2>>, Op("RANGE")) \o <<Op("NEXT")>> \o
        On(<<1>>, Op("POP")) \o <<Op("NEXT")>>}
JumpPrograms ==
    {<<Op("TARGET")>> \o On(<<value>>, OpImm(jump, label)) \o <<OpReg("VEC", 0)>> \o tail :
        value \in {0, 1}, jump \in JumpOps, label \in {0, 1, 2}, tail \in {<<>>, <<Op("TARGET")>>}}
      \cup {<<Op("TARGET"), OpImm("JUMP", 0)>>}
OtherPrograms == ArithmeticPrograms \cup VectorPrograms \cup LoopPrograms \cup EmptyBodyPrograms

\* After the first run: what it did to the host's vector, and a short loop.
Probes == {Fetch \o On(<<0>>, OpReg("OUTPUT", 0)),
           On(<<0, 2>>, Op("RANGE")) \o <<OpReg("LIDX", 0), Op("NEXT")>>}
\* SLACK leaves an integer beyond the word in the host's vector.
Overfull == Fetch \o On(<<2>>, OpReg("INPUT", 1)) \o On(<<7, 2>>, OpRegs("SLACK", 0, 1, 0))
Data == {<<HostVec(1), HostVec(1), List(<<>>)>>, <<IntVal(3), PyNone, List(<<1, 2>>)>>}
OneVec == <<<<3, 4>>>>

MCInit == BackendsInit /\ turn = 0

MCNext ==
    \/ Running /\ UNCHANGED turn
    \/ turn = 0 /\ turn' = 1 /\ \E d \in HostData : GiveCalldata(d)
    \/ turn = 1 /\ turn' = 2 /\ \E n \in OutputCounts : ReserveSlots(n)
    \/ /\ turn = 2 /\ turn' = 3 /\ \E n \in StepLimits : LimitSteps(n)
    \/ /\ turn \in {2, 3} /\ turn' = 4
       /\ \/ turn = 2 /\ \E p \in Programs : RunVm(p)
          \/ turn = 3 /\ \E p \in LoopPrograms \cup {Overfull} : RunVm(Load(p))
          \/ turn = 3 /\ limit # 0 /\ \E p \in JumpPrograms : RunSession(Load(p))
    \/ turn = 4 /\ turn' = 5 /\ phase = "done" /\ limit # 0 /\ LimitSteps(0)
    \/ turn = 4 /\ turn' = 6 /\ phase = "done" /\ limit # 0 /\ ResetBoth
    \/ turn = 5 /\ turn' = 6 /\ \E p \in Probes : RunVm(Load(p)) \/ RunSession(Load(p))
    \/ turn = 5 /\ turn' = 6 /\ RefuseRun

MCSpec == MCInit /\ [][MCNext]_<<allVars, turn>> /\ WF_allVars(Running)
Other == {Load(p) : p \in OtherPrograms \cup Probes \cup {Overfull}}
EmptyBodies == {Load(p) : p \in EmptyBodyPrograms}
=============================================================================
