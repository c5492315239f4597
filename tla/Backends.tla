------------------------------ MODULE Backends ------------------------------
(***************************************************************************)
(* The VM object of src/xquad/vm.py on both of its backends: a host gives  *)
(* two VMs, one on the Rust VM (XqVm, reached through src/xqffi) and one   *)
(* on the Python VM (PyVm), the same calldata, output slots and step limit *)
(* and has both run the same bytecode.                                     *)
(*                                                                         *)
(* The two runs share nothing but the host's own Vec objects, which the    *)
(* Rust backend copies before it runs and the Python backend works on: the *)
(* Rust run goes first.  An item of the calldata is an integer, a list, a  *)
(* Vec of the host (a reference) or None.                                  *)
(***************************************************************************)
EXTENDS XqVm

CONSTANTS
    HostVecs,    \* the elements of the host's Vec objects, a sequence
    HostData     \* the lists a host may give as calldata

VARIABLES
    data,        \* _calldata of both VMs
    slots,       \* _output_slots
    limit,       \* _step_limit
    vmLimit,     \* the step limit of the VM object's own Rust VM, _rust_vm
    phase,       \* "idle" | "rust" | "python" | "done"
    pyOutputs,   \* _py_outputs, _py_stack and _py_steps: what the Python
    pyStack,     \*   backend shows of its runs
    pySteps,
    program, state, heap, outcome, unportable     \* the Executor

Py == INSTANCE PyVm

pyVars == <<program, state, heap, outcome, unportable>>
shownVars == <<pyOutputs, pyStack, pySteps>>
settingVars == <<data, slots, limit, vmLimit>>
allVars == <<vmVars, settingVars, phase, shownVars, pyVars>>

List(s) == [tag |-> "List", ints |-> s]
HostVec(n) == [tag |-> "Vec", at |-> n]
PyNone == [tag |-> "None"]

\* Python's integers have no bounds.
HostItem == [tag : {"Int"}, int : Int] \cup [tag : {"List"}, ints : Seq(Int)]
              \cup [tag : {"Vec"}, at : DOMAIN HostVecs] \cup [tag : {"None"}]

\* No frame of an earlier program is left when a run starts: one place for an
\* instruction is enough.
ASSUME HostAssumption ==
    /\ HostVecs \in Seq(Seq(Int)) /\ HostData \subseteq Seq(HostItem)
    /\ \A p \in Programs : OnePlaceEach(p.code)

--------------------------------------------------------------------------
\* _prepare_calldata_rust and py_to_regval: every item is copied.
ToRegVal(item) ==
    CASE item.tag = "Int"  -> IntVal(item.int)
      [] item.tag = "List" -> VecInt(item.ints)
      [] item.tag = "Vec"  -> VecInt(heap[item.at].elements)
      [] OTHER             -> Unset

\* _prepare_calldata_python: a list becomes a new Vec, the host's Vec objects
\* are handed over themselves.  Behind the host's there is a place for a new one
\* per item.
Kind(s) == IF s = <<>> THEN "unset" ELSE "int"
HostHeap == SubSeq(heap, 1, Len(HostVecs))
NewVecOf(item) ==
    LET ints == IF item.tag = "List" THEN item.ints ELSE <<>>
    IN  Py!NewVec(Kind(ints), ints)
PreparedHeap ==
    [n \in DOMAIN HostHeap |-> [HostHeap[n] EXCEPT !.changed = FALSE]]
      \o [k \in DOMAIN data |-> NewVecOf(data[k])]
PreparedInput ==
    [k \in DOMAIN data |->
        IF data[k].tag = "List" THEN Py!Ref(Len(HostVecs) + k) ELSE data[k]]

--------------------------------------------------------------------------
\* set_calldata of the bindings takes words.  What is larger it refuses with a
\* TypeError, also in a vector of the host's where a run of the Python VM put it.
Convertible == \A k \in DOMAIN data : ToRegVal(data[k]) \in RegVal

\* _run_rust up to the run itself, in the VM object's Rust VM or in a new one:
\* reset, set_calldata, set_output_slots, and the step limit newLimit.
StartRust(p, newLimit) ==
    /\ phase \in {"idle", "done"} /\ Convertible
    /\ phase' = "rust"
    /\ prog' = p /\ pc' = 1 /\ skipDepth' = 0 /\ status' = "running" /\ steps' = 0
    /\ stack' = <<>> /\ regs' = [r \in Reg |-> Unset] /\ loopStack' = <<>>
    /\ calldata' = [k \in DOMAIN data |-> ToRegVal(data[k])]
    /\ outputs' = [k \in 1 .. slots |-> Unset]
    /\ stepLimit' = newLimit
    /\ UNCHANGED <<data, slots, limit, shownVars, pyVars>>

\* VM.run_bytecode: only a limit other than zero is passed on, and the Rust VM
\* keeps the one it has.
RunVm(p) ==
    /\ vmLimit' = IF limit # 0 THEN limit ELSE vmLimit
    /\ StartRust(p, vmLimit')

\* Session.run and xq run: a new VM, with its default where the limit is zero.
\* (The VM of the last run is the one whose state vmVars are.)
RunSession(p) ==
    /\ StartRust(p, IF limit # 0 THEN limit ELSE DefaultStepLimit)
    /\ UNCHANGED vmLimit

\* VM.run_bytecode with calldata that is refused: the Rust VM was reset.
RefuseRun ==
    /\ phase \in {"idle", "done"} /\ ~Convertible
    /\ phase' = "idle" /\ Reset
    /\ UNCHANGED <<settingVars, shownVars, pyVars>>

RustStep == phase = "rust" /\ VmStep /\ UNCHANGED <<settingVars, phase, shownVars, pyVars>>

\* _execute_python: a new Executor.
StartPython ==
    /\ phase = "rust" /\ status # "running"
    /\ phase' = "python"
    /\ program' = [code |-> prog.code, table |-> prog.table, limit |-> limit]
    /\ state' = Py!Fresh(PreparedInput) /\ heap' = PreparedHeap
    /\ outcome' = "running" /\ unportable' = {}
    /\ UNCHANGED <<vmVars, settingVars, shownVars>>

PythonStep ==
    /\ phase = "python" /\ Py!PyStep
    /\ UNCHANGED <<vmVars, settingVars, phase, shownVars>>

\* An exception leaves what the VM shows of its last run.
ShowPython ==
    /\ phase = "python" /\ outcome # "running"
    /\ phase' = "done"
    /\ IF outcome = "ok"
       THEN pyOutputs' = state.output /\ pyStack' = state.stack /\ pySteps' = state.steps
       ELSE UNCHANGED shownVars
    /\ UNCHANGED <<vmVars, settingVars, pyVars>>

--------------------------------------------------------------------------
(* The host's other calls, on both VMs.                                   *)

BetweenBoth == phase \in {"idle", "done"} /\ phase' = "idle"

GiveCalldata(d) ==
    /\ BetweenBoth /\ data' = d
    /\ UNCHANGED <<vmVars, slots, limit, vmLimit, shownVars, pyVars>>
ReserveSlots(n) ==
    /\ BetweenBoth /\ slots' = n
    /\ UNCHANGED <<vmVars, data, limit, vmLimit, shownVars, pyVars>>
LimitSteps(n) ==
    /\ BetweenBoth /\ limit' = n
    /\ UNCHANGED <<vmVars, data, slots, vmLimit, shownVars, pyVars>>

\* VM.reset: the Rust VM keeps its outputs and its limit.
ResetBoth ==
    /\ BetweenBoth /\ Reset
    /\ data' = <<>> /\ slots' = 0 /\ limit' = 0
    /\ pyOutputs' = <<>> /\ pyStack' = <<>> /\ pySteps' = 0
    /\ UNCHANGED <<vmLimit, pyVars>>

BackendsInit ==
    /\ Init /\ data = <<>> /\ slots = 0 /\ limit = 0 /\ phase = "idle"
    /\ vmLimit = DefaultStepLimit
    /\ pyOutputs = <<>> /\ pyStack = <<>> /\ pySteps = 0
    /\ program = [code |-> <<>>, table |-> <<>>, limit |-> 0]
    /\ state = Py!Fresh(<<>>) /\ outcome = "idle" /\ unportable = {}
    /\ heap = [n \in DOMAIN HostVecs |-> Py!NewVec(Kind(HostVecs[n]), HostVecs[n])]

Running == RustStep \/ StartPython \/ PythonStep \/ ShowPython

BackendsNext ==
    \/ Running \/ RefuseRun \/ ResetBoth
    \/ \E p \in Programs : RunVm(p) \/ RunSession(p)
    \/ \E d \in HostData : GiveCalldata(d)
    \/ \E n \in OutputCounts : ReserveSlots(n)
    \/ \E n \in StepLimits : LimitSteps(n)
BackendsSpec == BackendsInit /\ [][BackendsNext]_allVars

--------------------------------------------------------------------------
(* Properties.                                                            *)

\* What a host sees: outputs(), of slots slots, with None where nothing was
\* written, and stack().
Seen(v) ==
    CASE v.tag = "Vec" -> [tag |-> "Vec", ints |-> heap[v.at].elements]
      [] v.tag = "Int" -> v
      [] OTHER         -> PyNone
SeenRust(v) ==
    CASE v.tag = "VecInt"  -> [tag |-> "Vec", ints |-> v.ints]
      [] v.tag = "VecXqmx" -> [tag |-> "Vec", ints |-> <<>>]
      [] v.tag = "Int"     -> v
      [] OTHER             -> PyNone
SameOutputs ==
    \A k \in 0 .. slots - 1 :
        SeenRust(outputs[k + 1]) =
            (IF k \in DOMAIN pyOutputs THEN Seen(pyOutputs[k]) ELSE PyNone)

\* Falling off the end is a step for the Rust VM only.
EndSteps == IF state.halted THEN 0 ELSE 1
SameResults ==
    /\ stack = pyStack /\ SameOutputs
    /\ steps = pySteps + EndSteps

\* The Rust VM ran into its limit and the Python VM did not: no limit was asked
\* for, which is none for the Python VM and an old one or the default for the
\* Rust VM, or the limit is exactly the steps to the end.
LimitDiffers ==
    /\ status = "StepLimitExceeded" /\ outcome # "limit"
    /\ \/ limit = 0
       \/ outcome = "ok" /\ state.steps = limit /\ ~state.halted

\* The Python VM takes any slot number.
NoSuchSlot ==
    status = "OutputIndex" /\ ~(DOMAIN state.output \subseteq 0 .. slots - 1)

\* One program, one outcome: where the Rust VM succeeds so does the Python VM,
\* and conversely, and they show the same outputs, stack and steps.
Agree ==
    /\ (status = "ok") <=> (outcome = "ok")
    /\ status = "ok" => SameResults

\* The conformance harness (conformance/README.md): the two VMs agree.
BackendsAgree == phase = "done" => Agree

\* The two agree on every program and every setting outside a list of exact
\* exceptions, each of which is an instruction the Python VM executed with
\* operands of a certain kind, or a setting of the host: integer overflow, a
\* loop with an empty body, ITER over a slice that is not one of the vector, a
\* shift by the width of the word or more, an input slot nobody set, IDXTRIU of
\* a pair out of order, SLACK with unset registers or twice the same, a vector
\* changed while it can be reached in two ways, an output slot beyond those
\* reserved, and the step limits 0 and "exactly enough".
PortableRunsAgree ==
    (phase = "done" /\ unportable = {} /\ ~LimitDiffers /\ ~NoSuchSlot) => Agree

\* With a step limit both backends come to an end, loops and backward jumps
\* notwithstanding.
BothEnd == (phase = "rust" /\ limit # 0) ~> phase = "done"
PythonTypeOK == Py!PyTypeOK
=============================================================================
