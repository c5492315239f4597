------------------------------- MODULE Tracer -------------------------------
(***************************************************************************)
(* Tracing: the register-effect tables of                                  *)
(* src/xqvm/src/bytecode/types/instruction.rs and the StepState that        *)
(* run_trace hands to the Tracer after every instruction it dispatched.    *)
(*                                                                         *)
(* A trace is read by following its lines: known is the register file as a *)
(* reader works it out who was told the registers at the start of the run  *)
(* and then sees, line by line, the registers written.  The tracer writes  *)
(* every line (a writer that fails is not modelled), and how TextTracer    *)
(* and JsonTracer lay one out is left out.                                 *)
(***************************************************************************)
EXTENDS XqmxVm

VARIABLES
    line,       \* the last StepState, or none since the run started
    known       \* the registers a reader of the trace works out

NoLine == [written |-> {}]

--------------------------------------------------------------------------
(* Instruction::read_registers and written_registers.                     *)

ReadOnly == {"LOAD", "OUTPUT", "ITER", "VECGET", "VECLEN", "GETLINE", "GETQUAD",
             "ROWFIND", "COLFIND", "ROWSUM", "COLSUM"}
ReadWrite == {"VECPUSH", "VECSET", "SETLINE", "ADDLINE", "SETQUAD", "ADDQUAD",
              "RESIZE", "ONEHOTR", "ONEHOTC", "EXCLUDE", "IMPLIES", "REDUCE"}
WriteOnly == {"STOW", "DROP", "INPUT", "LIDX", "LVAL", "VEC", "VECI", "VECX"}
               \cup ModelAllocators \cup SampleAllocators

\* A RegisterEffect holds two registers at most: EQUALITY and ATLEASTW read
\* three, their model is left out.
ReadRegisters(i) ==
    CASE i.op \in ReadOnly \cup ReadWrite             -> <<i.r1>>
      [] i.op \in {"ENERGY", "ATLEAST", "SLACK"}      -> <<i.r1, i.r2>>
      [] i.op \in {"EQUALITY", "ATLEASTW"}            -> <<i.r2, i.r3>>
      [] OTHER                                        -> <<>>

\* Mutant: SLACK taken for an instruction that writes one register.
WrittenRegistersShort(i) ==
    IF i.op \in WriteOnly \cup ReadWrite
                  \cup {"EQUALITY", "ATLEAST", "ATLEASTW", "SLACK"}
    THEN <<i.r1>> ELSE <<>>

WrittenRegisters(i) ==
    CASE i.op \in WriteOnly \cup ReadWrite
                    \cup {"EQUALITY", "ATLEAST", "ATLEASTW"}
                                                      -> <<i.r1>>
      [] i.op = "SLACK"                               -> <<i.r1, i.r2>>
      [] OTHER                                        -> <<>>

--------------------------------------------------------------------------
\* A step that dispatches an instruction without an error.  The limit and the
\* end of the stream come before the dispatch, a label is looked up after the
\* tracer has been called.
Dispatched ==
    /\ skipDepth = 0 /\ pc <= Len(prog.code)
    /\ steps' = steps + 1
    /\ status' \in {"running", "ok", "InvalidLabel"}

\* The StepState of the step: the registers it read as they were before, those
\* it wrote and changed as they are after.  The frame of a loop that starts is
\* pushed only after the tracer was called.
StepState ==
    LET changed(r) == regs'[r] # regs[r] IN
    [pos |-> pc, step |-> steps', instruction |-> Current, stack |-> stack',
     read |-> [k \in DOMAIN ReadRegisters(Current) |->
                  <<ReadRegisters(Current)[k], regs[ReadRegisters(Current)[k]]>>],
     written |-> {<<r, regs'[r]>> : r \in {slot \in Range(WrittenRegisters(Current)) :
                                              changed(slot)}},
     loop_depth |-> IF Current.op \in LoopOpeners THEN Len(loopStack)
                                                  ELSE Len(loopStack')]

\* What the reader of a line makes of its written registers.
Following(l) ==
    [r \in Reg |->
        IF \E w \in l.written : w[1] = r
        THEN (CHOOSE w \in l.written : w[1] = r)[2]
        ELSE known[r]]

TracedStep ==
    /\ XqmxStep
    /\ IF Dispatched THEN line' = StepState /\ known' = Following(line')
                     ELSE UNCHANGED <<line, known>>

\* What the host does between runs the reader is told, and run_trace starts on
\* a new tracer.
Told(operation) == operation /\ line' = NoLine /\ known' = regs'
TracedRun(p) == Told(Run(p))

TracedInit == Init /\ line = NoLine /\ known = regs
TracedNext == TracedStep \/ Told(HostStep)

TracedSpec == TracedInit /\ [][TracedNext]_<<vmVars, line, known>>

--------------------------------------------------------------------------
\* While a run goes on and when it ends well, the trace alone tells what is in
\* every register: no handler changes a register that the table of written
\* registers, kept apart from the handlers, leaves out.
TraceComplete == status \in {"running", "ok"} => known = regs
=============================================================================
