---------------------------- MODULE MCToolchain ----------------------------
(***************************************************************************)
(* Model checking of Toolchain: either a client makes calls of its own on  *)
(* a builder, or a source is assembled, line by line, and what comes out   *)
(* is written, damaged, loaded and listed.                                 *)
(***************************************************************************)
EXTENDS Toolchain

VARIABLE mode

MCConstants == {-129, 200}
MCEmitted == {Instr("LOAD", <<0>>)}
WithBareTarget == {Instr("TARGET", <<>>)}

ASSUME ClientAssumption ==
    /\ \A instr \in MCEmitted : IsOrdinary(instr)
    /\ \A instr \in WithBareTarget : ~IsOrdinary(instr)
    /\ \A val \in Constants : IsWord(val)

MCLines ==
    {LabelDef(n) : n \in {0, 1, 7}}
      \cup {Line("JUMP", <<LabelRef(n)>>) : n \in {0, 7}}
      \cup {Line("JUMPI", <<LabelRef(1)>>), Line("TARGET", <<LabelRef(1)>>),
            Line("PUSH", <<Integer(-129)>>), Line("LOAD", <<RegisterRef(0)>>),
            Line("JUMP", <<>>), Line("JUMPI", <<Integer(1)>>),
            Line("TARGET", <<Integer(1)>>),
            Line("TARGET", <<LabelRef(0), LabelRef(1)>>),
            Line("PUSH", <<RegisterRef(0)>>), Line("PUSH", <<>>),
            Line("LOAD", <<Integer(0)>>), Line("LOAD", <<>>),
            Line("PUSH1", <<Integer(1)>>), Line("JUMP1", <<LabelRef(300)>>),
            Line("FROB", <<>>)}

\* The labels, constants and other instructions of the lines are those of a client.
ASSUME SourceAssumption ==
    /\ Cardinality(UNION {DefinedBy(line) \cup ReferredBy(line) : line \in MCLines})
          <= MaxLabels
    /\ \A line \in MCLines :
          /\ Mnemonic(line, {"PUSH", "PUSHC"}) /\ Len(line.operands) = 1
                /\ line.operands[1].kind = "integer"
             => line.operands[1].value \in MCConstants
          /\ line.kind = "instruction" /\ InstrError(line) = "none"
                /\ line.mnemonic \notin {"JUMP", "JUMPI", "PUSH", "PUSHC"}
                /\ (line.mnemonic = "TARGET" => line.operands = <<>>)
             => Instr(line.mnemonic, [k \in DOMAIN line.operands |-> line.operands[k].value])
                   \in MCEmitted

MCInit == AssemblerInit /\ ToolInit /\ mode \in {"client", "assembler"}

MCNext ==
    /\ UNCHANGED mode
    /\ \/ /\ mode = "client" /\ ClientNext
          /\ UNCHANGED <<source, label_map, first_ref, outcome, toolVars>>
       \/ mode = "assembler" /\ ToolchainNext

MCSpec == MCInit /\ [][MCNext]_<<assemblerVars, toolVars, mode>>
==========================================================================
