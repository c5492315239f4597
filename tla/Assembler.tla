----------------------------- MODULE Assembler -----------------------------
(***************************************************************************)
(* assemble of src/xqasm/src/assembler.rs: the lines the parser made of a  *)
(* source, one per step, turned into calls of the builder.                 *)
(***************************************************************************)
EXTENDS Builder

CONSTANTS
    Lines,            \* the lines a source is made of
    MaxLines          \* bound: lines of a source

VARIABLES
    source,           \* the lines read so far
    label_map,        \* label -> the builder's label for it, and whether placed
    first_ref,        \* label -> the line that refers to it first
    outcome           \* of the assembly

assemblerVars == <<b, built, source, label_map, first_ref, outcome>>

\* AsmLine and Operand.
LabelDef(n) == [kind |-> "label", label |-> n]
Line(mnemonic, operands) ==
    [kind |-> "instruction", mnemonic |-> mnemonic, operands |-> operands]
LabelRef(n) == [kind |-> "label", value |-> n]
Integer(v) == [kind |-> "integer", value |-> v]
RegisterRef(r) == [kind |-> "register", value |-> r]

AssemblerErrors == {"UnknownMnemonic", "WrongOperandCount", "WrongOperandKind",
                    "UndefinedLabel", "DuplicateLabel", "UnusedLabel",
                    "TooManyTargets"}

--------------------------------------------------------------------------
Reads(line) ==
    /\ outcome.status = "reading"
    /\ Len(source) < MaxLines
    /\ source' = Append(source, line)
    /\ UNCHANGED built

Rejects(error, label) ==
    /\ outcome' = [status |-> error, label |-> label]
    /\ UNCHANGED <<b, label_map, first_ref>>
RejectsLine(error) == Rejects(error, Unplaced)

\* Entries of the assembler's maps: one that replaces what is there, and one
\* that does not.
Insert(map, n, entry) ==
    [m \in DOMAIN map \cup {n} |-> IF m = n THEN entry ELSE map[m]]
OrInsert(map, n, entry) == IF n \in DOMAIN map THEN map ELSE Insert(map, n, entry)

\* The builder's label for a label of the source, allocated when it is met.
Known(n) == n \in DOMAIN label_map
IdOf(n) == IF Known(n) THEN label_map[n].id ELSE Len(b.label_positions)
Allocated(n) == IF Known(n) THEN b ELSE WithLabel(b)
IsPlaced(n) == Known(n) /\ label_map[n].placed

PlaceLabel(n) ==
    IF IsPlaced(n) THEN Rejects("DuplicateLabel", n)
    ELSE /\ b' = PlaceIn(Allocated(n), IdOf(n))
         /\ label_map' = Insert(label_map, n, [id |-> IdOf(n), placed |-> TRUE])
         /\ UNCHANGED <<first_ref, outcome>>

AssembleLabelDef(line) ==
    /\ line.kind = "label"
    /\ Reads(line)
    /\ PlaceLabel(line.label)

Mnemonic(line, mnemonics) == line.kind = "instruction" /\ line.mnemonic \in mnemonics

\* assemble_target: TARGET with an operand.
AssembleTarget(line) ==
    /\ Mnemonic(line, {"TARGET"})
    /\ line.operands # <<>>
    /\ Reads(line)
    /\ IF Len(line.operands) # 1 THEN RejectsLine("WrongOperandCount")
       ELSE IF line.operands[1].kind # "label" THEN RejectsLine("WrongOperandKind")
       ELSE PlaceLabel(line.operands[1].value)

JumpKind(line) == IF line.mnemonic = "JUMPI" THEN "JumpIf" ELSE "Jump"

AssembleJump(line) ==
    /\ Mnemonic(line, {"JUMP", "JUMPI"})
    /\ Reads(line)
    /\ LET n == line.operands[1].value IN
       IF Len(line.operands) # 1 THEN RejectsLine("WrongOperandCount")
       ELSE IF line.operands[1].kind # "label" THEN RejectsLine("WrongOperandKind")
       ELSE /\ b' = EmitJumpTo(Allocated(n), JumpKind(line), IdOf(n))
            /\ label_map' = OrInsert(label_map, n, [id |-> IdOf(n), placed |-> FALSE])
            /\ first_ref' = OrInsert(first_ref, n, Len(source'))
            /\ UNCHANGED outcome

AssemblePush(line) ==
    /\ Mnemonic(line, {"PUSH", "PUSHC"})
    /\ Reads(line)
    /\ IF Len(line.operands) # 1 THEN RejectsLine("WrongOperandCount")
       ELSE IF line.operands[1].kind # "integer" THEN RejectsLine("WrongOperandKind")
       ELSE /\ b' = EmitPush(b, line.operands[1].value)
            /\ UNCHANGED <<label_map, first_ref, outcome>>

\* FromOperand: what an operand must be for a field.
OperandError(field, operand) ==
    CASE field.kind = "bytes"    -> "UnknownMnemonic"
      [] field.kind = "register" -> IF operand.kind = "register" THEN "none"
                                    ELSE "WrongOperandKind"
      [] OTHER -> IF operand.kind = "label"
                     /\ (field.kind = "u8" => operand.value < 256)
                  THEN "none" ELSE "WrongOperandKind"

\* build_instr.
InstrError(line) ==
    LET fields == OfName[line.mnemonic].fields
        wrong == {k \in DOMAIN fields :
                     OperandError(fields[k], line.operands[k]) # "none"}
        first == CHOOSE k \in wrong : \A l \in wrong : k <= l
    IN  IF line.mnemonic \notin DOMAIN OfName THEN "UnknownMnemonic"
        ELSE IF Len(line.operands) # Len(fields) THEN "WrongOperandCount"
        ELSE IF wrong # {} THEN OperandError(fields[first], line.operands[first])
        ELSE "none"

AssembleOther(line) ==
    /\ line.kind = "instruction"
    /\ line.mnemonic \notin {"JUMP", "JUMPI", "PUSH", "PUSHC"}
    /\ line.mnemonic = "TARGET" => line.operands = <<>>
    /\ Reads(line)
    /\ LET error == InstrError(line)
           args == [k \in DOMAIN line.operands |-> line.operands[k].value]
       IN  IF error # "none" THEN RejectsLine(error)
           ELSE /\ b' = EmitTo(b, Instr(line.mnemonic, args))
                /\ UNCHANGED <<label_map, first_ref, outcome>>

\* convert_build_error: the builder's number of a label, its order of
\* allocation, is reported as the label's number in the source.
ConvertBuildError(error) ==
    CASE error.status = "UnplacedLabel" ->
            [status |-> "UndefinedLabel", label |-> error.id]
      [] error.status = "UnusedLabel" -> [status |-> "UnusedLabel", label |-> error.id]
      [] OTHER -> [status |-> error.status, label |-> Unplaced]

EndOfSource ==
    /\ outcome.status = "reading"
    /\ built' = BuildOf(b)
    /\ outcome' = IF built'.status = "ok" THEN [status |-> "ok"]
                  ELSE ConvertBuildError(built')
    /\ UNCHANGED <<b, source, label_map, first_ref>>

AssembleLine(line) ==
    \/ AssembleLabelDef(line) \/ AssembleTarget(line) \/ AssembleJump(line)
    \/ AssemblePush(line) \/ AssembleOther(line)

AssemblerInit ==
    /\ BuilderInit
    /\ source = <<>> /\ label_map = <<>> /\ first_ref = <<>>
    /\ outcome = [status |-> "reading"]
AssemblerNext == (\E line \in Lines : AssembleLine(line)) \/ EndOfSource
AssemblerSpec == AssemblerInit /\ [][AssemblerNext]_assemblerVars

--------------------------------------------------------------------------
(* Properties.                                                            *)

\* What the lines of a source say about labels, without any builder.
DefinedBy(line) ==
    IF line.kind = "label" THEN {line.label}
    ELSE IF line.mnemonic = "TARGET" /\ Len(line.operands) = 1
            /\ line.operands[1].kind = "label"
    THEN {line.operands[1].value} ELSE {}
ReferredBy(line) ==
    IF Mnemonic(line, {"JUMP", "JUMPI"}) /\ Len(line.operands) = 1
       /\ line.operands[1].kind = "label"
    THEN {line.operands[1].value} ELSE {}
DefinedIn(k) == UNION {DefinedBy(source[i]) : i \in 1 .. k}
Defined == DefinedIn(Len(source))
Referred == UNION {ReferredBy(source[i]) : i \in DOMAIN source}
Idle == {n \in Defined \ Referred : n \notin DefinedIn(1)}
DefinitionOf(n) == CHOOSE k \in DOMAIN source : n \in DefinedBy(source[k])

\* An accepted source has one instruction per line; each JUMP and JUMPI goes
\* to the line that defines its label, wherever that is, and each PUSH pushes
\* its constant.
SourceIsProgram ==
    outcome.status = "ok" =>
        LET code == built.meaning
        IN  /\ Len(code) = Len(source)
            /\ \A k \in DOMAIN source :
                  /\ \A n \in ReferredBy(source[k]) :
                        code[k] = [kind |-> "jump", op |-> JumpKind(source[k]),
                                   to |-> DefinitionOf(n)]
                  /\ DefinedBy(source[k]) # {} => code[k] = [kind |-> "target"]
                  /\ Mnemonic(source[k], {"PUSH"}) =>
                        code[k] = [kind |-> "push",
                                   val |-> source[k].operands[1].value]

\* The error an assembly ends with is one its source has: a label defined
\* again by the last line read, referred to and not defined, or defined and
\* not referred to unless it is the entry; and a source that has none of them
\* is accepted.
ErrorsDeserved ==
    LET last == Len(source) IN
    /\ outcome.status = "DuplicateLabel" =>
          /\ DefinedBy(source[last]) = {outcome.label}
          /\ outcome.label \in DefinedIn(last - 1)
    /\ outcome.status = "UndefinedLabel" <=>
          built.status # "open" /\ ~(Referred \subseteq Defined)
    /\ outcome.status = "UnusedLabel" <=>
          built.status # "open" /\ Referred \subseteq Defined /\ Idle # {}
    /\ outcome.status = "TooManyTargets" =>
          Cardinality(Defined) > WideLabels
==========================================================================
