------------------------------ MODULE Builder ------------------------------
(***************************************************************************)
(* The instruction builder of src/xqvm/src/bytecode/builder.rs.  Its calls *)
(* are operators on the builder's state, because the assembler makes       *)
(* several of them in one step; the actions are those of a client that     *)
(* makes them one at a time.                                               *)
(***************************************************************************)
EXTENDS Codec

CONSTANTS
    NarrowLabels,     \* label numbers a u8 holds (256 in the code)
    WideLabels,       \* label numbers a u16 holds (65536 in the code)
    MaxLabels,        \* bound: labels a client allocates
    MaxBytes,         \* bound: the buffer a client fills
    Emitted,          \* instructions a client emits as they are
    Constants         \* words a client pushes

ASSUME BuilderAssumption ==
    /\ NarrowLabels \in 0 .. 256 /\ WideLabels \in NarrowLabels .. 65536
    /\ MaxLabels \in Nat

VARIABLES
    b,                \* the builder: buf, label_positions, fixups, and, as a
                      \* history, the calls that wrote to it
    built             \* what build returned and, as a history, what it means

builderVars == <<b, built>>

Unplaced == -1
NewBuilder == [buf |-> <<>>, label_positions |-> <<>>, fixups |-> <<>>, calls |-> <<>>]

\* What a call that writes asks for.
LabelItem(l) == [kind |-> "label", label |-> l]
JumpItem(op, l) == [kind |-> "jump", op |-> op, label |-> l]
ConstItem(val) == [kind |-> "push", val |-> val]
CodeItem(instr) == [kind |-> "code", instr |-> instr]

IsLabel(s, l) == l < Len(s.label_positions)
PlaceOf(s, l) == IF IsLabel(s, l) THEN s.label_positions[l + 1] ELSE Unplaced

--------------------------------------------------------------------------
(* The calls.                                                             *)

\* label: the new label is the number of those before it.
WithLabel(s) == [s EXCEPT !.label_positions = Append(@, Unplaced)]

\* The bytes of an instruction, on behalf of a call.
Writes(s, instr, item) ==
    [s EXCEPT !.buf = @ \o Encode(instr), !.calls = Append(@, item)]

\* emit and the method of each instruction.
EmitTo(s, instr) == Writes(s, instr, CodeItem(instr))

\* place.
PlaceError(s, l) ==
    CASE ~IsLabel(s, l)            -> "ForeignLabel"
      [] PlaceOf(s, l) # Unplaced  -> "DuplicateLabel"
      [] OTHER                     -> "none"
PlaceIn(s, l) ==
    Writes([s EXCEPT !.label_positions[l + 1] = Len(s.buf)],
           Instr("TARGET", <<>>), LabelItem(l))

\* Mutant: the site of a fixup is that of the operand.
EmitJumpToOperandSite(s, kind, l) ==
    [Writes(s, Instr(IF kind = "Jump" THEN "JUMP2" ELSE "JUMPI2", <<WideLabels - 1>>),
            JumpItem(kind, l)) EXCEPT
        !.fixups = Append(@, [site |-> Len(s.buf) + 1, kind |-> kind, label |-> l])]

\* emit_jump, emit_jump_if: a wide placeholder and a note of it.
WideForm(kind) == IF kind = "Jump" THEN "JUMP2" ELSE "JUMPI2"
NarrowForm(kind) == IF kind = "Jump" THEN "JUMP1" ELSE "JUMPI1"
EmitJumpTo(s, kind, l) ==
    [Writes(s, Instr(WideForm(kind), <<WideLabels - 1>>), JumpItem(kind, l)) EXCEPT
        !.fixups = Append(@, [site |-> Len(s.buf), kind |-> kind, label |-> l])]

EmitPush(s, val) == Writes(s, MinimalPush(val), ConstItem(val))

--------------------------------------------------------------------------
(* build.                                                                 *)

Placed(s) == {l \in 0 .. Len(s.label_positions) - 1 : PlaceOf(s, l) # Unplaced}
Referenced(s) == {s.fixups[k].label : k \in DOMAIN s.fixups}

\* Mutant: an unused entry label is an error too.
UnusedOfStrict(s) == Placed(s) \ Referenced(s)

\* The fixups whose label is missing, and the labels that are unused; the entry
\* at offset 0 may be.
Missing(s) == {k \in DOMAIN s.fixups : PlaceOf(s, s.fixups[k].label) = Unplaced}
UnusedOf(s) == {l \in Placed(s) \ Referenced(s) : PlaceOf(s, l) # 0}

\* Mutant: the number of a label is the order of its allocation.
SequentialIdAllocated(s, l) == l

\* Labels are numbered by where they were placed.
SequentialId(s, l) ==
    Cardinality({k \in Placed(s) : PlaceOf(s, k) < PlaceOf(s, l)})

\* Bytes written over those at an offset.
Patch(code, site, bytes) ==
    [i \in DOMAIN code |->
        IF i - site \in DOMAIN bytes THEN bytes[i - site] ELSE code[i]]
Patched(s) ==
    FoldLeft(LAMBDA code, f :
                 Patch(code, f.site,
                       Encode(Instr(WideForm(f.kind), <<SequentialId(s, f.label)>>))),
             s.buf, s.fixups)

Fits(s, f) == SequentialId(s, f.label) < NarrowLabels

\* Mutant: what the jumps before have shrunk is not subtracted.
NarrowedUnshifted(s) ==
    LET shrink(code, f) ==
            RemoveAt(Patch(code, f.site,
                           Encode(Instr(NarrowForm(f.kind),
                                        <<SequentialId(s, f.label)>>))),
                     f.site + 3)
    IN  FoldLeft(LAMBDA code, f : IF Fits(s, f) THEN shrink(code, f) ELSE code,
                 Patched(s), s.fixups)

\* A jump whose label fits in a byte loses its third byte.  Fixups are in the
\* order of their sites; each narrowed one moves those after it by a byte.
Narrowed(s) ==
    LET shrink(acc, f) ==
            LET actual == f.site - acc.shrinkage
                bytes == Encode(Instr(NarrowForm(f.kind),
                                      <<SequentialId(s, f.label)>>))
            IN  [code |-> RemoveAt(Patch(acc.code, actual, bytes), actual + 3),
                 shrinkage |-> acc.shrinkage + 1]
    IN  FoldLeft(LAMBDA acc, f : IF Fits(s, f) THEN shrink(acc, f) ELSE acc,
                 [code |-> Patched(s), shrinkage |-> 0], s.fixups).code

--------------------------------------------------------------------------
IsConst(instr) == \E n \in 1 .. WordBytes : instr.op = PushName[n]

\* How a program runs: the position, in instructions, its jumps go to.
JumpKinds == [op \in {"JUMP1", "JUMP2", "JUMPI1", "JUMPI2"} |->
                 IF op \in {"JUMP1", "JUMP2"} THEN "Jump" ELSE "JumpIf"]
PositionAt(items, offset) == CHOOSE k \in DOMAIN items : items[k].offset = offset
Running(p, items, item) ==
    IF item.error # "none" THEN [kind |-> item.error]
    ELSE IF item.instr.op = "TARGET" THEN [kind |-> "target"]
    ELSE IF item.instr.op \in DOMAIN JumpKinds
    THEN IF item.instr.args[1] < Len(p.jump_table)
         THEN [kind |-> "jump", op |-> JumpKinds[item.instr.op],
               to |-> PositionAt(items, p.jump_table[item.instr.args[1] + 1])]
         ELSE [kind |-> "InvalidLabel"]
    ELSE IF IsConst(item.instr)
    THEN [kind |-> "push", val |-> SignExtend(item.instr.args[1])]
    ELSE [kind |-> "code", instr |-> item.instr]
BehaviourOf(p, items) == [k \in DOMAIN items |-> Running(p, items, items[k])]
Behaviour(p) == BehaviourOf(p, Stream(p.code))

BuildError(error, id) == [status |-> error, id |-> id]
BuiltAs(program) ==
    [status |-> "ok", program |-> program, meaning |-> Behaviour(program)]
BuildOf(s) ==
    IF Missing(s) # {}
    THEN BuildError("UnplacedLabel", s.fixups[Min(Missing(s))].label)
    ELSE IF UnusedOf(s) # {}
    THEN BuildError("UnusedLabel", Min(UnusedOf(s)))
    ELSE IF Cardinality(Placed(s)) > WideLabels
    THEN BuildError("TooManyTargets", Cardinality(Placed(s)))
    ELSE BuiltAs(NewProgram(Narrowed(s)))

--------------------------------------------------------------------------
(* A client.                                                              *)

IsOpen == built.status = "open"
Calls(s) == IsOpen /\ Len(b.buf) < MaxBytes /\ b' = s /\ UNCHANGED built

CallLabel == Len(b.label_positions) < MaxLabels /\ Calls(WithLabel(b))
\* A label of another builder, MaxLabels, is refused by place and found out by
\* build if it is in a jump.
CallPlace(l) ==
    IF PlaceError(b, l) = "none" THEN Calls(PlaceIn(b, l)) ELSE Calls(b)
CallJump(kind, l) == Calls(EmitJumpTo(b, kind, l))
CallEmit(instr) == Calls(EmitTo(b, instr))
CallPush(val) == Calls(EmitPush(b, val))
CallBuild == IsOpen /\ built' = BuildOf(b) /\ UNCHANGED b

BuilderInit == b = NewBuilder /\ built = [status |-> "open"]
ClientNext ==
    \/ CallLabel
    \/ \E l \in 0 .. MaxLabels :
          \/ CallPlace(l)
          \/ (l < Len(b.label_positions) \/ l = MaxLabels)
                /\ \E kind \in {"Jump", "JumpIf"} : CallJump(kind, l)
    \/ \E instr \in Emitted : CallEmit(instr)
    \/ \E val \in Constants : CallPush(val)
    \/ CallBuild
BuilderSpec == BuilderInit /\ [][ClientNext]_builderVars

--------------------------------------------------------------------------
(* Properties.                                                            *)

\* What a client that uses the builder as it is meant to be used emits as it is:
\* it places a label rather than emit a TARGET, and so for jumps and constants.
\* Its constants are words.
IsOrdinary(instr) ==
    instr.op # "TARGET" /\ instr.op \notin DOMAIN JumpKinds /\ ~IsConst(instr)
IsWord(val) == SignExtend(LowBytes(val, WordBytes)) = val

\* What the buffer holds always decodes, a placed label is at a TARGET, and
\* a fixup at a wide jump of its kind: patching overwrites nothing else.
BufferOK ==
    LET items == Stream(b.buf)
        at(offset) == {items[k].instr.op : k \in
                          {k \in DOMAIN items : items[k].offset = offset}}
    IN  /\ \A k \in DOMAIN items : items[k].error = "none"
        /\ \A l \in Placed(b) : at(PlaceOf(b, l)) = {"TARGET"}
        /\ \A k \in DOMAIN b.fixups :
              at(b.fixups[k].site) = {WideForm(b.fixups[k].kind)}

Promise == INSTANCE Assembly WITH
    Items <- {LabelItem(l) : l \in 0 .. MaxLabels}
               \cup {JumpItem(op, l) : op \in {"Jump", "JumpIf"}, l \in 0 .. MaxLabels}
               \cup {ConstItem(val) : val \in Constants}
               \cup {CodeItem(instr) : instr \in Emitted},
    LabelLimit <- WideLabels,
    items <- b.calls,
    outcome <- IF built.status = "ok"
               THEN [status |-> "ok", program |-> built.meaning]
               ELSE [status |-> built.status]

\* The builder implements Assembly: every jump of a built program, narrow or
\* wide, goes to the TARGET its label was placed at, a constant keeps its value
\* in the width chosen for it, the rest is as it was written, and build refuses
\* exactly what Assembly refuses.
KeepsItsPromise == Promise!Spec

\* builder.rs on build: the label number in a jump is the sequential id of
\* its TARGET in stream order, so that the jump goes to where its label is.
JumpsReachTheirLabels ==
    built.status = "ok" =>
        LET buffer == Stream(b.buf)
            code == built.meaning
        IN  \A k \in DOMAIN b.fixups :
                code[PositionAt(buffer, b.fixups[k].site)] =
                    [kind |-> "jump", op |-> b.fixups[k].kind,
                     to |-> PositionAt(buffer, PlaceOf(b, b.fixups[k].label))]
==========================================================================
