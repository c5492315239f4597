------------------------------ MODULE Assembly ------------------------------
(***************************************************************************)
(* What the instruction builder promises: a label is the position it was   *)
(* placed at.  The client writes items one after the other; a finished     *)
(* program is the same items with each jump naming the position of its     *)
(* label.  There are no bytes, no widths and no label numbers here.        *)
(***************************************************************************)
EXTENDS Integers, Sequences, FiniteSets

CONSTANTS
    Items,            \* what a client may write
    LabelLimit        \* how many labels a program may have

VARIABLES
    items,            \* written so far
    outcome           \* of the request to finish, once it is made

Open == [status |-> "open"]
Done(program) == [status |-> "ok", program |-> program]
Refused(error) == [status |-> error]

LabelItem(l) == [kind |-> "label", label |-> l]
JumpItem(op, l) == [kind |-> "jump", op |-> op, label |-> l]
ConstItem(val) == [kind |-> "push", val |-> val]
CodeItem(instr) == [kind |-> "code", instr |-> instr]

Placed(s) == {s[k].label : k \in {k \in DOMAIN s : s[k].kind = "label"}}
Used(s) == {s[k].label : k \in {k \in DOMAIN s : s[k].kind = "jump"}}
PositionOf(s, l) == CHOOSE k \in DOMAIN s : s[k] = LabelItem(l)

\* The meaning of an item in a finished program.
Meaning(s, item) ==
    CASE item.kind = "label" -> [kind |-> "target"]
      [] item.kind = "jump"  -> [kind |-> "jump", op |-> item.op,
                                 to |-> PositionOf(s, item.label)]
      [] OTHER               -> item

\* A label that no jump uses is an error, unless it is the entry.
UnusedLabels(s) == {l \in Placed(s) \ Used(s) : PositionOf(s, l) # 1}

Finished(s) ==
    IF ~(Used(s) \subseteq Placed(s)) THEN Refused("UnplacedLabel")
    ELSE IF UnusedLabels(s) # {} THEN Refused("UnusedLabel")
    ELSE IF Cardinality(Placed(s)) > LabelLimit THEN Refused("TooManyTargets")
    ELSE Done([k \in DOMAIN s |-> Meaning(s, s[k])])

Write(item) ==
    /\ item.kind = "label" => item.label \notin Placed(items)
    /\ items' = Append(items, item)
    /\ UNCHANGED outcome

Finish ==
    /\ outcome' = Finished(items)
    /\ UNCHANGED items

Init == items = <<>> /\ outcome = Open
Next == outcome = Open /\ ((\E item \in Items : Write(item)) \/ Finish)
Spec == Init /\ [][Next]_<<items, outcome>>
==========================================================================
