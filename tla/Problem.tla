------------------------------ MODULE Problem ------------------------------
(***************************************************************************)
(* src/xqcp/problem.py: the Problem that records what a client declares,   *)
(* and the references of symbols.py it hands out.                          *)
(*                                                                         *)
(* A call has the operation (named as the kind of action it records), the  *)
(* references it works on, the names the client gives to what it returns,  *)
(* its coordinates and expressions, and for a loop or a branch the calls   *)
(* made inside.  The client's expressions speak of names: symbols is what  *)
(* its names refer to.                                                     *)
(***************************************************************************)
EXTENDS Compiler
LOCAL INSTANCE TLC
LOCAL INSTANCE SequencesExt

CONSTANT MaxRegister       \* the last register (255 in the code)

ASSUME ProblemAssumption == MaxRegister \in Nat

NoModel == [reg |-> -1, cols_reg |-> -1, is_2d |-> FALSE, domain |-> "Binary"]
NewProblem == [actions |-> <<>>, constraints |-> <<>>, next |-> 0, slot |-> 0,
               model |-> NoModel, symbols |-> <<>>, error |-> "none"]

Loops == {"range", "iter"}

\* How many registers a call takes, and what the names it binds refer to.
Allocates(c) ==
    CASE c.call = "define_model" -> IF c.is_2d THEN 2 ELSE 1
      [] c.call = "iter"         -> 2
      [] c.call \in {"input", "range", "vec_alloc", "reduce", "output_decl"} -> 1
      [] c.call = "stow"         -> Len(c.names)
      [] OTHER                   -> 0
RefKind(c) ==
    CASE c.call = "input"             -> "InputRef"
      [] c.call \in Loops             -> "LoopVar"
      [] c.call \in {"stow", "reduce"} -> "RegLoad"
      [] OTHER                        -> "Ref"
Ref(kind, reg, type) == [kind |-> kind, reg |-> reg, type |-> type]

\* _RegisterAllocator.alloc, as often as the call needs.
Fresh(p, c) == [k \in 1 .. Allocates(c) |-> p.next + k - 1]

\* Mutant: the allocator forgets the second register of an iter.
AfterAllocOne(p, c) == p.next + IF Allocates(c) = 0 THEN 0 ELSE 1

AfterAlloc(p, c) == p.next + Allocates(c)

\* What the names of the call refer to; define_model makes model and sample.
Binds(p, c) ==
    IF c.call = "define_model"
    THEN LET reg == p.next + Allocates(c) - 1
         IN  [n \in {"model", "sample"} |->
                Ref("Ref", IF n = "model" THEN reg ELSE reg + 100, "")]
    ELSE [n \in {c.names[k] : k \in DOMAIN c.names} |->
            Ref(RefKind(c), Fresh(p, c)[CHOOSE k \in DOMAIN c.names : c.names[k] = n],
                c.type)]

\* The client's expression with its names as the references they stand for.
RECURSIVE Resolved(_, _)
Resolved(e, symbols) ==
    IF e.kind = "Literal" THEN e
    ELSE IF e.kind = "Name"
    THEN [kind |-> symbols[e.name].kind, reg |-> symbols[e.name].reg]
    ELSE [kind |-> e.kind, op |-> e.op,
          args |-> [k \in DOMAIN e.args |-> Resolved(e.args[k], symbols)],
          reg |-> IF e.name = "" THEN 0 ELSE symbols[e.name].reg]
ResolvedAll(exprs, symbols) ==
    [k \in DOMAIN exprs |-> Resolved(exprs[k], symbols)]

\* The errors a call raises before it records anything.
Raises(p, c) ==
    CASE c.call = "define_model" /\ c.type = "Discrete" -> "NotImplementedError"
      [] (\E k \in DOMAIN c.on : c.on[k] = "model") /\ p.model = NoModel
                                                      -> "RuntimeError"
      [] c.call \in {"output_append", "output_setitem"}
           /\ p.symbols[c.on[1]].type # "Vec"         -> "TypeError"
      [] c.call = "branch" /\ Len(c.arms) < 2         -> "ValueError"
      [] p.next + Allocates(c) > MaxRegister + 1      -> "RuntimeError"
      [] OTHER                                        -> "none"

\* The action a call records.
ActionOf(p, c, kind) ==
    [kind |-> kind,
     model |-> IF c.call # "define_model" THEN p.model
               ELSE [reg |-> p.next + Allocates(c) - 1, is_2d |-> c.is_2d,
                     cols_reg |-> IF c.is_2d THEN p.next ELSE -1,
                     domain |-> c.type],
     coords |-> [k \in DOMAIN c.coords |-> ResolvedAll(c.coords[k], p.symbols)],
     exprs |-> ResolvedAll(c.exprs, p.symbols),
     regs |-> [k \in DOMAIN c.on |-> p.symbols[c.on[k]].reg] \o Fresh(p, c),
     arms |-> <<>>, type |-> c.type, slot |-> p.slot]

\* The call's registers and names, then its action.
Allocated(p, c) ==
    [p EXCEPT !.next = AfterAlloc(p, c), !.symbols = Binds(p, c) @@ @]
Recorded(p, c, a) ==
    [Allocated(p, c) EXCEPT
        !.actions = Append(@, a),
        !.constraints = IF a.kind \in ConstraintKinds THEN Append(@, a) ELSE @,
        !.model = a.model,
        !.slot = IF a.kind = "output_decl" THEN @ + 1 ELSE @]

\* A loop's body is recorded between its start and its end, the arms of a
\* branch one after the other into buffers of their own.
RECURSIVE Record(_, _), RecordAll(_, _)
RecordLoop(p, c) ==
    LET start == Recorded(p, c, ActionOf(p, c, c.call \o "_start"))
        inside == RecordAll(start, c.body)
        end == [ActionOf(p, c, c.call \o "_end") EXCEPT !.exprs = <<>>, !.regs = <<>>]
    IN  [inside EXCEPT !.actions = Append(@, end)]

Captured(acc, arm) ==
    LET inside == RecordAll([acc.p EXCEPT !.actions = <<>>], arm.body)
    IN  [p |-> [inside EXCEPT !.actions = acc.p.actions],
         arms |-> Append(acc.arms,
                    [default |-> arm.default, actions |-> inside.actions,
                     condition |-> Resolved(arm.condition, acc.p.symbols)])]
RecordBranch(p, c) ==
    LET all == FoldLeft(Captured, [p |-> p, arms |-> <<>>], c.arms)
    IN  IF all.p.error # "none" THEN all.p
        ELSE Recorded(all.p, c, [ActionOf(all.p, c, "branch") EXCEPT !.arms = all.arms])

Record(p, c) ==
    IF p.error # "none" THEN p
    ELSE IF Raises(p, c) # "none" THEN [p EXCEPT !.error = Raises(p, c)]
    ELSE IF c.call \in Loops THEN RecordLoop(p, c)
    ELSE IF c.call = "branch" THEN RecordBranch(p, c)
    ELSE Recorded(p, c, ActionOf(p, c, c.call))
RecordAll(p, calls) == FoldLeft(Record, p, calls)
==========================================================================
