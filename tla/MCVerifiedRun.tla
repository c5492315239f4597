-------------------------- MODULE MCVerifiedRun --------------------------
(***************************************************************************)
(* Model checking of VerifiedRun: each code is verified, run, and run once *)
(* more after a reset.                                                     *)
(***************************************************************************)
EXTENDS VerifiedRun

Seqs(S, n) == UNION {[1 .. k -> S] : k \in 0 .. n}
Pushes(values) == [i \in 1 .. Len(values) |-> OpImm("PUSH", values[i])]

Push1 == OpImm("PUSH", 1)
RangeI == Op("RANGE")
IterI == OpReg("ITER", 0)
NextI == Op("NEXT")
Target == Op("TARGET")

\* Every short code over the operations the phases look at.
Alphabet == {Push1, Op("POP"), RangeI, IterI, NextI, OpReg("LIDX", 0), Target,
             OpImm("JUMPI", 0), Op("BAD"), OpReg("VECI", 0)}
ShortCodes == Seqs(Alphabet, 3)

\* One loop, entered count times, around a body, and a tail.
Tails == {<<>>, <<Op("POP")>>, <<NextI>>, <<OpReg("LVAL", 1)>>}
Bodies == Seqs({Push1, Op("POP"), Op("SCLR"), Op("COPY"), RangeI, NextI,
                OpReg("DROP", 1), OpReg("LOAD", 1)}, 2)
LoopCodes ==
    {Pushes(<<1, 0, count>>) \o <<RangeI>> \o body \o <<NextI>> \o tail :
        count \in {0, 2}, body \in Bodies, tail \in Tails}

\* Two nested loops, the inner one over a range or over an input.
NestedCodes ==
    {<<OpImm("PUSH", 0), OpReg("INPUT", 0)>> \o Pushes(<<0, outer>>) \o <<RangeI>> \o Pushes(<<0, inner>>) \o <<opener>>
        \o body \o <<NextI>> \o body \o <<NextI>> \o tail :
        outer \in {0, 2}, inner \in {0, 1}, opener \in {RangeI, IterI},
        body \in {<<>>, <<Push1, Op("POP")>>}, tail \in {<<>>, <<Push1>>}}

\* Jumps, forwards and backwards, inside, around, into and out of a loop.
JumpCodes ==
    {<<Push1>> \o before \o <<OpImm("PUSH", cond), OpImm(jump, label)>> \o body
        \o <<Target>> \o after :
        cond \in {0, 1}, jump \in JumpOps, label \in {0, 1},
        before \in {<<>>, <<Target>>, Pushes(<<0, 2>>) \o <<RangeI>>},
        body \in {<<>>, <<Push1>>, <<Push1, Op("POP")>>, <<NextI>>,
                  <<Push1, Push1, RangeI, NextI>>},
        after \in {<<>>, <<NextI>>, <<Op("POP")>>}}

\* Registers in straight-line code.
TypeCodes ==
    {Pushes(<<1, 0, 0, 0, 0>>) \o body :
        body \in Seqs({OpReg(op, 0) : op \in {"STOW", "LOAD", "DROP", "INPUT",
                                              "OUTPUT", "VECI", "VECX",
                                              "VECLEN", "VECPUSH", "VECGET",
                                              "VECSET"}}
                        \cup {OpRegs("SLACK", 0, 1, 0)}, 3)}

AllCodes == ShortCodes \cup LoopCodes \cup NestedCodes \cup JumpCodes
              \cup TypeCodes

Calldata == {<<VecInt(<<3>>)>>}

\* A branch in a loop body: it pushes one value or another and pops it.
BranchInLoop ==
    {Pushes(<<0, 2>>)
       \o <<RangeI, OpReg("LIDX", 0), OpReg("LOAD", 0), OpImm("JUMPI", 0), Push1,
            OpImm("JUMP", 1), Target, OpImm("PUSH", 2), Target, Op("POP"),
            NextI>>}
==========================================================================
