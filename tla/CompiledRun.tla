---------------------------- MODULE CompiledRun ----------------------------
(***************************************************************************)
(* A problem of xqcp from its declaration to its decoded outputs: the      *)
(* client declares it call by call (problem.py), compile makes the three   *)
(* programs (compiler.py) and has each verified (verifier.rs), and the     *)
(* pipeline of the examples (src/examples/*/runner.py, run) runs the       *)
(* encoder, hands its model to a sampler, and runs the verifier program    *)
(* and the decoder on the sample, each on a VM of its own.                 *)
(*                                                                         *)
(* The sampler of src/xqsa is a randomised search: here it answers with    *)
(* any assignment of the variables that occur in the model.                *)
(***************************************************************************)
EXTENDS XqmxVm, Verifier, Problem, Meaning

CONSTANTS
    Scripts,       \* what clients declare: calls, and the data of their inputs
    MaxSampled     \* models with more variables than that are not sampled

ASSUME CompiledAssumption ==
    /\ DepthLimit <= StackLimit
    /\ MaxSampled \in Nat
    /\ \A s \in Scripts : s.data \in Seq(RegVal)

VARIABLES
    script,        \* the client's calls and data
    left,          \* the calls it has still to make
    problem,       \* the Problem
    programs,      \* the encoder, the verifier program and the decoder
    stage,         \* "declaring", "compiling", "ready", the program that is
                   \* run, or, when a call or compile failed, "raised"
    at             \* the program compile is verifying

clientVars == <<script, left, problem>>
pipelineVars == <<programs, stage, at>>
allVars == <<vmVars, verifierVars, clientVars, pipelineVars>>

--------------------------------------------------------------------------
(* Declaring and compiling.                                               *)

Declare ==
    /\ stage = "declaring" /\ left # <<>>
    /\ problem' = Record(problem, Head(left))
    /\ left' = Tail(left)
    /\ stage' = IF problem'.error # "none" THEN "raised" ELSE stage
    /\ UNCHANGED <<vmVars, verifierVars, script, programs, at>>

\* _verify_compiled: verify_source of one of the programs.
Submit(c) ==
    /\ code' = c
    /\ phase' = "scan" /\ pos' = 1 /\ error' = "none"
    /\ targets' = <<>> /\ loopOffsets' = <<>> /\ jumpRefs' = <<>>
    /\ types' = [r \in Reg |-> "Unset"]
    /\ depth' = 0 /\ entries' = <<>>
    /\ lin' = <<loopOffsets'>> /\ tin' = <<types'>> /\ din' = <<depth'>>

Compile ==
    /\ stage = "declaring" /\ left = <<>>
    /\ programs' = [encoder |-> CompileEncoder(problem.actions),
                    verifier |-> CompileVerifier(problem.constraints),
                    decoder |-> CompileDecoder(problem.actions)]
    /\ stage' = "compiling" /\ at' = "encoder"
    /\ Submit(programs'.encoder)
    /\ UNCHANGED <<vmVars, clientVars>>

Verify ==
    /\ stage = "compiling"
    /\ VerifierStep
    /\ UNCHANGED <<vmVars, clientVars, pipelineVars>>

\* The next program; a rejected one makes compile raise a ValueError.
Verified ==
    /\ stage = "compiling"
    /\ \/ /\ phase = "accepted" /\ at # "decoder"
          /\ at' = IF at = "encoder" THEN "verifier" ELSE "decoder"
          /\ Submit(programs[at'])
          /\ UNCHANGED stage
       \/ /\ phase = "accepted" /\ at = "decoder"
          /\ stage' = "ready"
          /\ UNCHANGED <<verifierVars, at>>
       \/ /\ phase = "rejected"
          /\ stage' = "raised"
          /\ UNCHANGED <<verifierVars, at>>
    /\ UNCHANGED <<vmVars, clientVars, programs>>

--------------------------------------------------------------------------
(* The pipeline.                                                          *)

TableOf(c) ==
    SelectSeq([k \in DOMAIN c |-> k], LAMBDA k : c[k].op = "TARGET")

\* A new VM with calldata and output slots, and run.
Launch(c, data, slots) ==
    /\ prog' = [code |-> c, table |-> TableOf(c)]
    /\ pc' = 1 /\ status' = "running" /\ skipDepth' = 0
    /\ stack' = <<>> /\ loopStack' = <<>> /\ regs' = [r \in Reg |-> Unset]
    /\ calldata' = data /\ outputs' = [k \in 1 .. slots |-> Unset]
    /\ stepLimit' = DefaultStepLimit /\ steps' = 0

Encode ==
    /\ stage = "ready"
    /\ Launch(programs.encoder, script.data, 1)
    /\ stage' = "encoder"
    /\ UNCHANGED <<verifierVars, clientVars, programs, at>>

Running ==
    /\ XqmxStep
    /\ UNCHANGED <<verifierVars, clientVars, pipelineVars>>

\* solve and _sample_to_xqmx: variables that occur in no coefficient keep the
\* value of a new sample.
SamplesOf(m) ==
    LET known == {i + 1 : i \in Mentioned(m)}
        low == IF m.domain = <<"Binary">> THEN 0 ELSE -1
    IN  {[domain |-> m.domain, rows |-> m.rows, cols |-> m.cols,
          values |-> [i \in 1 .. m.size |-> IF i \in known THEN x[i] ELSE low]] :
            x \in [known -> {low, 1}]}

Sample ==
    /\ stage = "encoder" /\ status = "ok"
    /\ outputs[1].tag = "Model" /\ outputs[1].model.size <= MaxSampled
    /\ \E s \in SamplesOf(outputs[1].model) :
          Launch(programs.verifier, <<outputs[1], SampleVal(s), script.data[1]>>, 2)
    /\ stage' = "verifier"
    /\ UNCHANGED <<verifierVars, clientVars, programs, at>>

Decode ==
    /\ stage = "verifier" /\ status = "ok"
    /\ Launch(programs.decoder, <<calldata[2], script.data[1]>>, problem.slot)
    /\ stage' = "decoder"
    /\ UNCHANGED <<verifierVars, clientVars, programs, at>>

CompiledInit ==
    /\ Init
    /\ code = <<>> /\ phase = "accepted" /\ pos = 1 /\ error = "none"
    /\ targets = <<>> /\ loopOffsets = <<>> /\ jumpRefs = <<>>
    /\ types = [r \in Reg |-> "Unset"]
    /\ depth = 0 /\ entries = <<>>
    /\ lin = <<loopOffsets>> /\ tin = <<types>> /\ din = <<depth>>
    /\ script \in Scripts /\ left = script.calls
    /\ problem = NewProblem
    /\ programs = [encoder |-> <<>>, verifier |-> <<>>, decoder |-> <<>>]
    /\ stage = "declaring" /\ at = "encoder"

CompiledNext ==
    \/ Declare \/ Compile \/ Verify \/ Verified
    \/ Encode \/ Running \/ Sample \/ Decode
CompiledSpec == CompiledInit /\ [][CompiledNext]_allVars

--------------------------------------------------------------------------
(* What a script is.                                                      *)

\* The calls made inside a call.
Within(c) ==
    IF c.call \in Loops THEN <<c.body>>
    ELSE IF c.call = "branch" THEN [k \in DOMAIN c.arms |-> c.arms[k].body] ELSE <<>>
RECURSIVE Somewhere(_, _)
Somewhere(c, kinds) ==
    c.call \in kinds
      \/ \E k \in DOMAIN Within(c) : \E j \in DOMAIN Within(c)[k] :
            Somewhere(Within(c)[k][j], kinds)

\* The lifecycle of spec/xqcp/README.md: inputs, the model, objective and
\* constraints, outputs.
OutputKinds == {"output_decl", "output_append", "output_setitem"}
Sections(calls) ==
    [k \in DOMAIN calls |->
        CASE calls[k].call = "input"             -> 1
          [] calls[k].call = "define_model"      -> 2
          [] Somewhere(calls[k], {"input", "define_model"}) -> 0
          [] Somewhere(calls[k], OutputKinds)    -> 4
          [] OTHER                               -> 3]
InOrder(calls) ==
    LET section == Sections(calls)
        outs == {k \in DOMAIN calls : section[k] = 4}
    IN  /\ \A k \in DOMAIN calls : section[k] # 0
        /\ \A j, k \in DOMAIN calls : j < k => section[j] <= section[k]
        /\ Cardinality({k \in DOMAIN calls : section[k] = 2}) = 1
        /\ outs # {} => calls[Min(outs)].call = "output_decl"
Declared(calls) == SelectSeq(calls, LAMBDA c : ~Somewhere(c, OutputKinds))
OutputCalls(calls) == SelectSeq(calls, LAMBDA c : Somewhere(c, OutputKinds))

\* The names a call mentions, those it gives or changes, and, as a name of its
\* own, the size of the model.
RECURSIVE NamesIn(_)
NamesIn(e) ==
    IF e.kind = "Literal" THEN {}
    ELSE IF e.kind = "Name" THEN {e.name}
    ELSE {e.name} \cup UNION {NamesIn(e.args[k]) : k \in DOMAIN e.args}
Sizing == {"equality", "atleast", "atleastw", "inequality", "reduce"}
RECURSIVE Changes(_), Mentions(_)
Changes(c) ==
    {c.names[k] : k \in DOMAIN c.names}
      \cup (IF c.call \in {"stow", "vec_push", "slack", "inequality"}
            THEN {c.on[k] : k \in DOMAIN c.on} \ {"model"} ELSE {})
      \cup (IF c.call \in Sizing THEN {"size"} ELSE {})
      \cup UNION {UNION {Changes(Within(c)[k][j]) : j \in DOMAIN Within(c)[k]} :
                    k \in DOMAIN Within(c)}
Mentions(c) ==
    Changes(c)
      \cup ({c.on[k] : k \in DOMAIN c.on} \ {"model"})
      \cup UNION {NamesIn(c.exprs[k]) : k \in DOMAIN c.exprs}
      \cup UNION {UNION {NamesIn(c.coords[k][j]) : j \in DOMAIN c.coords[k]} :
                    k \in DOMAIN c.coords}
      \cup (IF c.coords # <<>> THEN {"size"} ELSE {})
      \cup (IF c.call = "branch"
            THEN UNION {NamesIn(c.arms[k].condition) : k \in DOMAIN c.arms} ELSE {})
      \cup UNION {UNION {Mentions(Within(c)[k][j]) : j \in DOMAIN Within(c)[k]} :
                    k \in DOMAIN Within(c)}

\* Constraints go behind the rest of what is declared: a block that moves ahead
\* of a constraint has nothing to do with it.
RECURSIVE Constrains(_)
Constrains(c) ==
    \/ c.call \in ConstraintKinds
    \/ c.call \in Loops /\ \E k \in DOMAIN c.body : Constrains(c.body[k])
Commuting(calls) ==
    \A j, k \in DOMAIN calls :
        (j < k /\ Constrains(calls[j]) /\ ~Constrains(calls[k]))
            => /\ Changes(calls[j]) \cap Mentions(calls[k]) = {}
               /\ Mentions(calls[j]) \cap Changes(calls[k]) = {}

\* The outputs the decoder is made for: to the vector declared last, outside of
\* branches and in one loop at most, whose bounds are made of the first input,
\* a number or a variable of the sample, at the loop's variable or at a number.
RECURSIVE OfN(_)
OfN(e) ==
    \/ e.kind = "Literal"
    \/ e.kind = "Name" /\ e.name = script.calls[1].names[1]
    \/ e.kind = "BinOp" /\ \A k \in DOMAIN e.args : OfN(e.args[k])
Readable(e, var) ==
    \/ e.kind = "Literal"
    \/ /\ e.kind \in {"ColFindExpr", "GetLineExpr"}
       /\ \/ e.args[1].kind = "Literal"
          \/ e.args[1].kind = "Name" /\ e.args[1].name = var
Decodable(c, vec, var) ==
    c.call = "output_append" /\ c.on[1] = vec /\ Readable(c.exprs[1], var)
LastOutput(calls, k) ==
    calls[Max({j \in 1 .. k : calls[j].call = "output_decl"})].names[1]
Supported(outs) ==
    \A k \in DOMAIN outs :
        \/ outs[k].call = "output_decl" /\ outs[k].type = "Vec"
        \/ Decodable(outs[k], LastOutput(outs, k), "")
        \/ /\ outs[k].call = "range" /\ OfN(outs[k].exprs[1]) /\ OfN(outs[k].exprs[2])
           /\ \A j \in DOMAIN outs[k].body :
                 Decodable(outs[k].body[j], LastOutput(outs, k), outs[k].names[1])

\* What the client means, for the data of its inputs.
InputCalls == SelectSeq(script.calls, LAMBDA c : c.call = "input")
Env == [n \in {InputCalls[k].names[1] : k \in DOMAIN InputCalls} |->
            script.data[CHOOSE k \in DOMAIN InputCalls : InputCalls[k].names[1] = n]]
Intended == MeaningOf(Declared(script.calls), Env, Unset)
IntendedFor(sample) == MeaningOf(script.calls, Env, sample)

\* A penalty on a sum of squares is a penalty on binary variables only.
Expressible(m) ==
    m.domain = "Binary" \/ \A k \in DOMAIN m.terms : ~m.terms[k].square

Ended(s) == stage = s /\ status # "running"

--------------------------------------------------------------------------
(* Properties.                                                            *)

\* The registers of a problem: each call got registers of its own, so that no
\* two of the client's names share one, and none is past the last.
OwnRegisters ==
    \A m, n \in DOMAIN problem.symbols \ {"sample"} :
        /\ problem.symbols[n].reg \in 0 .. MaxRegister
        /\ m # n => problem.symbols[m].reg # problem.symbols[n].reg
CompiledTypeOK ==
    /\ XqmxTypeOK /\ VerifierTypeOK
    /\ stage \in {"declaring", "compiling", "ready", "encoder", "verifier",
                  "decoder", "raised"}
    /\ OwnRegisters

\* A problem declared in the order of the lifecycle compiles: whatever loops,
\* branches, vectors and constraints it is made of, the three programs pass the
\* verifier, as long as its outputs are of the form the decoder is made for and
\* nothing that moves ahead of a constraint depends on it.
CompileAccepts ==
    (stage = "raised" /\ problem.error = "none")
        => ~(/\ InOrder(script.calls) /\ Commuting(Declared(script.calls))
             /\ Supported(OutputCalls(script.calls)))

\* And the encoder then makes the model the client means: of the same size and
\* grid, and of the same energy for every assignment of its variables.
EncoderMeansProblem ==
    (Ended("encoder") /\ InOrder(script.calls) /\ Commuting(Declared(script.calls)))
        => \A m \in Intended : Expressible(m) =>
            /\ status = "ok" /\ outputs[1].tag = "Model"
            /\ LET model == outputs[1].model
                   low == IF m.domain = "Binary" THEN 0 ELSE -1
               IN  /\ <<model.size, model.rows, model.cols>> = <<m.size, m.rows, m.cols>>
                   /\ \A x \in [1 .. m.size -> {low, 1}] :
                          Hamiltonian(model, x) = TotalEnergy(m, x)

\* The verifier program reports the energy the client's terms give the sample,
\* and calls a sample of a square grid of binary variables valid only if every
\* line the client wanted one-hot is.
Lines(sample) ==
    {line \in UNION {m.lines : m \in Intended} :
        Cardinality({k \in DOMAIN line : sample.values[line[k] + 1] = 1}) # 1}
VerdictSound ==
    (Ended("verifier") /\ InOrder(script.calls) /\ Commuting(Declared(script.calls)))
        => LET sample == calldata[2].sample
           IN  \A m \in Intended : Expressible(m) =>
                /\ status = "ok"
                /\ outputs[1] = IntVal(TotalEnergy(m, sample.values))
                /\ (/\ outputs[2] = IntVal(1) /\ m.domain = "Binary"
                    /\ {m.rows, m.cols} \subseteq {0, script.data[1].int})
                     => Lines(sample) = {}

\* The decoder fills the outputs with what the client reads off the sample.
DecoderMeansOutputs ==
    (Ended("decoder") /\ InOrder(script.calls)
       /\ Supported(OutputCalls(script.calls)))
        => \A m \in IntendedFor(calldata[1].sample) :
            /\ status = "ok"
            /\ LET decls == SelectSeq(script.calls, LAMBDA c : c.call = "output_decl")
               IN  outputs = [k \in DOMAIN decls |-> VecInt(m.outputs[decls[k].names[1]])]
==========================================================================
