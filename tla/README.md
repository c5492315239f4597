# XQuad in TLA+

A model of the XQuad tool chain: the XQVM, the stack machine that runs
optimisation programs (`src/xqvm`), the verifier that looks at programs before
they run, the builder, assembler, file format and disassembler that make and
show them, the reference VM in Python and the wrapper that puts both behind
one object, and the compiler that turns a declared problem into three programs.
TLC checks it on small instances; TLAPS proves for every instance what
matters most about the arithmetic, the VM, the verifier, accepted programs, models, traces,
the builder, assembler and file format, and the state of the Python VM.

## 1. The system

Source lines are those of `src/`; Rust sizes include unit tests.

| part | source | state it keeps | operations |
|------|--------|----------------|------------|
| VM core | `xqvm/src/vm.rs`, `value.rs` | value stack (max 8192), 256 registers, loop frames, calldata, output slots, step counter and limit | host: `set_calldata`, `set_output_slots`, `set_step_limit`, `set_register`, `reset`, `run`, `run_trace`; one handler per instruction |
| verifier | `xqvm/src/verifier.rs` | per phase: open loops, targets, jump references, register types, static depth | `Verifier::run`: `CombinedPhase`, `RegisterTypePhase`, `StackEffectPhase`; stand-alone phases; `scan`, shared with `Program::new` |
| instruction tables | `xqvm/src/bytecode/types/` | none | opcode, operands and stack effect of each instruction |
| program and stream | `xqvm/src/bytecode/program.rs`, `jump_table.rs`, `stream.rs` | code bytes, jump table, slot counts; stream position | `Program::new`, decode and encode of the XQBC container, `next_instruction`, `seek` |
| codec | `xqvm/src/bytecode/codec.rs` | none | instruction <-> bytes |
| builder | `xqvm/src/bytecode/builder.rs` | emitted instructions, labels, pending jumps | `label`, `place`, `emit`, `jump`, `build` (narrow or wide jumps) |
| XQMX | `xqvm/src/model.rs` | linear and quadratic coefficients, size, grid | get, set, add, resize, energy |
| high-level constraints | `xqvm/src/vm.rs` (from `exec_one_hot_r`) | the model in a register | `ONEHOT`, `EXCLUDE`, `IMPLIES`, `EQUALITY`, `ATLEAST`, `ATLEASTW`, `REDUCE` |
| tracers, disassembler, errors | `xqvm/src/tracer/`, `disasm.rs`, `error.rs` | none | formatting |
| assembler | `xqasm/src/` | label map, first references | text -> builder calls |
| command line | `xqcli/src/` | none | `asm`, `dism`, `verify`, `run` |
| Python bindings | `xqffi/src/` | one `Vm` per object | the VM's and the verifier's calls |
| Python VM | `xqvm_py/` | the same state as the VM core | a second implementation of the instruction set |
| wrapper | `xquad/` | backend, deferred inputs and limits | one `VM` object over either implementation |
| compiler | `xqcp/` | recorded actions and constraints, next register, next output slot | the calls that declare a problem; `compile`: encoder, verifier program, decoder |
| sampler | `xqsa/` | none | simulated annealing over a model |
| conformance harness | `conformance/src/` | none | vectors against the VM |

**Interactions.**  The compiler writes assembly text, the assembler turns text
into calls on the builder, the builder makes a program.  `Program::new` runs the verifier's `scan` over the code for its jump
table and ignores the scan's verdict.  A host (command line, bindings, wrapper)
may verify a program and may run it; nothing ties the two.  A VM is a value used
by one thread: the host's calls happen between runs, never in one.  The model of a register is
changed by the XQMX handlers; `OUTPUT` copies registers to slots the host reads.  `xqcp` has its programs
verified through the bindings; the examples run the encoder, hand its model to
the sampler, and run the verifier program and the decoder on the sample.

**What is hard here.**  Nothing runs concurrently and nothing is persisted.
The difficulty is in long sequences of legal steps:

- *What a run leaves behind.*  `run` resets the step counter only.  After an
  error, a `HALT` in a loop or an exhausted step limit, stack, registers and
  loop frames are what the next run starts from, of any program: a frame then
  leads to an offset of code that is no longer there.
- *Static against dynamic.*  The verifier walks the code once, in order, with a
  loop stack per phase; the VM jumps, iterates and skips empty loops.  What
  the first computes has to hold in the second.
- *The empty-loop scan.*  It passes over instructions without executing or
  counting them.
- *Partial failure.*  A handler pops, checks, writes and may fail in between.
- *Edges of i64.*  Wrapping and unchecked additions live side by side.
- *Two implementations* of one instruction set, one of them with vectors by
  reference, and a wrapper that is to hide which one is used.
- *Numbers given late.*  Label numbers, jump widths and with them all positions
  are known only when a program is finished.
- *Generated code.*  `xqcp` reorders what was declared, gives out registers and
  labels, and writes three programs that must fit each other.
- *Constraints as numbers.*  An expansion is right if a sum of coefficients is a
  penalty on every assignment, slack and auxiliary variables included.

**What correct means, part by part.**

| part | properties |
|------|------------|
| VM core | a run ends; the stack keeps its limit; frames have an element for `LIDX`/`LVAL`; the stream stays inside the code; a failing instruction writes nothing, up to two exceptions; arithmetic is floor division, two's complement, dense indices |
| verifier | the combined scan accepts what the separate phases accept; the depth pass sees the same loops as the scan; depth, loops and types are those of every run of an accepted program |
| codec, builder | decoding inverts encoding and finds its way back after a bad byte; a jump reaches the `TARGET` its label was placed at |
| XQMX, constraints | coefficients are canonical and within the size; an expansion is the penalty function it stands for |
| wrapper, Python VM | both backends produce the same outputs and errors |
| compiler | no register is given out twice; the programs are accepted; they compute what the calls mean |

`PROJECT.json` lists every component with its status and every hazard at its line.

## 2. Modules

```
Alu  Isa ── XqVm ──┬── VerifiedRun ── (Verifier)          Assembly (abstract)
                   ├── XqmxVm ── Tracer ── ModelParity         ▲ refines
      Xqmx ────────┘      │                  (PyXqmx)     Builder ── Assembler ── Toolchain
                   ├── Backends (PyVm)                      (Codec)
                   └── CompiledRun (XqmxVm, Verifier, Problem, Compiler, Meaning)
```

Code is a sequence of places, counted from 1, and a jump table is a sequence of
places.  A place is a byte in general: it has the instruction that decodes from
there on and its `width`, how far behind it the next one starts.  So a code has
an instruction at its operand bytes too, which runs only if the stream is sent
there, and only one thing can send it: `NEXT` on a frame left by another program.
Where no frame is left when a run starts - on a VM that is new or was reset - one place for each
instruction is enough (`OnePlaceEach`): Verifier, Backends and the instances of Tracer
and CompiledRun have it that way, XqVm and its run do not.  What the bytes are is
the business of Codec, Builder, Assembler and Toolchain.

### The VM

**Alu** - the operators of the arithmetic, comparison, logic, bitwise and index
instructions over words of `WordBits` bits (64 in the code).  `Wrap` is two's
complement reduction; `TruncDiv` and `TruncRem` are Rust's `/` and `%`, and
`FloorDiv`, `FloorMod` the handlers' adjustment of them, written the way the
code does it so that it can be compared with the mathematical definition.

**Isa** - operations, instructions, `StackDelta` (the table's `stack_delta`
column, used by the verifier) and `Needs` (how many values a handler pops or
looks at).  The two are different tables on purpose: the first is what the
verifier believes, the second what the VM does.

**XqVm** - the `Vm` struct and its runs.  Variables are its fields plus the
stream (`prog`, `pc`), the run's outcome (`status`: idle, running, ok or the
error) and `skipDepth`, the depth counter of the `SkipLoop` branch.

| code | model |
|------|-------|
| one turn of `run_trace`'s loop | one `VmStep` |
| limit check, counter, fetch, decode | `Executing`, `StepLimitHit`, `EndOfStream`, `ExecBad` |
| `exec_*` | `Exec*`, each the whole handler with its early returns |
| `pop` on too short a stack | `Underflow`: every handler pops all of its operands before anything else, so one action covers them, and the operands popped before the failing one are gone |
| `StepResult::Continue`, `Jump`, an `Err` | `Continue`, `JumpTo`, `Fault` |
| `stream.seek`, `SeekOutOfBounds` | `Seek`: to any place of the code or its end, else an error, in `JumpTo` and in `ExecNext`, whose frame has advanced by then |
| `StepResult::SkipLoop`, the scan | `ExecRange` sets `skipDepth`, `SkipScan` is one instruction of the scan |
| host calls | `Run` of any program over whatever is left, `Reset`, `SetCalldata`, `SetOutputSlots`, `SetStepLimit`, `SetRegister` |

In XqVm models and samples are opaque: its handlers move them between registers,
slots and frames.  `OverflowChecks` chooses between the two kinds of build
`Cargo.toml` has: an unchecked `+` that overflows panics in one and wraps in the
other.

**Xqmx** - models (a map from one index or an ordered pair of indices to a
coefficient, size, grid, domain) and samples, and the terms each constraint
expands to.  A coefficient that is zero is not in the map.
**XqmxVm** - the handlers that work on them, with the order of their checks, as
actions over the variables of XqVm; `XqmxStep` is `VmStep` with these added, `XqmxSpec`
the VM with it.
**Tracer** - `run_trace` with a tracer: `line` is the state it is handed after
each step, built from the two hand-written tables of registers an instruction
reads and writes, `known` what a reader of the lines knows of each register
(`Told` by a line), and `TracedSpec` the VM with both.

**Verifier** - the default chain, one instruction per step.  `lin`, `tin`, `din` are
history variables: the open loops, register types and depth before each position.
**VerifiedRun** - Verifier and XqVm together: a code is verified, loaded (with
the targets the scan collected as jump table) and run, accepted or not; then the
VM is reset and it runs again.

### From source to bytes

**Codec** - a cut of the opcode table, with operands of one to `WordBytes` bytes,
encode, decode and its errors, the stream that passes over bytes that do not
decode, the XQBC container with its checksum, and what a listing shows of each
line.  A checksum that tells single damages apart stands for the CRC of an
external crate.
**Builder** - the `InstructionBuilder`: buffer, label positions and fixups, one
action per call of a client, and `build` with its errors, renumbering, patching
and narrowing.  `calls` and `meaning` are history fields: what the client wrote,
and what the built program does, position by position.
**Assembly** - what the builder promises, without bytes: a label is the position
it was placed at.  `Builder!KeepsItsPromise` is its specification under
the mapping `items <- b.calls`, `outcome <- built`.
**Assembler** - `assemble`, line by line: the label map, the kinds and ranges of
operands, the calls on the builder, and the conversion of its errors.
**Toolchain** - `asm` and `dism`: the program is written, the file damaged or not,
loaded and listed.

### The second VM

**PyVm** - `Executor` of `xqvm_py`, handler by handler, with vectors as references
into a `heap`.  `unportable` is a history variable: the instructions executed so far
that the two VMs are known to treat differently.
**Backends** - the wrapper's `VM` on both backends at once, the Rust run first
(they share only the host's own `Vec` objects, which the Rust backend copies).  A run is one
of the VM object (`RunVm`: its own Rust VM, which keeps its limit `vmLimit` where the host
gives none) or one of a `Session` or `xq run` (`RunSession`: a new VM, with its default).
**PyXqmx** - the model handlers of `xqvm_py` as functions of stack and object.
**ModelParity** - asks PyXqmx for its result whenever XqmxVm executes a model
instruction; `KnownDifference` is the exact list of exceptions.

### The compiler

**Compiler** - `compiler.py` as functions from recorded actions to code: the
expressions that emit themselves, loops, branches with their labels, the
partition into objective and constraints, the verifier program and the decoder.
The text between compiler and assembler is left out: `Linked` gives a jump the
number the assembler would.
**Problem** - `problem.py`: what each call of a client records, the registers and
output slots it takes, the errors it raises.  A client's expressions speak of names;
`Resolved` replaces them with the references of `symbols.py`.
**Meaning** - what the same calls mean without registers or programs: a
sum of terms over assignments and the outputs read off a sample, in mathematical integers.
**CompiledRun** - a problem from its declaration to its outputs: `Declare` one call,
`Compile`, `Verify` each program, `Encode`, `Sample`, the verifier program, `Decode`,
with the VM of XqmxVm and the verifier of Verifier.

**AluProofs, MCAluProofs, XqVmProofs, VerifiedRunProofs, XqmxVmProofs, ToolchainProofs,
BackendsProofs** - theorems, section 4; each extends the module it is about.  ToolchainProofs has three
parts, on Builder, on what Assembly and Assembler promise, and on Codec and Toolchain.
**Inductions** - what they need of induction, folds and sequences.
**MC...** - instances for TLC.

## 3. Runs

| run | question | bounds |
|-----|----------|--------|
| `alu` | do the operators agree with their definitions? | every pair of 6-bit words: all sign combinations, both boundaries, every shift count and every power of two |
| `vm` | what do runs do to the VM, and to the next run? | 4-bit words, 2 registers, stack limit 3, step limit 3 or 9; about 800 programs: two arbitrary control instructions after two operands, nested loops, every other operation on six stacks; then the same program or a probe once more without a reset; code by bytes |
| `verified_run` | does what the verifier computed hold in every run? | 4-bit words, depth and stack limit 5, 24 steps; some 4000 codes: every code of three instructions over ten operations, loops with two-instruction bodies, two nested loops, jumps into, out of and across a loop, straight-line register code |
| `xqmx` | is an expansion its penalty, is the Python handler the same, is the trace complete? | 6-bit words; models with coefficients, a grid, spins, and one whose energies overflow; every model instruction on every choice of two or three operands around the edges of the model; vectors with repeated, absent and negative indices; two instructions in a row |
| `toolchain` | do jumps reach their labels, are errors deserved, do files and listings keep everything? | 3 labels, of which 1 fits the narrow jump and 2 the wide one, so that both limits are passed; 8 bytes of buffer in a client's hands; every source of up to 5 lines over 15 lines; every single damage of the file |
| `backends` | do the two VMs agree? | 4-bit words, 14000 programs: arithmetic on nine words at the edges, every two or three register and vector operations, loops over ranges and slices, nested, empty and left open, jumps; step limits 0, 7 and 20; a second run after the limit was taken back or a reset |
| `compiled` | do compiled problems compute what they mean? | 8-bit words, 13 registers, 200 clients: seven objectives and nine constraints on variables in a row in both orders, three and three on a grid, reductions, nested branches, inequalities, vectors used again, both domains, ten forms of output, and problems declared out of order; every assignment of up to 4 variables as sample |
| `false_positive`, `empty_iter`, `arbitrary_weights`, `bare_target`, `backends_differ` | violations, below | as the run of the same module |

Why the bounds are enough: the word has to hold the counts, the lengths and its
own width, which is why it is at least 4 bits; the stack limit is reached by
programs of the instances and left by them; step limit 3 cuts programs in the
middle of loops, 9 and 24 let most of them end; a wrapping range starts at 7,
the largest 4-bit word; two nested loops are enough for the inner one to be skipped,
left open, or closed by the wrong `NEXT`; two runs are enough for one to leave something
and the other to find it.  MCXqVm lays programs out by bytes, with the opcode bytes of
`table.rs`, and three of its probes start with `LVAL 1, NEXT`, on frames the first run left.  With
nothing behind, the body of such a frame lies past the probe's end, where the seek fails; with `NOP, PUSH 7`
it is the operand byte 7, which decodes as `NEXT`, or just the end of the code; with `NOP, PUSH 1, TARGET`
the `TARGET` or the operand byte 1, which decodes as a jump whose label is the byte after it, 0.
All of this is reached, among 217,450 states.  `MaxSteps` is `u64::MAX`, reached in the instance because
`set_step_limit(0)` means it.  An expansion is a polynomial of degree two, and its
penalty is compared on every assignment of the variables it mentions; weights that
sum to a power of two, to one less and to one more sit at the edges of the slack count.
Two jumps, one of which shrinks, in either order and on either side of a label
cover the movements of narrowing; a third label is one too many for the wide form.
In `compiled` 400 steps let every program end, no energy passes 8 bits,
and three of something is more than any rule of the compiler counts to.

What the properties say, briefly (each has its statement in the module):

- `TypeOK` - the types, with two parts that are more: the stack keeps its limit, and the
  stream never leaves the code, whatever frame a `NEXT` finds;
  `FramesHaveElements` - no loop frame, not even a stale one, is exhausted;
  `FailureWritesNothing` - a failing instruction leaves registers, outputs and
  frames alone, with two exceptions, stated exactly: `SLACK` appends to its first register before
  it looks at the other, and `NEXT` moves the innermost frame on (its body and the other
  frames stay as they are) before the seek to a body outside the code fails; `RunsEnd`.
- `ScanIsPhase1` - one walk against three phases; `PhasesAgree` - two loop stacks,
  kept by the scan and by the depth pass (the type pass keeps none); `DepthSound`, `LoopsSound` - the depth and the loops at every
  position, in every run of an accepted program whose jumps connect positions of
  equal depth and loops (the verifier does not follow jumps, so this is the
  strongest statement that holds); `AcceptedRunsClean` - the errors the verifier rules
  out; `TypesSound` - for straight-line code, where the type pass is complete; `Inductive` -
  the invariant all of these follow from, section 4.
- `ExpansionsExact` - a constraint changes the energy of every binary assignment by
  exactly its penalty; `SlacksExact` - slack variables can make the penalty of an
  inequality vanish exactly where it holds (weights not negative); `AuxiliaryForced` - the variable
  `REDUCE` adds is the product or costs; `FailedInstructionAddsNothing`;
  `ModelInstructionsAgree` - PyXqmx outside `KnownDifference`; `TraceComplete` - the
  trace tells what is in every register.
- `BufferOK` - fixups sit at wide jumps and labels at `TARGET`s; `KeepsItsPromise` - the
  refinement; `SourceIsProgram` - the program is the source, line by line;
  `ErrorsDeserved` - each error is one the source has; `LoadedIsBuilt` - a damaged
  file does not load (its slot counts are counted again); `ListingComplete` - the code can be
  rebuilt from its listing.
- `PortableRunsAgree` - one program, one outcome, outside the list of `unportable`
  instructions and the step limits 0 and "exactly enough"; `BothEnd`.
- `CompileAccepts` - a problem declared in the order of the lifecycle compiles;
  `EncoderMeansProblem` - its model has the energy of `Meaning` for every assignment;
  `VerdictSound` - the verifier program reports that energy, and calls valid only
  what is one-hot where the client wanted it; `DecoderMeansOutputs` - the outputs
  are what the client reads off the sample.  Their preconditions are exact about what
  the compiler is made for: `Commuting` (nothing that moves ahead of a
  constraint has to do with it), `Supported` (one loop at most, appending to the
  output declared last), `Expressible` (sums of squares are penalties on binary variables).

**Fairness.**  `RunsEnd` needs weak fairness of `VmStep`: a started `run_trace` is
a loop on the caller's thread, without waiting.  `BothEnd` needs it of
`Running`, the steps of `run_bytecode` on either backend, for the same reason.  The host is
under no obligation.  The other properties need none.

**Deadlock** is not checked in the runs of programs: a finished run with nothing
more to do is where those instances stop.

**Disagreements with the documents** that a run shows:

- `spec/xqvm/VERIFIER.md:125` and `xqvm/src/verifier.rs:861` promise no false positives on valid
  programs; a branch inside a loop body that pushes one value in either arm is
  rejected with `LoopStackImbalance` and runs to its end (`false_positive`).
- `spec/xqvm/ISA.md:40` has `ITER` skip an empty slice; `exec_iter` pushes a frame without
  elements and enters the body (`empty_iter`).
- `spec/xqvm/HLF.md:95` has `ATLEASTW` enforce its inequality for arbitrary weights; with a
  negative weight assignments that satisfy it are penalised (`arbitrary_weights`).
- `xqvm/src/bytecode/builder.rs:430` says a label number is the place of its `TARGET` in
  the stream; a `TARGET` emitted as an ordinary instruction shifts them (`bare_target`).
- `conformance/README.md:3` has the two VMs agree on every observable behaviour;
  the Python VM leaves a loop with an empty body after one round (`backends_differ`).

Others met while modelling, without a run:

- VM: `SETQUAD` and `ADDQUAD` store coefficients of variables beyond the model
  (`ISA.md:245`); `EQUALITY` grows a model though `HLF.md` has only `SLACK` and `REDUCE`
  change sizes; `IDXTRIU` does not sort its pair (`ISA.md:222`; Python does); the fetch
  past the last instruction counts as a step, so a limit equal to the number of
  instructions fails a program without `HALT`; `xq run --step-limit 0` is described as
  unlimited and leaves the default in place; a `NEXT` at `i64::MAX` panics in a build with
  overflow checks; an expansion that panics midway leaves terms behind.
- Assembler: an undefined label is reported with the builder's number of it, not the
  source's (`xqasm/src/error.rs:187`).
- Two VMs: everything named in `KnownDifference` and `unportable`: vectors by
  reference (`ISA.md:51` says copy), `SLACK` without capacity or on one register twice,
  shifts by 64 or more, slots out of range, slices out of range, negative sizes,
  indices and grids beyond the model, the order of checks in `ATLEAST`, overflow
  (which `SPEC.md:58` leaves open); a spin sample's zero comes back as -1.
- Compiler: constraint blocks move behind later objective blocks, whatever those
  change; in the decoder nested loops share `r10`, an index that is an input or a stored
  value becomes `N`, and what is appended to an output goes to the one declared
  last - silently, since the verifier accepts the program; `output[i] = ...` with a loop
  variable, and row sums, column sums and `rowfind` of the sample, do not compile or read an
  unset register; the verifier program calls every spin sample invalid, looks at `N`
  rows and columns whatever the grid is, and does not look at `exclude`, `implies` and
  equalities; an input declared after another allocation is read from the slot with its
  register's number; one declared in a branch is never read; an `iter` over an empty slice
  fails; `inequality` leaves its slack variables in the client's vectors; a branch callable that
  raises leaves its buffer in place of the recorded actions.

## 4. Proofs

TLAPS proves, for every value of the constants:

| theorem | module | statement |
|---------|--------|-----------|
| `UnaryInWord`, `BinaryInWord` | AluProofs | what an instruction without an error pushes is a word |
| `DivisionFloors`, `BitLengthCounts`, `BitwiseOperatorsAgree`, `PairsAreNumbered` | MCAluProofs | `FloorDivision`, `BitLenBrackets`, `BitwiseAgree`, `TriuDense`: everything the run `alu` checks |
| `TypeCorrect` | XqVmProofs | `Spec => []TypeOK`, the host running any program after any other, frames left or not |
| `FramesSound` | XqVmProofs | `Spec => []FramesHaveElements` |
| `FailuresSound` | XqVmProofs | `Spec => FailureWritesNothing`, likewise, with the two exceptions the property names |
| `CombinedPhaseIsThePhases`, `LoopStacksAgree` | VerifiedRunProofs | `VerifierSpec => []ScanIsPhase1`, `VerifierSpec => []PhasesAgree` |
| `VerifiedInductive` | VerifiedRunProofs | `VerifiedSpec => []Inductive`; what it says of depth and loops in a run, it says of accepted programs that are `Disciplined` |
| `VerifiedTypeCorrect`, `DepthsSound`, `LoopsSoundness`, `AcceptedRunsAreClean`, `TypesSoundness` | VerifiedRunProofs | `[]` of `VerifiedTypeOK`, `DepthSound`, `LoopsSound`, `AcceptedRunsClean`, `TypesSound` |
| `ModelsSound` | XqmxVmProofs | `AnyModel` implies `XqmxSpec => []XqmxTypeOK` |
| `ModelFailuresSound` | XqmxVmProofs | `AnyModel` implies `XqmxSpec => FailedInstructionAddsNothing` |
| `TracesComplete` | XqmxVmProofs | `AnyModel` implies `TracedSpec => []TraceComplete` |
| `BufferSound` | ToolchainProofs | `EmitsInstructions` implies `BuilderSpec => []BufferOK` |
| `BuilderImplements` | ToolchainProofs | `OrdinaryClient` implies `BuilderSpec => KeepsItsPromise`: the builder implements Assembly |
| `SourceAssembles`, `AssemblyErrorsDeserved`, `AssembledBufferSound` | ToolchainProofs | `OrdinarySource` implies `AssemblerSpec => []` of `SourceIsProgram`, `ErrorsDeserved`, `BufferOK` |
| `AssemblerImplements` | ToolchainProofs | `OrdinarySource` and `OrdinaryClient` imply `AssemblerSpec => KeepsItsPromise`: what the assembler does to the builder is an execution of Assembly |
| `ListingsComplete`, `LoadedWasBuilt` | ToolchainProofs | `OrdinarySource` and `EmitsBytes` imply `ToolchainSpec => []` of `ListingComplete`, `LoadedIsBuilt` |
| `PythonTypeCorrect` | BackendsProofs | `BackendsSpec => []PythonTypeOK` |

*Assumptions.*  `WordAssumption`: the word has 4 bits or more, and `2 ^ n` is what it is for
exponents up to the width (`2 ^ 0 = 1` and doubling, which the solvers do not know).
`RegAssumption`.  `VmAssumption` (limits are positive, programs are well formed, what the host
passes is of the right type), `VerifierAssumption` and `VerifiedAssumption` (the same of
codes, of one place for each instruction, since no frame is left when these runs start; the verifier's depth limit is not above the VM's stack limit: both are 8192).
`HostAssumption`: one place for each instruction, as `run_bytecode` resets the VM before a run; the host's vectors hold integers, of any size, and its calldata is made of
what the wrapper accepts; an integer that is no word is refused by the bindings, which is
`Convertible`, and taken by the Python VM.  `AnyModel` is no restriction: it gives `Models` and `Samples`, the models and samples a
host may pass, their largest value.  `CodecAssumption`, `BuilderAssumption`: the sizes of the
format, with room for a label number in the operand of each jump.  `EmitsInstructions`: what a
client emits as it is has a row in the opcode table, which is what the type `Instruction` says
in the code.  `OrdinaryClient`: besides, it emits no `TARGET`, jump or constant that way but
makes the calls that are for them, and its constants are words; the run `bare_target` shows
that a client that does emit a `TARGET` gets jumps to other places.  `OrdinarySource` asks the
same of the lines a source is made of: none is a bare `TARGET`, which the assembler emits as
it is; what the lines name, constants and other instructions, is in `Constants` and `Emitted`, and
there are no more labels than the model's bound `MaxLabels`.  There is no bound on the length of a source
(`MaxLines` may be any number), on the names of labels or on the kinds and numbers of operands.
MCToolchain states the part of it that is about lines as `SourceAssumption`.  `EmitsBytes`: the
operands of what is emitted are in the range of their field, which the types of the code say of
registers (`u8`), labels and constants.  `PowerAssumption`: the powers of 256.
TLC evaluates the assumptions for each instance.

*The VM.*  `TypeOK` is inductive as it stands.  `pc` stays in the code because an
instruction that decodes ends in it (`WellFormed`), and because nothing goes back but through
`Seek`: where the body of a frame lies is not known, another program may have pushed it.
That the stack keeps its limit needs the operand counts: a handler that
pushes without the check of `push_stack` has popped at least one value.  The lemmas
`Operands`, `Outcomes` and `Pushed` state this once; then there is one lemma per
handler, or per group of handlers that touch the same state.
`FramesHaveElements` is inductive together with `TypeOK`.  Its one arithmetical fact is
`WrappedEndDiffers`: the end of a range is never its start, since a positive
count is smaller than the number of words.  `FailuresSound` needs
`TypeOK` for the frames and goes through the handlers and shows that each write sits on the branch that continues; `NextFailsAtBody`
is the exception: what `NEXT` has written when its seek fails.

*Arithmetic.*  Induction is over exponents, from the two facts on powers, by least
counterexample (`UpFromZero`).  Every bit pattern is a word (`SomeWordHas`)
and a word is the number its bits add up to, which is what the laws of the bitwise
operators come down to; division goes through the signs of its operands; pairs are
counted one by one along the index.

*The verifier.*  `WalkInv` says of every position the walks have passed how what was
recorded before it determines what was recorded behind it: `ScanFollows` for the loops,
`TypesFollow` and `DepthFollows` for the other two passes.  An opener at `p` has
`lin[p+1] = Append(lin[p], p)`, a `NEXT` at `p` drops the last, and (`LoopsNest`) the loops before a
position are, up to each of its openers, the loops before that opener.  `CountInv` ties the counters of the
separate phases to the single walk; at its end it is `ScanIsPhase1`.

*Accepted runs.*  `Inductive` adds what the VM has to do with it: at an instruction the
depth and the frames are those recorded at `pc`; while the scan passes over an empty loop
(`SkipFollows`) the loops at `pc` are the active ones, the skipped one and
`skipDepth - 1` more, and the stack is as deep as behind the loop; what is left over is a run
of the loaded code, or a VM that is new or was reset.  Preservation follows the VM's steps: straight on,
into a loop, back to its body, out of it, over it, and a jump, where `Disciplined` is used.

*Models.*  A coefficient map stays canonical under `WithCoef`, whatever term is
added; a fold over any list of terms therefore ends in a model or a panic
(`ExpandOK`).  Folds and sums are recursive definitions of the community modules, which the provers
know only as `CHOOSE`: `FoldExists` shows that a function with their equation exists, by well-founded
recursion, and the rest is induction on subsets (`UpFromEmpty`).  Then there is one
lemma per handler, for the three theorems each: what a handler writes is
of the type of its register, what it leaves after an error, and that no register outside the
tracer's table of writes changes.

*The builder.*  `BuilderInv` says that the buffer spells what the calls asked for
(`Spells`: there are places `at[0] < at[1] < ...` and the bytes between two of them encode one
instruction), that a placed label is the place of one call of `place`, and that the fixups are
the calls of `emit_jump`, in order.  `DecodeStart` is that decoding inverts encoding, one operand after the
other along `SizeOfFields`; `StreamSpelled` follows: the stream of a code that is spelled has these
instructions at these places, whence `BufferOK`.  For `build`, `PatchedTurns`, `NarrowedTurns` and
`OffsetTurns` turn its three folds into chains of states, and each chain has an invariant.  While
patching, the code spells the same at the same places.  While narrowing, the jump at
hand is still wide and stands at its site less the bytes taken out before it
(`ShrinkTurn`), because the fixups are in the order of their sites.  While the jump table is collected,
a label is found under the number of labels placed before it (`Found`), which is what
`SequentialId` counts over the places in the buffer: the places move, their
order does not.  `RunsAsMeant` puts this together for each kind of call, `SameLabels` compares
what `build` refuses with what Assembly refuses, and `StepImplements` maps each call to a
step of Assembly or, for `label` and a refused `place`, to none.

*The assembler.*  `AssemblerInv` adds to `BuilderInv` what `assemble` keeps beside the
builder: the k-th call, not counting those of `label`, is the one the k-th line makes (`Follows`,
`Answers`); two names never have the same label of the builder, and a name is marked as placed
exactly if its label is placed there (`Names`).  The second part is what makes the check for a
duplicate in `assemble` the same as the builder's own, which can then never fail; and it
bounds the labels in use.  A line is one step of the model but up to two calls of the builder, `label`
and then `place` or `emit_jump`: the lemmas on the builder's calls are used one after the
other.  `AssemblerKeeps` proves at the same time that every step is one that Assembly knows
(`BuilderStep`).  `SourceIsProgram` then follows from `BuiltRuns`, and `ErrorsDeserved` from
the labels a source defines, refers to and leaves idle being those that are placed, referenced and unused
in the builder (`LabelsAgree`, `ErrorsAgree`).

*The file and the listing.*  A file is empty, what `build` made of the source, or that with one damage;
what is loaded is code given as it is or what `DecodeProgram` returns for the file, with its
listing (`ToolInv`).  That needs decoding to invert encoding in both directions: `DecodeStart` for
the bytes of an instruction, `DecodedBytes` for the instruction of any bytes that decode.  The
stream steps over one byte where nothing decodes, so that it is at the end of any bytes after finitely
many items, and the lines of a listing stand for adjacent pieces of them (`FlattenRuns`).  The checksum
differs between codes that differ in one byte, because what it multiplies by has an inverse modulo the
prime it reduces by; the slot counts of a file are compared with those of its code.

*The Python VM.*  `PythonTypeOK` alone is not inductive: a reference goes from an input slot to a
register and an output slot, an element of a vector becomes a value of a frame, and the next run
starts from the host's vectors as the last one left them.  `BackendsInv` has the types of the whole state of
`PyVm` (`StateOK`, `HeapOK`, `ProgramOK`), that the heap begins with the host's vectors, and the `TypeOK`
of the Rust VM, whose proof is used as it is: `RustStep` is a step of XqVm, and what
`StartRust` sets up is of its types because the bindings refuse what is not.  There is one lemma per
handler; `PushEnds` is the only place where a computed integer has to be a word, which is the
point of the property: `check_i64` in `push` is all that bounds a stack of unbounded integers.

*Model-checked only.*  `RunsEnd` and `BothEnd` (liveness); what an expansion adds to the
energy (`ExpansionsExact`, `SlacksExact`, `AuxiliaryForced`: identities over sums); a source with bare
`TARGET`s.  `PortableRunsAgree` compares two runs one of which is over when the other starts, so that
an invariant of it needs every state of the first run kept for the second; TLC
compares the ends.  `ModelInstructionsAgree` compares folds over the same terms in another
order.  Problem, Compiler, Meaning and CompiledRun recur over trees of expressions with `RECURSIVE`
operators, which keeps the compiler with TLC.

## 5. Not modelled, and the plan

**To prove next**, in this order:

1. `ExpansionsExact`, then `SlacksExact` and `AuxiliaryForced`: what adding a term does to the
   sum over a model, and the identities of squares of sums.
2. `PortableRunsAgree`, from a composition that runs both VMs in step, one instruction at a time.
3. `CompiledTypeOK`, once the recursions of Compiler are functions.

**Not modelled**, and why:

- *Formatting*: how the tracers lay out a line, the columns of the
  disassembler, the texts of errors.  What a line or a listing contains is modelled.
- *Text*: the assembler's grammar and its reading of numbers; Assembler starts from parsed lines,
  with numbers in or out of range.
- *The sampler's randomness*: a run of `xqsa` may return any assignment, so
  the model takes every assignment as its result.  The backends behind it (`dimod` and others)
  are outside the repository, what they do with an empty model included.
- *The conformance harness*: a test of the VM by vectors.
- *Failing tracers*: `run_trace` propagates an error of its tracer after the handler
  has written; the tracers of the repository fail only if their writer does.
- *Running out of memory*: `vec![0; size]` with a size no machine has aborts the process.
- *Codecs of the builder and the stream for `i16` and `i64` operands*, which no instruction of the table
  uses, and `FixupOutOfBounds` and the assembler's conversion of place errors, which no
  sequence of calls reaches.
- *`VM.run(source)`* of the wrapper, which assembles with the backend's own assembler;
  Backends gives both the same bytecode (`run_bytecode`).
- *Models by reference* in the Python VM's registers inside vectors; its vectors of
  integers are references in PyVm.
- *Type checks of the compiler's handles* (`get`, `veclen` on the wrong kind) and branch callables that raise.
