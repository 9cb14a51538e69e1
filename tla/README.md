# A verification project for Ceno

Ceno proves the execution of a RISC-V program: an emulator runs the program and records a trace, the trace becomes the
witness of circuits, and a prover (towers and sum checks, a polynomial commitment) convinces a verifier. This directory
holds TLA+ models of that pipeline from the host's inputs to the verdict, the TLC configurations that check them on small
instances, and proofs that hold for every size.

Run `tlc -workers 2 -config X.cfg M` for a row of the table of runs, `tlapm M.tla` for the proofs of a module named in section 4.
`PROJECT.json` maps each definition to its source lines, and each property to a hazard of the code.

## 1. Inventory

### The pipeline

```
 host inputs --(ceno_host)--> hints, public input
 guest program (ceno_rt) --ELF--> loader, transpiler --Program--> VMState + Tracer --StepRecords, final accesses-->
   emulate_program --records--> circuits' assign_instances + LkMultiplicity --> tables, witness
   --> [mock prover] --> ZKVMProver::create_proof --(chip proofs, sumcheck, commitment, transcript)--> ZKVMVerifier
```

| Component | State | Operations | What is hard | What makes it correct |
|---|---|---|---|---|
| **Multi-threaded sumcheck prover** (`sumcheck/src/prover.rs`, `util.rs`) | per thread: prover state (polynomial, challenges, round); main: sums, messages, merged state | `prove`, `phase1_sumcheck`, `prove_round_and_update_state`, `fix_var`, merge | threads that share channels, blocking, out-of-order results, edge shapes | same transcript, proof and point as a single prover; it ends |
| **Synchronized transcript** (`transcript/src/syncronized.rs`) | three kinds of bounded channels, two of each; a rolling index per clone | append, read, send, sample, `commit_rolling` | copies are not addressed to a thread; capacity | each channel is used for one round at a time; sends find room |
| **Transcript** (`transcript/src/lib.rs`, `basic.rs`) | sponge state | append, sample, fork | prover and verifier must do the same in the same order | agreement of both sides |
| **Sumcheck verifier and algebra** (`verifier.rs`, `extrapolate.rs`, `sumcheck_macro`) | round, challenges, received messages | verify a round, check the deferred equations, interpolate | degree bounds, polynomials of different sizes | accepts honest proofs, rejects wrong claims |
| **Multilinear extensions** (`multilinear_extensions/src`) | evaluations; expression trees | fix variables, evaluate, eq; simplify, expand into monomials | simplification by case, merged terms | operations keep the value |
| **Emulator** (`ceno_emul/src/vm_state.rs`, `rv32im.rs`) | pc, registers, memory, halted | one step per instruction; ecall; trap | x0, alignment, wrap-around, permissions | trace and machine agree |
| **Tracer** (`tracer.rs`) | pending record, latest cycle per address, min/max per region | `track_access`, `store_memory`, `advance` | repeated registers, inclusive/exclusive bounds | each operation names its predecessor; bounds are the span of accesses |
| **System calls** (`syscalls*`, `utils.rs`) | views of memory, prepared operations | `handle_syscall`, `apply_syscall`, `finalize` | prepared values go stale; bounds do not follow | effects equal the documented ones; every access has a record |
| **ELF loader, transpiler, platform** (`elf.rs`, `disassemble`, `platform.rs`) | program image, ranges, permissions | `load_elf`, `transpile`, `setup_platform` | unaligned segments, fields a format does not have, padding | image is the file; instruction means the same |
| **emulate_program, end to end** (`e2e.rs`) | exit code, public values, final records | run to HALT or `max_steps`, cut the tables | truncation, stale bounds | tables balance the memory argument |
| **Memory and lookup tables, MMU** (`tables`, `mmu.rs`) | fixed and witness columns | initial and final records, padding, multiplicities | padded rows must be neutral | initial + writes = reads + final; looked up = counted |
| **Lookup multiplicities, witness** (`ceno_zkvm/src/witness.rs`) | thread-local counts | increment, merge, deep clone | counts of other threads | counts equal lookups |
| **Instruction circuits, gadgets** (`instructions/riscv`, `gadgets`, `uint`) | constraints | construct, assign | limbs, carries, signs, two descriptions of one thing | accept exactly what the emulator does |
| **Circuit builder, keys** (`circuit_builder.rs`, `structs.rs`, `keygen.rs`) | constraint system, fixed traces | create columns, read, write, look up, require | linear or not, degree, monomials | the monomials are the constraints |
| **zkVM prover and verifier** (`scheme/*`) | proof per circuit, product and sum over circuits | create, verify | order of the transcript, padding rows, circuits without instances | accepted exactly when the witness is valid |
| **Mock prover** (`scheme/mock_prover.rs`) | tables, counts | `assert_satisfied_full` | counts of threads, what it does not look at | stops what the verifier would reject |
| **GKR layers** (`gkr_iop`) | layers, claims | prove, verify, rotate | places of claims, groups, rotation | claims are evaluations down to the commitment |
| **Basefold** (`mpcs/src/basefold`) | Merkle trees, folded codewords | commit, open, query, verify | matrices of different sizes in one fold, indices | folding and sum check follow one polynomial |
| **Guest runtime, host** (`ceno_rt`, `ceno_host`) | heap pointer, output frames, readers | alloc, print, read hints | alignment, frame lengths | round trip of hints and messages |

Interactions: the sumcheck threads interact by messages only; the emulator and the tracer by calls within one step; the
tracer and the memory tables by the final records; opcode circuits and lookup tables by the counts, shared among threads;
prover and verifier by the transcript. Nothing is persisted, so there is no crash recovery; nothing is sent over a network.

### Hard behaviours

They are listed with their line and the properties that watch them in `PROJECT.json` under "hazards". In short: the
shared challenge channel and its two slots; counting of reads instead of naming of senders; out-of-order final states;
worker tasks that block pool threads; repeated registers in one instruction; x0; half-open bounds; system calls whose
accesses bypass the bounds; overlapping views; truncation at `max_steps`; inputs that a program overwrites; lookups counted
in code apart from the lookups made, and by several threads; rows of padding; columns handed out by draining two vectors;
polynomials of different sizes in one sum check and in one folding; constraints turned into monomials; prover and
verifier drawing challenges in code of their own; claims found by place.

## 2. Modules

```
 SequentialSumcheck <-- DistributedSumcheck <-- DistributedSumcheckProofs <-- DistributedSumcheckRefinement
                              ^-- MCDistributedSumcheck, MCSumcheckShapes
 RiscvMachine <-- Emulator <-- EmulatorProofs <-- EmulatorTablesProofs <-- EmulatorBalanceProofs
                     ^-- MCEmulator
 CircuitGadgets <-- CircuitGadgetsProofs <-- InstructionCircuitsProofs <-- InstructionCompletenessProofs
        ^-- InstructionCircuits <-- MCInstructionCircuits --> UIntLimbs, Transpiler (instances)
 GuestProgram <-- MemoryTables <-- WitnessGeneration <-- MCWitnessGeneration
 PrimeField <-- Expressions <-- CircuitBuilder --+--> ChipProof <-- ZkvmSetup <-- MockProver <-- ZkvmProof <-- MCZkvmProof
     ^-- MultilinearExtensions <-- SumcheckRounds +        ^-- GkrCircuit <-- GkrProof, BitwiseKeccak <-- MCGkrProof --> LookupKeccak
                                        ^-- Basefold <-- MCBasefold            Expressions <-- MCExpressions
```

| Module | What it is | Code |
|---|---|---|
| `SequentialSumcheck` | abstract: one prover, one round after another | what `prove` promises its caller |
| `DistributedSumcheck` | detailed: main thread, workers, channels, both phases | `sumcheck/src/prover.rs`, `syncronized.rs`, `util.rs` |
| `RiscvMachine` | abstract: the machine a guest may rely on, without trace | what `rv32im.rs` and `VMState::ecall` promise the guest |
| `Emulator` | step, tracer, system calls, `emulate_program` | `vm_state.rs`, `rv32im.rs`, `tracer.rs`, `syscalls*`, `platform.rs`, `e2e.rs` |
| `CircuitGadgets` | gadgets, each as constraints and as assignment | `ceno_zkvm/src/gadgets`, `uint`, `chip_handler` |
| `InstructionCircuits` | every RV32IM opcode circuit and HALT: a step, its row, its constraints | `instructions/riscv` |
| `UIntLimbs` | limb arithmetic of any width, and the divide gadget | `uint.rs`, `uint/*`, `gadgets/div.rs` |
| `Transpiler` | decoded words to instructions, and what their readers ask of them | `disassemble/mod.rs`, `rv32im.rs` |
| `GuestProgram` | buffers of hints and public input, ELF image, layout of the addresses | `ceno_host`, `elf.rs`, `e2e.rs` |
| `MemoryTables` | all table circuits with their padding | `ceno_zkvm/src/tables`, `mmu.rs`, `witness/src` |
| `WitnessGeneration` | host, guest runtime, final records, assignment by threads, tables | `ceno_rt`, `e2e.rs`, `instructions.rs`, `witness.rs` |
| `PrimeField` | field helpers | `multilinear_extensions`, `sumcheck` |
| `MultilinearExtensions` | multilinear and virtual polynomials, eq, slices | `mle.rs`, `virtual_poly*.rs` |
| `Expressions` | expression trees that simplify as they are built | `expression.rs`, `expression/*` |
| `SumcheckRounds` | arithmetic of the sum check, prover and verifier | `sumcheck/src`, `sumcheck_macro/src` |
| `Basefold` | commit, open and verify as a state machine | `mpcs/src/basefold*` |
| `CircuitBuilder` | constraint systems, one operation each | `circuit_builder.rs` |
| `ChipProof` | towers, main sum check and verification of one circuit | `scheme/cpu`, `scheme/utils.rs`, `scheme/verifier.rs` |
| `ZkvmSetup` | registration, fixed traces, keys, rows and multiplicities | `structs.rs`, `keygen.rs`, `e2e.rs` |
| `MockProver` | the check of the whole witness before a proof | `scheme/mock_prover.rs` |
| `ZkvmProof` | `create_proof` and `verify_proof` over all circuits | `scheme/prover.rs`, `scheme/verifier.rs` |
| `GkrCircuit`, `GkrProof` | chips, layers, rotation; proof of a layered circuit | `gkr_iop/src` |
| `BitwiseKeccak`, `LookupKeccak` | the two keccak circuits | `gkr_iop/src/precompiles` |
| `...Proofs`, `...Refinement` | theorems and proofs | |
| `MC...` | instances for TLC | |

Definitions that begin with a comment "Faulty:" are deliberate mistakes (a dropped guard, an off-by-one, a swapped order).
They take part in no specification; put in the place of their neighbour, each makes TLC refute the property named in
`PROJECT.json` under "mutants". They keep the properties honest.

### The sumcheck modules

*State.* `pc[t]` is the place of thread *t* between two channel operations; `state[t]` its `prover_state` (the slice,
the bound challenges, the round); `challenge[t]` its local `Option<Challenge>`; `rolling[t]` the index of its clone of the
transcript; `efAppend`, `chalChan`, `stateChan` the channels as sequences; `pool` and `free` the rayon pool; the rest are
local variables of the main thread and the caller's `transcript`.

*Steps.* What a thread does between two channel operations touches its own variables only, so one action is: the code up
to and including one send or receive. `Start` (a pool thread takes the closure), `AppendExts` (compute, send), `Sample`
(receive the challenge, `commit_rolling`), `Finish` (bind, send the state); on the main side `Spawn`, `MainProve`, `MainRead`
(once per worker), `MainAbsorb`, `MainSend` (once per worker), `MainCommit`, `MainFinish`, `MainCollect`, `MainMerge`,
`Phase2Round`, `Phase2Return`. The assertions of `prove_round_and_update_state` are guards (`CanProveRound`): a
failing one would show as a thread that never moves on, which `Termination` and the deadlock check exclude.

*Data.* A message is named by what it is computed from, the slice and the bound point; a sum is the set of its summands;
a challenge is the number of the round whose absorption produced it. A wrong slice, a stale point, a missing or foreign
summand, or a challenge of another round all give another value. As a set does not count, `NoSummandTwice` states
separately that nothing is added twice. What the messages are as numbers is `SumcheckRounds`, which `Basefold`, `ChipProof`
and `GkrProof` run, sequentially and (in `Basefold`) for one, two and four slices.

*Left out.* The base-field channels of the transcript (no user in the prover); warm-up of the extrapolation cache; the
deprecated `prove_parallel`; a panic inside a worker.

### The emulator module

*State.* `pc`, `registers` (33, of which the programs use a few), `memory`, `status`; the tracer's `cycle`, `latest`
(`latest_accesses`) and `mmio` (`mmio_min_max_access`); `records` are the step records collected by `emulate_program`;
`output` what it returns.

*Steps.* One action per kind of instruction (`Compute`, `Jump`, `Branch`, `Load`, `Store`, `Halt`, `Syscall`,
`EcallNop`) and `Trap` for everything that ends in an error: a missing or invalid instruction, misalignment, no permission, an
unknown call, a failed assertion of a call, a busy loop. An instruction is a sequence of *touches* in the order of
the calls it makes; `Operations` turns them into the operations of the step record (with their previous cycles),
`Latest` into the new `latest_accesses`, `Tracked` into the new bounds. A trap loses the whole run
(`expect("vm exec failed")`), so `Fail` keeps the state of before the step. `Return` and `ReturnFails` are the rest
of `emulate_program` with `debug_memory_ranges` inside.

*Data.* Addresses and words are numbers below `Modulus`, which wrap. ADD and ADDI stand for the arithmetic instructions with two
and one register operands, BEQ for the branches, LW and SW for loads and stores of every width: they differ in the values only,
which no property of this module distinguishes; the values are the matter of `InstructionCircuits`. A system call's result
is any of `SyscallResults`.

*The abstract machine.* `RiscvMachine` has a pc, the registers but x0, memory and whether it runs; an instruction has its whole effect in one
step and nothing is recorded. Under the mapping at the end of `Emulator` (`Machine`) the scratch register 32, the clock, the trace and the bounds are
hidden. `MachineState` reads off how the run ended: by HALT if the last step was one, at the limit if `MaxSteps` steps were done, else by a
trap. The end of `emulate_program` stutters.

*Left out.* `secp256k1_decompress`, which reads behind its pointer and writes behind what it read; debug output; LUI and AUIPC,
which the transpiler rewrites (`Transpiler`).

### Circuits and limbs

The code writes every circuit twice: `construct_circuit` says what a row must satisfy, `assign_instance` fills the row from a step
record and counts its lookups. `CircuitGadgets` has both halves of each gadget side by side, and `InstructionCircuits` those of
every instruction: its one action takes any step the emulator could record (an instruction of each kind, operands, registers
named twice, x0) and assigns its row. `UIntLimbs` has the products, comparisons and division of limbs, which the opcode circuits
use in one shape only, for any number and width of limbs; `Transpiler` the way an instruction came about. Both are operators
without state, checked by assumptions of `MCInstructionCircuits`.

### From the inputs to the tables

`GuestProgram` lays out what the guest finds; `MemoryTables` states the rows of every table; `WitnessGeneration` puts them together.
Its state is the guest's memory and heap pointer, the trace as operations, what was delivered, then the counts by thread and the
tables. A call of the runtime (`Read`, `Commit`, `Alloc`, `WriteFrame`), a use of the stack (`Push`) and `Halt` are one action each, which runs as the
loads, stores and register instructions its source asks for; `AssignOpcodeCircuit` shares the instances of a circuit out among the threads, in
every way the pool may; `FinalizeLkMultiplicities` combines the counts, `AssignTableCircuits` assigns the tables. Control flow is the matter of `Emulator`.

### The proof

`Expressions` builds trees with the simplifications of the operators; `CircuitBuilder` turns its operations into a constraint
system; `ZkvmSetup` registers circuits, makes the keys and joins rows and keys in the order of names; `MockProver` may stop the
run; `ZkvmProof` then proves circuit by circuit and verifies. A transcript is a *tape*: the log of what was absorbed and the
challenges still to come. Both sides draw the *n*-th challenge alike only as long as their logs agree, so an absorption missed or
swapped on one side shows. Product and sum towers, the main sum check with its selectors, and the openings are computed over a
small prime field with `SumcheckRounds` and `MultilinearExtensions`. The commitment is ideal there; `Basefold` has it as a state machine of
its own: commit, the rounds of the commit phase, the queries, the verifier.

`GkrCircuit` and `GkrProof` model the layered circuits of `gkr_iop`, a library the zkVM's prover does not call at this commit: the places of claims that chips hand
out, the witness layer by layer, rotation of columns by a round, the zero check of each layer, and both sides walking down the
claims. `BitwiseKeccak` is a chip for lanes of `Z` bits; `LookupKeccak` has the rows and equations of the other.

*Abstractions.* One field stands for the base field and its extension. Field elements, limbs and bytes are scaled (a word of four bits and the field of
241 elements are to each other what 32 bits and Goldilocks are). Merkle digests are the matrices themselves. Challenges come from small
sets or fixed streams that avoid the nodes of interpolation. The prover is the honest one; what is wrong in a run is its witness.

## 3. Runs

| Run | Module, configuration | Properties | Shows |
|---|---|---|---|
| `distributed_sumcheck` | `MCDistributedSumcheck` | `TypeOK`, `ChallengeAgreement`, `RoundSums`, `NoSummandTwice`, `OneRoundPerChannel`, `SendsNeverBlock`, `DrainedAtReturn`, `Refinement`, `Termination` | all schedules of four threads |
| `sumcheck_shapes` | `MCSumcheckShapes` | `ShapesProve`, `ShapesTerminate` | one thread; two threads; no first phase |
| `emulator` | `MCEmulator` | `TypeOK`, `AccessChain`, `TraceExplainsMachine`, `StepsChain`, `ExitCodeOfHalt`, `BoundsAreSpan`, `UnhandledOnlyBySyscalls`, `MemoryBalances`, `ImplementsMachine` | traces, tables and balance of some six thousand programs |
| `fresh_syscall` (violated) | `MCEmulator`, `FreshSyscall.cfg` | `EveryAccessHandled` | accesses of system calls without a final record |
| `aliased_syscall` (violated) | `MCEmulator`, `AliasedSyscall.cfg` | `ResultOverFirstInput` | the result of a call is overwritten |
| `instruction_circuits` | `MCInstructionCircuits` | `RowSatisfiesCircuit`, `LookupsCounted`, `RecordsMatchStep` | every opcode circuit on all operands |
| `witness_generation` | `MCWitnessGeneration` | `TypeOK`, `HostAndGuestAgree`, `RamBalances`, `AddressesOnce`, `LookupsBalance`, `TablesHoldTheRun` | host to tables |
| `mock_counts` (violated) | `MCWitnessGeneration`, `MockCounts.cfg` | `MockKeepsCounts` | counts lost with the mock prover |
| `basefold` | `MCBasefold` | `OracleEncodesFold`, `MessageIsRestriction`, `OpeningVerifies` | openings of matrices of different sizes |
| `zkvm_proof` | `MCZkvmProof` | `AcceptedIffValid`, `MockForetells`, `VerifierFollowsProver`, `OutputsSummarize`, `OpeningClaims`, `BackendSumsConstraints` | proofs of right and wrong runs |
| `constant_minus_challenge` (violated) | `MCExpressions` | `OperationsKeepValue` | an operator that loses the value |
| `gkr_layers` | `MCGkrProof` | `ClaimsAreEvaluations`, `AcceptedIffSatisfied` | proofs of layered circuits |

**Sumcheck.** `ChallengeAgreement`: the k-th challenge a thread binds is the k-th one sampled. `RoundSums`: every absorbed message is
the sum over all slices for its round and point, and then the message of the slices merged in order. `NoSummandTwice`.
`OneRoundPerChannel`: a channel never holds items of two rounds. `SendsNeverBlock`: capacity `max_thread_id` suffices.
`DrainedAtReturn`: nothing in flight and no thread running when `prove` returns. `Refinement`: `DistributedSumcheck` implements
`SequentialSumcheck` (same transcript, same proof and point). `Termination`: `prove` returns, or panics exactly when the pool is too
small for a first phase. `ShapesProve` and `ShapesTerminate` ask the same of the shapes at the edge.

**Emulator.** `AccessChain`: every operation of the trace names the operation on the same location that came last, which left the
value this one found. `TraceExplainsMachine`: machine state and `latest_accesses` are what the trace says. `StepsChain`: the
(pc, cycle) pairs form one chain from the entry to the public end, and HALT is last. `ExitCodeOfHalt`. `BoundsAreSpan`: the bounds of
each region are the exact span of loads and stores. `UnhandledOnlyBySyscalls`: only a system call, or a read behind the given hints,
can leave an access without a record. `MemoryBalances`: as multisets, initial records + writes = reads + final records, if and only if
the run left the public input and the hints unchanged; this is the offline memory check the tables are built for, in both directions.
`ImplementsMachine`: the emulator implements `RiscvMachine`. An instruction changes the register or the word it names and nothing else, x0 is
zero, a call changes the words behind its first pointer only, though it writes all words back that it read. That x0 is zero rests
on `ZeroRegister`, which no run checks, as it is proved (`ZeroStaysZero`).

**Instruction circuits.** `RowSatisfiesCircuit`: the row assigned for a step satisfies every constraint and lookup of its circuit.
`LookupsCounted`: the lookups counted by the assignment are those the circuit makes, as a multiset. `RecordsMatchStep`: what the circuit reads
and writes are the operations of the step record. The assumptions of `MCInstructionCircuits` say for all small values: LUI and AUIPC keep their
meaning when rewritten (`UpperImmediates`), bits a format does not have do not matter (`OtherBits`), transpiled instructions have satisfied
rows (`RowsOfTranspiled`, `AllKindsTranspiled`), the dummy circuits follow the format (`DummiesFollowFormat`); addition, products,
equality, splitting and division of limbs are complete and, where they are, sound (`Sums`, `ProductsRight`, `Equality`, `Splitting`, `Dividing`).
`Overflows` records a limit: a product with as many limbs as its factors drops what lies beyond the last limb, so `with_overflow = false` does not
exclude overflow there. No opcode circuit uses it so.

**Witness.** `HostAndGuestAgree`: what the guest reads is what the host wrote, at the alignment `rkyv` needs, and messages come back up to the first empty one, where
`read_all_messages` stops. `RamBalances` and `LookupsBalance`: the memory and lookup arguments close over the *assigned* tables, rows of padding
included, whatever thread assigned which batch. `AddressesOnce`: no address is in two rows of memory tables. `TablesHoldTheRun`: everything the run
touched has its row; it names the one exception, a debug build whose extended stack is no power of two, for which the table's assertion fails.

**Basefold.** `OracleEncodesFold`: after every round the running codeword is the encoding of the batched polynomial folded at the point so far,
though codewords of smaller matrices join on the way. `MessageIsRestriction`: the round message is the restriction of the whole sum, with polynomials cut
among threads or copied to them. `OpeningVerifies`: the verifier accepts the
proof for every choice of the queried index and draws the prover's challenges; only a commitment of small matrices alone, unsupported in the code, stops the prover.

**Proof of a run.** `AcceptedIffValid`: the verifier accepts exactly when constraints, lookups, memory and the global state hold in the witness.
`MockForetells`: what the mock prover passes is accepted, and what it stops is wrong, but for degrees and
address columns it cannot go through. `VerifierFollowsProver`: the verifier's transcript stays that of the prover.
`OutputsSummarize`: the outputs of the towers are the products and sums over the true rows. `OpeningClaims`: each circuit's
claims are evaluations of its own columns; in every run a circuit with fixed columns has rows, as every table of the repository that has some does
(the prover drains fixed columns only of circuits with rows, so an unused one before another would shift the rest). `BackendSumsConstraints`: the monomials are the combined constraints.
The runs of the instance are correct in all parts but one at most, so each rule is the only thing that stands between a wrong run and acceptance.

**Layers.** `ClaimsAreEvaluations`: every claim either side holds is the evaluation of that column at that point. `AcceptedIffSatisfied`: accepted exactly
if the first claim is right, every row satisfies its layer and the rotations hold; where they are not, a sum check that does not add up panics or a last value
is refused. The assumptions of `MCGkrProof`: the table of the code for the cycle is the powers of X
(`CyclicRows`), partitions join to the whole, and those the code asserts against are told from them (`PartitionJoins`; no layer that is proved has one), the chunks and equations of the keccak tell a lane turned by the right amount from one turned further (`RotationsTurn`), the
keccak row satisfies its 1464-column circuit with as many lookups as the code says (`RoundsAreStated`) and no bit turned over in its cells goes
unnoticed (`EveryCellCounts`), and both keccak circuits compute the same round (`CircuitsAgree`). `PaddingRows` records that
rows of zeros satisfy the equations and not the lookups.

**Bounds and why they suffice.** *Sumcheck*: with four threads, three workers compete for copies; three variables use both channels and come
back to the first, which is where rounds could mix; `Log2Threads = 2` gives two rounds of the second phase; pools from 1 to 5 include
too small, exact (with the caller inside or outside the pool) and larger. The theorems show that nothing depends on these numbers.
*Emulator*: `Modulus = 128` holds one word of public input, two of hints (one given), four static, four of heap and three of stack, so
each region has an inner word, both boundaries and a neighbour; registers x0, t0, a0, a1 and the null register; every program has a
set-up, any three instructions of a small set and the two instructions of HALT. `MaxSteps = 7`: a straight program halts within its
steps or is cut just before, a backward jump is cut, and three instructions are enough for a store, a call and an access after it.
*Circuits*: words of four bits are two limbs of two bits and four bytes of one; all pairs of operands are tried, so every carry, sign, shift and
special case of division occurs. *Witness*: `MaxCalls = 3` is an allocation, a use and one call after it; two workers with
`Threshold = 3` give a short last batch and more batches than workers; the set-ups have empty and non-empty hints and public input, a stack that fills and one
that does not, with and without debug build. *Basefold*: seven sets of circuits from one variable, below the base code, to four, with and
without fixed columns; pools of 1, 2 and 5 give one, two and four slices. *Proof*: circuits with one row up to one past a power of two, one unused;
every kind of record. *Layers*: lanes of one bit and two rounds make ten layers; one small circuit has 24 rounds in 32 rows as the
code has.

Deadlock is checked except in the runs of `MCExpressions`, `MCGkrProof` and `MCZkvmProof`, which end when the last step is done.

**Fairness.** `FairSpec` asks weak fairness of the main thread and of each worker: an operating system runs each
runnable thread, crossbeam wakes a blocked receiver when an item arrives, and rayon hands a spawned closure to a free thread of
its pool. No fairness is asked *between* receivers of one channel, which is the point of the rolling
index. A thread that is blocked is not enabled. Whether other tasks occupy the pool is outside the model. Everything else is
sequential or, in witness generation, joined before it goes on; its runs check safety and that no state is stuck.

**Findings.**

1. *System calls on fresh stack or heap words make `emulate_program` panic.* `SyscallEffects::finalize` updates
   `latest_accesses`, not the bounds that `emulate_program` cuts the stack and heap tables along; the assertion of
   `debug_memory_ranges` (`e2e.rs:847`), which is called in every build, then fails (`fresh_syscall`).
2. *Overlapping arguments.* "The result is written over the first input" (`ceno_rt/src/syscalls.rs:194`) does not hold when
   the second argument overlaps the first: its old words are written back (`aliased_syscall`).
3. *Counts lost under the mock prover.* `deep_clone` (`witness.rs:133`) clones the counts of the calling thread only, and the tables are assigned from the
   clone (`mock_counts`).
4. *A constant less a challenge is their sum.* The arm at `expression.rs:565` negates the offset of the challenge and not its scalar
   (`constant_minus_challenge`). No circuit of the repository builds such an expression.

**Remarks.** Places where code, comments and intention part without a run of their own:

* The comment at `prover.rs:289` announces a local pool; the code panics when the pool is too small. `Termination` states the panic.
* The doc of `StepRecord` (`tracer.rs:23`) says that `rd` may be x0 and that the value that was supposed to be stored is traced;
  `rd_internal` redirects such writes to register 32, and `ZeroRegister` holds because of it.
* Zero filling of an ELF segment whose data is not a whole number of words starts at an unaligned address.
* A public input or static segment of one word makes the table code panic, and `init_mem_records` cuts what exceeds its range.
* The custom padding of `RowMajorMatrix` is right for matrices of one column, the only ones that use it.
* The mock prover looks for the circuits' records of the state on the other side, and not for the first and last state themselves
  (`find_rw_mismatch`): of a run without an instruction it would notice nothing.
* A machine without a fixed column, or a run without a row, passes the key generation and panics in the prover (`CommitFails`).
* The mock prover needs degree at most 2, looks at no lookup of a zero count and, run end to end, panics at the table of hints because
  `derive_ram_rws` passes no records for it.
* Gkr: partition and linear outputs are not implemented in `infer_layer_witness`; the verifier recomputes the eq of its groups
  and not of the rotation; a zero check of a degree above four cannot be verified with two instances or more (the extrapolation stops there), which includes
  layer C of the bitwise keccak (`VerifyZerocheckFails`); the keccak of lookups uses the first round constant in all rounds; a rotation by 32
  panics when split; `assign_keccakf_circuit` returns a matrix of zeros.

## 4. Proofs

Twenty-six theorems, for every value of the constants.

**`DistributedSumcheckProofs`**, for every `NumThreads = 2^Log2Threads`, `NumVars`, `MaxDegree` and pool (from
`ThreadsAssumption` and `SizeAssumption` alone): `TypeCorrect`, `Invariant` (`Spec => []IInv`), `ChallengesAgree`, `SumsAreComplete`.

*The argument.* `ChallengeAgreement` is not inductive: that a worker samples the right challenge depends on what the
channel holds, which depends on where all the other threads are. `IInv` measures everything against `Sampled`, the number of
challenges sampled so far. `MainInv` and `WorkerInv` say for each place of a thread how many rounds it has entered and how many
challenges it has bound, and the parity of its rolling index. A worker that waits is either *ahead* (its message for the
next round is sent) or *waiting* (for the challenge sampled last); it cannot be further off. `MessageInv` and `SumInv`:
the channel of the current parity holds messages of workers ahead, none twice, none that is already in the sum; the
other channel is empty. `CopyInv`: the copies in the channel and those still to be sent are together as many as the
workers waiting, so when main has read all messages no worker waits and no copy is left for a later
round. Then the `NumWorkers + 1` summands are distinct members of a set of `NumThreads` possible ones, hence all of
them: that is the counting step of `MainAbsorbStep`. `CollectInv` does the same for the final states, and `Phase2Inv` carries the
result on. There is one lemma per action (`StartStep` ... `Phase2ReturnStep`), and under it one step per conjunct that
the action can disturb.

**`DistributedSumcheckRefinement`**: `SummandsOnce`, `SendsFindRoom`, `ChannelsOfOneRound`, `NothingLeftBehind` and
`ImplementsSequential`. `IInv` says what channels hold while rounds run; `ProofInv` adds that the messages collected so far are those absorbed and that
the merged state has the whole point, and `EndInv` that nothing is in flight once the states are collected. The refinement is a step
simulation: `MainAbsorb` and `Phase2Round` are rounds of the sequential prover, the return is its return, all else stutters.

**`EmulatorProofs`**, for every program, platform, input and number of steps (`MachineAssumption`, `PlatformAssumption`,
`DataAssumption`): `MachineTypes`, `OperationsChained`, `MachineExplained`, `ZeroStaysZero`, `OneChain`, `ExitCodeIsHalt`,
`GuestSeesMachine`.
Every instruction but a trap goes through `Complete` with a list of touches. The touches of each are shown to be *fit* (of locations and words, x0 left alone) and *ordered*
(a second touch of a location is later, and the first is a read), and each invariant is then proved once, of `Complete` for such touches.
`IInv` adds to the types that the clock is ahead of every access (`ClockAhead`). `AccessChain` and `TraceExplainsMachine` are not inductive one
without the other: that an operation finds the value its predecessor left needs machine and trace to agree, and they stay in agreement because
the operations are chained; `Traced` is both together. `OperationsChained` and `MachineExplained` take the hypothesis `PointersApart`, that the two pointers of a system call
do not overlap. The second finding is what happens without it.

`GuestSeesMachine` (`Spec /\ []PointersApart => ImplementsMachine`) is a step simulation with one lemma per action (`ComputeSame` ... `FinishedSame`). `OneWrite` says
that an instruction whose touches are reads but for one changes that location only; a call's touches are read off the
views (`CallTouches`, `MemOpsLeave`): what it leaves in memory is the result behind the first pointer, and behind the second the words that were there. Three invariants are needed: `IInv`
for the ranges, `ZeroInv` since the abstract machine reads x0 as the number zero, and `ChainInv` to tell HALT
from the step limit and both from a trap. `PointersApart` is needed here too: where the pointers overlap, old words are written
over the result.

**`EmulatorTablesProofs`**: `BoundsSpanned` and `OnlyCallsUnhandled`, from the same assumptions. `BoundsAreSpan` speaks of the span of a set of words of the trace;
`SpanInv` says what a step can maintain: each bound is a bound of the words that loads and stores touched in the region, and is either one of them or, if there is
none, the empty interval the tracer starts from. `UnhandledOnlyBySyscalls` follows with `TypeOK` and `Traced`: a word of the stack or heap that has no final record and
was accessed lies outside the bounds, so no load or store touched it.

**`EmulatorBalanceProofs`**: `CheckBalances`, the offline memory check. The bags of the property are shown to be sets (`Distinct`: no two entries of one side agree in
location and cycle), after which the balance is an equality of sets: what is written at a location at some cycle is read by the next operation on it, which
exists unless it is the last, and then the final record has it; the next operation is the one of least cycle among the later ones. In the other direction, an input word that was changed
leaves the entry of its final record without a partner. Two hypotheses are about the program, since the code does not
check them: `PointersApart` as above, and `AccessesReadable`, that every word accessed can be read. Loads and stores test that; of the pointers of a
system call only the alignment is tested, so a call may touch a word that has no table, and the assertion of `debug_memory_ranges` looks at readable words only. The runs
of the instance include returned runs with a system call that satisfy both.

**`CircuitGadgetsProofs`**, for every width and field (`WidthAssumption`, `FieldAssumption`; the provers do not exponentiate, so what they need to know of powers is stated in `PowerAssumption`, `ByteAssumption` and
`BitAssumption`, arithmetic that holds of every width `WidthAssumption` allows and that TLC evaluates on those of the instance): `LessThanDecides`, `SignedLessThanDecides`, `AddIsSum`. These are *soundness*: whatever cells satisfy the constraints,
the flag is the comparison and the limbs are the sum. Of the lookups only the ranges count. Completeness, that the assigned cells satisfy them, is proved with the circuits below.

**`InstructionCircuitsProofs`**, for words of any width, every field large enough and any operands, pcs and cycles (`StepAssumption` besides those): `RecordsMatched`. What a
circuit reads and writes on its row, where each value is an expression in limbs, bytes and bits the row assigns, are the operations of the step record. `RowsInv` ties the two
variables together: the step is one the emulator completes, and the row was assigned for this step. The proof goes along the build of the circuits. A gadget is *silent*: it constrains
and looks up, and touches no record. A *frame* (the state, a register, a memory word) says which records it takes and puts. Then, per opcode circuit, the
expression it writes is the value of the instruction: limbs of a sum or difference, the halves of a product with their signs, quotient and remainder with the two special cases, bits moved by a shift,
the byte or half word a load extends and a store puts in place. `InitRows` and `NextRows` conclude, one case per
assignment. The invariant was first checked by TLC on the instance of the run.

**`InstructionCompletenessProofs`**, from the same assumptions: `RowsSatisfied`. Every gadget is *met* by the cells its own assignment gives it, each constraint zero in the field and each lookup
in its table, and a circuit is met when its parts are. Three kinds of argument recur. A constraint is an equality of integers once the carries, the high limbs or the product of the
divisor are put in, and equal integers are equal in any field. A lookup asks a range of a field element, which must not have wrapped around: here the width of the field is needed, for the high word of a signed
product and the overflow of a shift in particular. A flag is the comparison with zero, whose witness is an inverse; that every element but zero has one follows from `FieldAssumption` by
counting (multiplication by it permutes the field). The fetched instruction is in the program table because the registers of the accesses are those it encodes, and the
comparison of cycles is met because no access is earlier than the one before. Neither is known of the row: `StepInv` says them of the step, and with `RowsInv` it is inductive (`NextKeepsStep`). It
was first checked by TLC on the instance of the run.

In the same module, *soundness* of products and divisions: `ProductsDecided` and `DivisionsDecided`. The sources argue in comments that the constraints leave one solution, although the equations are over a field; here the
argument is checked. Whatever elements of the field the cells hold, if the registers read hold words and the constraints and range lookups are met, what is written is the product, the quotient or the remainder
the emulator computes. For products, a high and a low word that agree with the product in the field agree with it as integers unless the high word is the greatest (`FieldTellsApart`), which the circuit excludes and no product has; for `MULH` the
range of signed words is enough (`FieldTellsSignedApart`). For divisions, neither side of the equation wraps around, the sum of the two flags forces the bound of the remainder where there is a divisor, and a number
is split in one way only into a multiple and a remainder of its sign (`SplitOnce`); by zero the quotient is set and the equation leaves the dividend as remainder, and at the overflow the equation is the other one.

*Only model-checked.* `Termination` and `ShapesTerminate`, since liveness under fairness is out of the prover's reach. `ShapesProve` asks `TypeOK` and the other invariants of `DistributedSumcheck` of the shapes at
the edge, of which the theorems speak one by one. `LookupsCounted`, which counts with a fold. Everything
defined by recursion or folds over data, which needs induction: `WitnessGeneration`, `Basefold`, `ZkvmProof`, `GkrProof` and what they are built from. RECURSIVE operators are used in
`Expressions` and the modules above it, in none that the proofs reach.

## 5. Plan

What is left, the most worthwhile first.

1. The values of every instruction in `RiscvMachine`, those of `InstructionCircuits` in full width.
2. Soundness of further gadgets and circuits (equality, addresses, bytes), and `AddressesOnce` of `MemoryTables`.
3. A panic in a sumcheck worker, after which main waits for ever.
4. Circuits of the system calls, when the code has more than the dummies; the mock prover of `gkr_iop`.
5. `secp256k1_decompress` in `Emulator`.

## 6. Not modelled

Arithmetic of the large fields and hashing (out of a model checker's reach; digests are the data, challenges are chosen); Whir, an adapter to an
external scheme; the command line, the cargo plugin, the host's files; the examples. Within modelled components: the decoding of words by `rrs_lib` and the
parsing of ELF by its crate (external); the overflow of the pc at the end of the address space in the transpiler; the start-up code and panics of the guest; the base-field channels and `prove_parallel`;
checkpoints of the end-to-end driver; name spaces and annotations of circuits; the check that no challenge is zero in debug builds, and the checks of constraints of a higher degree before their sum check and of the verifier's eqs,
which are in debug builds too; the pointer of a call that names the address of a register (`register_vma`): the code then keeps one entry of `latest_accesses` for
both, the model keeps registers and memory apart (`Locations`); the table cache, the padding of its program table to 32 rows and the
messages of the mock prover; the mock prover of `gkr_iop`; legacy gadgets of `config.rs`; malicious provers. The reasons are
in `PROJECT.json` under "components".
