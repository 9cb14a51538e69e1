------------------------------- MODULE Emulator -------------------------------
(***************************************************************************)
(* The RISC-V emulator and the trace it leaves for the prover: VMState     *)
(* (ceno_emul/src/vm_state.rs), the instruction step (rv32im.rs), Tracer   *)
(* (tracer.rs), the system calls (syscalls.rs) and what emulate_program    *)
(* (ceno_zkvm/src/e2e.rs) makes of a finished run: the public values and   *)
(* the final records of the memory tables.                                 *)
(*                                                                         *)
(* Registers and memory words are LOCATIONS.  An instruction is a list of  *)
(* touches, in the order of the calls it makes: each reads or writes one   *)
(* location in one subcycle.  track_access keeps, per location, the cycle  *)
(* of the latest touch, and every operation in the trace names the cycle   *)
(* of the one before it; cycle 0 is the initial state.  The circuits check *)
(* memory with these operations alone: all that was written, and the       *)
(* initial records, must be all that was read, and the final records.      *)
(*                                                                         *)
(* Data: a word has few values, the arithmetic instructions are ADD and    *)
(* ADDI for those that read two registers and one, and LW and SW stand for *)
(* the loads and stores of bytes and half words, which touch the same      *)
(* word.  The result of a system call is any of SyscallResults.            *)
(***************************************************************************)
EXTENDS Integers, Sequences, FiniteSets, Bags

CONSTANTS
    Modulus,         \* number of byte addresses, and of the values of a word
    Regs,            \* the registers the programs use (of 0 .. 32)
    RomStart,        \* program.base_address, also the entry point
    Programs,        \* the programs considered: sequences of instructions
    Image,           \* program.image: byte address -> word
    Heap, Stack, Hints, PublicIO,   \* platform ranges, [start, end] in bytes
    IoInit,          \* initial records of the public input: address -> word
    HintInit,        \* initial records of the hints: address -> word
    UnaryCode,       \* ecall code of a system call with one pointer (keccak)
    BinaryCode,      \* ecall code of one with two pointers (bn254_fp_mul)
    SyscallWords,    \* words behind each pointer
    SyscallResults,  \* results considered: sequences of SyscallWords words
    MaxSteps         \* max_steps

WORD_SIZE == 4
RD_NULL   == 32      \* takes the writes to x0
RegEcall  == 5
RegArg0   == 10
RegArg1   == 11
HaltCode  == 0

Words == 0 .. Modulus - 1
WAddr(a) == a \div WORD_SIZE
WordAddrs == 0 .. WAddr(Modulus) - 1
Aligned(a) == a % WORD_SIZE = 0

ASSUME MachineAssumption ==
    /\ Modulus \in Nat /\ Modulus > WORD_SIZE /\ Aligned(Modulus)
    /\ Regs \subseteq 0 .. RD_NULL
    /\ {0, RegEcall, RegArg0, RegArg1, RD_NULL} \subseteq Regs
    /\ RomStart \in Words /\ Aligned(RomStart)
    /\ MaxSteps \in Nat
    /\ HaltCode \notin {UnaryCode, BinaryCode}

\* Platform::validate: the ranges do not overlap.  They consist of words: the
\* linker script aligns the sections and the sizes are rounded to words.  The
\* public input fills its range (setup_program).  The addresses of the static and
\* of the input tables are unique (MmuConfig::generate_fixed_traces).
InRange(a, range) == range.start <= a /\ a < range.end
Regions == [heap |-> Heap, stack |-> Stack, hints |-> Hints]
Ranges == [heap |-> Heap, stack |-> Stack, hints |-> Hints, public_io |-> PublicIO]
ASSUME PlatformAssumption ==
    /\ \A r, s \in DOMAIN Ranges :
          r # s => Ranges[r].end <= Ranges[s].start \/ Ranges[s].end <= Ranges[r].start
    /\ \A r \in DOMAIN Ranges : Aligned(Ranges[r].start) /\ Aligned(Ranges[r].end)
    /\ \A a \in DOMAIN Image : \A r \in DOMAIN Ranges : ~InRange(a, Ranges[r])
    /\ DOMAIN Image \subseteq Words
    /\ DOMAIN IoInit = {a \in Words : InRange(a, PublicIO) /\ Aligned(a)}
    /\ \A a \in DOMAIN HintInit : a \in Words /\ InRange(a, Hints) /\ Aligned(a)

\* Instructions name registers of the program (their fields have five bits: never
\* RD_NULL), data are words, and a call does not wrap around the address space.
Names == Regs \ {RD_NULL}
Instructions == [kind : STRING, rd : Names, rs1 : Names, rs2 : Names, imm : Int]
ASSUME DataAssumption ==
    /\ Programs \subseteq Seq(Instructions)
    /\ \A f \in {Image, IoInit, HintInit} : f \in [DOMAIN f -> Words]
    /\ SyscallWords \in 1 .. WAddr(Modulus)
    /\ SyscallResults \subseteq [1 .. SyscallWords -> Words]
    /\ \A r \in DOMAIN Ranges :
          /\ Ranges[r].start \in Words /\ Ranges[r].end \in Words
          /\ WORD_SIZE <= Ranges[r].start /\ Ranges[r].start <= Ranges[r].end

CanRead(a) ==
    \/ \E r \in {Heap, Stack, Hints, PublicIO} : InRange(a, r)
    \/ WORD_SIZE * WAddr(a) \in DOMAIN Image
CanWrite(a) == CanRead(a)

\* Locations: the key of latest_accesses.  The code keys a register by an address
\* of its own (register_vma, 256 bytes apart from 0), below every region of the
\* platform; only the pointer of a call, which is not checked, could name one.
Reg(i) == <<"reg", i>>
Mem(w) == <<"mem", w>>
Locations == {Reg(i) : i \in Regs} \union {Mem(w) : w \in WordAddrs}

\* Subcycles.
RS1 == 0
RS2 == 1
RD  == 2
MEM == 3
SUBCYCLES_PER_INSN == 4

VARIABLES
    program,    \* program.instructions
    unsafe_ecall_nop,  \* of the platform
    pc, registers, memory,
    status,     \* "running", "halted", "failed" (a trap or a panic), "returned"
    cycle,      \* tracer.record.cycle
    latest,     \* latest_accesses, 0 where there is none
    mmio,       \* mmio_min_max_access: [min, max] per region, in word addresses
    records,    \* all_records: the completed steps
    output      \* EmulationResult

inputs == <<program, unsafe_ecall_nop>>
vars == <<inputs, pc, registers, memory, status, cycle, latest, mmio, records, output>>
-----------------------------------------------------------------------------
InitialMemory ==
    [w \in WordAddrs |->
       LET a == WORD_SIZE * w
       IN  CASE a \in DOMAIN Image    -> Image[a]
             [] a \in DOMAIN IoInit   -> IoInit[a]
             [] a \in DOMAIN HintInit -> HintInit[a]
             [] OTHER                 -> 0]

NoOutput == [tables |-> <<>>]

Init ==
    /\ program \in Programs
    /\ unsafe_ecall_nop \in BOOLEAN
    /\ pc = RomStart
    /\ registers = [i \in Regs |-> 0]
    /\ memory = InitialMemory
    /\ status = "running"
    /\ cycle = SUBCYCLES_PER_INSN
    /\ latest = [loc \in Locations |-> 0]
    /\ mmio = [r \in DOMAIN Regions |->
                 [min |-> WAddr(Regions[r].end), max |-> WAddr(Regions[r].start)]]
    /\ records = <<>>
    /\ output = NoOutput
-----------------------------------------------------------------------------
(***************************************************************************)
(* Tracer.                                                                 *)
(***************************************************************************)
Value(loc) == IF loc[1] = "reg" THEN registers[loc[2]] ELSE memory[loc[2]]

Read(loc, sub)         == [loc |-> loc, sub |-> sub, after |-> Value(loc)]
Write(loc, sub, after) == [loc |-> loc, sub |-> sub, after |-> after]

\* The touches of a location before the k-th one, and the last one of them.
Earlier(touches, loc, k) == {j \in 1 .. k - 1 : touches[j].loc = loc}
LastOf(S) == CHOOSE j \in S : \A i \in S : i <= j

\* Faulty: an earlier touch in the same instruction is overlooked.
PreviousCycleOfSteps(touches, k) == latest[touches[k].loc]

\* track_access: the cycle of the previous touch of the location.
PreviousCycle(touches, k) ==
    LET earlier == Earlier(touches, touches[k].loc, k)
    IN  IF earlier = {} THEN latest[touches[k].loc]
        ELSE cycle + touches[LastOf(earlier)].sub

\* The operations of the step record.  The value before is the one at the
\* start of the step: nothing is written twice but by a system call, whose
\* operations are all prepared before the first is applied.
Operations(touches) ==
    [k \in DOMAIN touches |->
       [loc    |-> touches[k].loc,
        ts     |-> cycle + touches[k].sub,
        prev   |-> PreviousCycle(touches, k),
        before |-> Value(touches[k].loc),
        after  |-> touches[k].after]]

Touched(touches, loc) == Earlier(touches, loc, Len(touches) + 1)
\* Faulty: the first touch of an instruction is kept instead of the last.
FirstTouch(touches) ==
    [loc \in Locations |->
       LET touched == Touched(touches, loc)
       IN  IF touched = {} THEN latest[loc]
           ELSE cycle + touches[CHOOSE j \in touched : \A i \in touched : j <= i].sub]

\* latest_accesses after the step.
Latest(touches) ==
    [loc \in Locations |->
       LET touched == Touched(touches, loc)
       IN  IF touched = {} THEN latest[loc] ELSE cycle + touches[LastOf(touched)].sub]

\* The values the touches leave, applied in order.
NewValue(touches, loc) ==
    LET touched == Touched(touches, loc)
    IN  IF touched = {} THEN Value(loc) ELSE touches[LastOf(touched)].after

Containing(w, r) ==
    LET below == {s \in DOMAIN Regions : WAddr(Regions[s].start) <= w}
    IN  r \in below /\ \A s \in below : Regions[s].start <= Regions[r].start

\* Faulty: the end of the region is not looked at.
TrackedPastEnd(w) ==
    [r \in DOMAIN Regions |->
       IF Containing(w, r)
       THEN [min |-> IF w < mmio[r].min THEN w ELSE mmio[r].min,
             max |-> IF w >= mmio[r].max THEN w + 1 ELSE mmio[r].max]
       ELSE mmio[r]]

\* Faulty: the exclusive upper bound is taken for an inclusive one.
TrackedAbove(w) ==
    [r \in DOMAIN Regions |->
       IF Containing(w, r) /\ w < WAddr(Regions[r].end)
       THEN [min |-> IF w < mmio[r].min THEN w ELSE mmio[r].min,
             max |-> IF w > mmio[r].max THEN w + 1 ELSE mmio[r].max]
       ELSE mmio[r]]

\* store_memory widens the bounds of the region with the greatest start that
\* is not above the address, if the address is below its end.
Tracked(w) ==
    [r \in DOMAIN Regions |->
       IF Containing(w, r) /\ w < WAddr(Regions[r].end)
       THEN [min |-> IF w < mmio[r].min THEN w ELSE mmio[r].min,
             max |-> IF w >= mmio[r].max THEN w + 1 ELSE mmio[r].max]
       ELSE mmio[r]]

-----------------------------------------------------------------------------
(***************************************************************************)
(* VMState::step.                                                          *)
(***************************************************************************)
Fetched == ((pc - RomStart) % Modulus) \div WORD_SIZE + 1
CanStep == status = "running" /\ Len(records) < MaxSteps
Fetch(kind) == CanStep /\ Fetched \in DOMAIN program /\ program[Fetched].kind = kind
Insn == program[Fetched]

NextInsn == (pc + WORD_SIZE) % Modulus

\* Faulty: the clock advances by the subcycles used.
CompleteByTouches(touches, next) ==
    /\ records' = Append(records, [cycle |-> cycle, before |-> pc, after |-> next,
                                   kind |-> Insn.kind, ops |-> Operations(touches)])
    /\ registers' = [i \in Regs |-> NewValue(touches, Reg(i))]
    /\ memory' = [w \in WordAddrs |-> NewValue(touches, Mem(w))]
    /\ latest' = Latest(touches)
    /\ cycle' = cycle + Len(touches)
    /\ pc' = next
    /\ UNCHANGED <<inputs, output>>

\* The instruction is carried out, its effects are traced and the tracer
\* advances; an instruction that stays where it is ends the run with an error.
Complete(touches, next) ==
    /\ records' = Append(records, [cycle |-> cycle, before |-> pc, after |-> next,
                                   kind |-> Insn.kind, ops |-> Operations(touches)])
    /\ registers' = [i \in Regs |-> NewValue(touches, Reg(i))]
    /\ memory' = [w \in WordAddrs |-> NewValue(touches, Mem(w))]
    /\ latest' = Latest(touches)
    /\ cycle' = cycle + SUBCYCLES_PER_INSN
    /\ pc' = next
    /\ UNCHANGED <<inputs, output>>

Step(touches, next) ==
    /\ next # pc
    /\ Complete(touches, next)
    /\ UNCHANGED status

\* A trap, an assertion or the error of a busy loop: emulate_program panics
\* (expect "vm exec failed") and what was done so far is lost.
Fail ==
    /\ status' = "failed"
    /\ UNCHANGED <<inputs, pc, registers, memory, cycle, latest, mmio, records, output>>

\* Faulty: a write to x0 is a write to x0.
RdUnchanged(rd) == rd

\* rd_internal: a write to x0 goes to RD_NULL.
RdInternal(rd) == IF rd = 0 THEN RD_NULL ELSE rd
WriteRd(out) == Write(Reg(RdInternal(Insn.rd)), RD, out)
ReadRs1 == Read(Reg(Insn.rs1), RS1)
ReadRs2 == Read(Reg(Insn.rs2), RS2)
Rs1 == registers[Insn.rs1]
Rs2 == registers[Insn.rs2]
Offset(base) == (base + Insn.imm) % Modulus

\* step_compute: two registers, or one and an immediate.
Compute ==
    /\ \/ /\ Fetch("ADD")
          /\ Step(<<ReadRs1, ReadRs2, WriteRd((Rs1 + Rs2) % Modulus)>>, NextInsn)
       \/ /\ Fetch("ADDI")
          /\ Step(<<ReadRs1, WriteRd(Offset(Rs1))>>, NextInsn)
    /\ UNCHANGED mmio

\* step_compute: the jumps write the return address; the alignment of the
\* target is checked before.
EvenTarget == 2 * (Offset(Rs1) \div 2)
Jump ==
    /\ \/ /\ Fetch("JAL") /\ Aligned(Offset(pc))
          /\ Step(<<WriteRd(NextInsn)>>, Offset(pc))
       \/ /\ Fetch("JALR") /\ Aligned(EvenTarget)
          /\ Step(<<ReadRs1, WriteRd(NextInsn)>>, EvenTarget)
    /\ UNCHANGED mmio

\* step_branch.
BranchTarget == IF Rs1 = Rs2 THEN Offset(pc) ELSE NextInsn
Branch ==
    /\ Fetch("BEQ") /\ Aligned(BranchTarget)
    /\ Step(<<ReadRs1, ReadRs2>>, BranchTarget)
    /\ UNCHANGED mmio

\* step_load, step_store of a word.
DataAddr == Offset(Rs1)
Load ==
    /\ Fetch("LW") /\ CanRead(DataAddr) /\ Aligned(DataAddr)
    /\ LET word == Mem(WAddr(DataAddr))
       IN  Step(<<ReadRs1, Read(word, MEM), WriteRd(Value(word))>>, NextInsn)
    /\ mmio' = Tracked(WAddr(DataAddr))
Store ==
    /\ Fetch("SW") /\ CanWrite(DataAddr) /\ Aligned(DataAddr)
    /\ Step(<<ReadRs1, ReadRs2, Write(Mem(WAddr(DataAddr)), MEM, Rs2)>>, NextInsn)
    /\ mmio' = Tracked(WAddr(DataAddr))

\* ecall: HALT reads the exit code; the program counter becomes 0.
Function == registers[RegEcall]
ReadFunction == Read(Reg(RegEcall), RS1)
Halt ==
    /\ Fetch("ECALL") /\ Function = HaltCode
    /\ Complete(<<ReadFunction, Read(Reg(RegArg0), RS2)>>, 0)
    /\ status' = "halted"
    /\ UNCHANGED mmio

\* handle_syscall and apply_syscall.  The pointers must be aligned; a call with
\* one pointer asserts that the other argument is 0.  A call with two pointers
\* writes its result through the first and then what it read through the
\* second.  The bounds of the regions do not follow.
Pointers == <<registers[RegArg0], registers[RegArg1]>>
KnownCall == Function \in {UnaryCode, BinaryCode}
CallAccepted ==
    /\ Aligned(Pointers[1])
    /\ IF Function = UnaryCode THEN Pointers[2] = 0 ELSE Aligned(Pointers[2])
\* Faulty: the words after the one the pointer names.
ViewAfter(ptr) == [i \in 1 .. SyscallWords |-> Mem((WAddr(ptr) + i) % WAddr(Modulus))]
View(ptr) == [i \in 1 .. SyscallWords |-> Mem((WAddr(ptr) + i - 1) % WAddr(Modulus))]
MemOps(result) ==
    LET p == View(Pointers[1])
        q == View(Pointers[2])
        written == [i \in DOMAIN p |-> Write(p[i], MEM, result[i])]
    IN  IF Function = UnaryCode THEN written
        ELSE written \o [i \in DOMAIN q |-> Read(q[i], MEM)]
RegOps == <<Read(Reg(RegArg0), RD), Read(Reg(RegArg1), RD)>>
Syscall ==
    /\ Fetch("ECALL") /\ KnownCall /\ CallAccepted
    /\ \E result \in SyscallResults :
          Step(<<ReadFunction>> \o RegOps \o MemOps(result), NextInsn)
    /\ UNCHANGED mmio

\* An unknown call under unsafe_ecall_nop.
NopWord == WAddr(Stack.end - WORD_SIZE)
EcallNop ==
    /\ Fetch("ECALL") /\ Function # HaltCode /\ ~KnownCall /\ unsafe_ecall_nop
    /\ Step(<<ReadFunction, Read(Reg(RegArg0), RS2), Write(Reg(RD_NULL), RD, 0),
              Read(Mem(NopWord), MEM)>>, NextInsn)
    /\ mmio' = Tracked(NopWord)

\* What can go wrong in a step.
Trap ==
    /\ CanStep
    /\ \/ Fetched \notin DOMAIN program
       \/ Fetch("INVALID")
       \/ Fetch("JAL")   /\ (~Aligned(Offset(pc)) \/ Offset(pc) = pc)
       \/ Fetch("JALR")  /\ (~Aligned(EvenTarget) \/ EvenTarget = pc)
       \/ Fetch("BEQ")   /\ (~Aligned(BranchTarget) \/ BranchTarget = pc)
       \/ Fetch("LW")    /\ (~CanRead(DataAddr) \/ ~Aligned(DataAddr))
       \/ Fetch("SW")    /\ (~CanWrite(DataAddr) \/ ~Aligned(DataAddr))
       \/ Fetch("ECALL") /\ KnownCall /\ ~CallAccepted
       \/ Fetch("ECALL") /\ Function # HaltCode /\ ~KnownCall /\ ~unsafe_ecall_nop
    /\ Fail
-----------------------------------------------------------------------------
(***************************************************************************)
(* emulate_program, after the last step.                                   *)
(***************************************************************************)
Finished == status = "halted" \/ (status = "running" /\ Len(records) = MaxSteps)

Record(loc, value) == [loc |-> loc, value |-> value, cycle |-> latest[loc]]
MemRecords(W) == {Record(Mem(w), memory[w]) : w \in W}
\* The tables of the public input and of the hints keep the initial value.
InputRecords(init) == {Record(Mem(WAddr(a)), init[a]) : a \in DOMAIN init}

\* Faulty: the lowest word of the stack is left out.
StackWordsAboveMin ==
    IF mmio["stack"].min < mmio["stack"].max
    THEN mmio["stack"].min + 1 .. WAddr(Stack.end) - 1 ELSE {}

\* probe_min_max_address_by_start_addr gives a range only if one was accessed.
Accessed(r) == mmio[r].min < mmio[r].max
StackWords == IF Accessed("stack") THEN mmio["stack"].min .. WAddr(Stack.end) - 1 ELSE {}
HeapWords  == IF Accessed("heap") THEN WAddr(Heap.start) .. mmio["heap"].max - 1 ELSE {}

\* Faulty: a register table of the 32 architectural registers.
FinalTablesWithoutNull ==
    [reg    |-> {Record(Reg(i), registers[i]) : i \in Regs \ {RD_NULL}},
     static |-> MemRecords({WAddr(a) : a \in DOMAIN Image}),
     io     |-> InputRecords(IoInit),
     hints  |-> InputRecords(HintInit),
     stack  |-> MemRecords(StackWords),
     heap   |-> MemRecords(HeapWords)]

\* The final records of emulate_program.
FinalTables ==
    [reg    |-> {Record(Reg(i), registers[i]) : i \in Regs},
     static |-> MemRecords({WAddr(a) : a \in DOMAIN Image}),
     io     |-> InputRecords(IoInit),
     hints  |-> InputRecords(HintInit),
     stack  |-> MemRecords(StackWords),
     heap   |-> MemRecords(HeapWords)]

\* debug_memory_ranges: an accessed data address without a final record.
Unhandled ==
    LET handled == UNION {FinalTables[t] : t \in DOMAIN FinalTables}
    IN  {w \in WordAddrs :
           /\ latest[Mem(w)] # 0
           /\ CanRead(WORD_SIZE * w)
           /\ \A rec \in handled : rec.loc = Mem(w) => rec.cycle = 0}

\* Faulty: every ecall is taken for a HALT.
EcallSteps == {i \in DOMAIN records : records[i].kind = "ECALL"}

\* The exit code is the argument of the last ecall of HALT, if there is one.
HaltSteps == {i \in DOMAIN records :
                records[i].kind = "ECALL" /\ records[i].ops[1].after = HaltCode}
ExitCode == IF HaltSteps = {} THEN <<>> ELSE <<records[LastOf(HaltSteps)].ops[2].after>>

Return ==
    /\ Finished
    /\ Unhandled = {}
    /\ status' = "returned"
    /\ output' = [tables |-> FinalTables, exit_code |-> ExitCode,
                  init_pc |-> RomStart, init_cycle |-> SUBCYCLES_PER_INSN,
                  end_pc |-> pc, end_cycle |-> cycle]
    /\ UNCHANGED <<inputs, pc, registers, memory, cycle, latest, mmio, records>>

ReturnFails == Finished /\ Unhandled # {} /\ Fail

Ended == status \in {"failed", "returned"} /\ UNCHANGED vars

Execute == Compute \/ Jump \/ Branch \/ Load \/ Store \/ Halt \/ Syscall \/ EcallNop
Next == Execute \/ Trap \/ Return \/ ReturnFails \/ Ended

Spec == Init /\ [][Next]_vars
-----------------------------------------------------------------------------
(***************************************************************************)
(* Properties.                                                             *)
(***************************************************************************)
\* The values the program's variables range over.
TypeOK ==
    /\ pc \in Words
    /\ registers \in [Regs -> Words]
    /\ memory \in [WordAddrs -> Words]
    /\ status \in {"running", "halted", "failed", "returned"}
    /\ cycle \in Nat
    /\ latest \in [Locations -> Nat]
    /\ \A r \in DOMAIN Regions :
          /\ mmio[r].min \in WAddr(Regions[r].start) .. WAddr(Regions[r].end)
          /\ mmio[r].max \in WAddr(Regions[r].start) .. WAddr(Regions[r].end)
    /\ \A i \in DOMAIN records : records[i].before \in Words /\ records[i].after \in Words

\* The operations of the trace, by step and place.
OpIndex == UNION {{<<i, k>> : k \in DOMAIN records[i].ops} : i \in DOMAIN records}
Op(d) == records[d[1]].ops[d[2]]

InitialValue(loc) == IF loc[1] = "reg" THEN 0 ELSE InitialMemory[loc[2]]

\* No operation of ops on the location lies strictly between the two times.
Quiet(ops, loc, from, to) ==
    \A op \in ops : op.loc = loc => op.ts <= from \/ to <= op.ts

\* The location holds the value because an operation of ops left it there at
\* that time; time 0 stands for the initial state.
LeftBy(ops, loc, value, ts) ==
    IF ts = 0 THEN value = InitialValue(loc)
    ELSE \E op \in ops : op.loc = loc /\ op.ts = ts /\ op.after = value

\* Every operation of the trace points to the operation on the same location
\* that really came last: it is earlier, nothing lies between, and it left the
\* value this one found (track_access).
AccessChain ==
    LET ops == {Op(d) : d \in OpIndex}
    IN  \A op \in ops : /\ op.prev < op.ts
                        /\ Quiet(ops, op.loc, op.prev, op.ts)
                        /\ LeftBy(ops, op.loc, op.before, op.prev)

\* The machine is where its trace says: every location holds what its latest
\* operation left, and latest_accesses names that operation.
TraceExplainsMachine ==
    LET ops == {Op(d) : d \in OpIndex}
    IN  \A loc \in Locations : /\ Quiet(ops, loc, latest[loc], cycle)
                               /\ LeftBy(ops, loc, Value(loc), latest[loc])

\* x0 reads as 0 whatever instruction names it as its destination, and no
\* operation on it changes it (rd_internal, store_register).
ZeroRegister ==
    /\ registers[0] = 0
    /\ \A d \in OpIndex : Op(d).loc = Reg(0) => Op(d).before = 0 /\ Op(d).after = 0

\* The global state of the circuits is one chain of (pc, cycle): each step
\* starts where the one before ended, from the entry point to the public end,
\* and HALT is the last step of a run.
StepsChain ==
    /\ \A i \in DOMAIN records :
          /\ records[i].before = IF i = 1 THEN RomStart ELSE records[i - 1].after
          /\ records[i].cycle = SUBCYCLES_PER_INSN * i
          /\ i < Len(records) => i \notin HaltSteps
    /\ status = "returned" =>
          /\ output.end_pc = IF records = <<>> THEN RomStart ELSE records[Len(records)].after
          /\ output.end_cycle = SUBCYCLES_PER_INSN * (Len(records) + 1)

\* A run has an exit code exactly when it halted, and it is what a0 holds.
ExitCodeOfHalt ==
    status = "returned" =>
        /\ output.exit_code # <<>> <=> Len(records) \in HaltSteps
        /\ output.exit_code # <<>> => output.exit_code = <<registers[RegArg0]>>

\* A step of apply_syscall: its argument registers are traced as writes.
IsSyscall(rec) == rec.kind = "ECALL" /\ rec.ops[2].ts = rec.cycle + RD

\* The bounds of a region are exactly the span of the words that loads and
\* stores touched in it: the tables cut along them miss none and add no row.
BoundsAreSpan ==
    LET touched == {Op(d).loc[2] : d \in {e \in OpIndex : /\ Op(e).loc[1] = "mem"
                                                          /\ ~IsSyscall(records[e[1]])}}
    IN  \A r \in DOMAIN Regions :
          LET inRegion == {w \in touched : InRange(WORD_SIZE * w, Regions[r])}
          IN  IF inRegion = {} THEN ~Accessed(r)
              ELSE /\ mmio[r].min \in inRegion /\ mmio[r].max - 1 \in inRegion
                   /\ inRegion \subseteq mmio[r].min .. mmio[r].max - 1

\* The assertion of debug_memory_ranges: when a run ends, every data address
\* that was accessed has its final record in one of the tables.
EveryAccessHandled == Finished => Unhandled = {}

\* What can go unhandled: a word that system calls touched and no load or store
\* did, or a word of the hints' range behind the hints that were given.
UnhandledOnlyBySyscalls ==
    Finished =>
        \A w \in Unhandled :
            \/ InRange(WORD_SIZE * w, Hints) /\ WORD_SIZE * w \notin DOMAIN HintInit
            \/ \A d \in OpIndex : Op(d).loc = Mem(w) => IsSyscall(records[d[1]])

\* The offline memory check: the initial records and all that was written are
\* all that was read and the final records, as multisets of (location, value,
\* time).  It balances unless the program left a word of the public input or of
\* the hints changed, whose tables claim the initial value at the end.
Entry(loc, value, ts) == [loc |-> loc, value |-> value, ts |-> ts]
AsBag(f) == [x \in {f[d] : d \in DOMAIN f} |-> Cardinality({d \in DOMAIN f : f[d] = x})]
FinalEntries(table) == SetToBag({Entry(rec.loc, rec.value, rec.cycle) : rec \in table})
InitialEntries(table) ==
    SetToBag({Entry(rec.loc, InitialValue(rec.loc), 0) : rec \in table})
Total(F(_)) ==
    F(output.tables.reg) (+) F(output.tables.static) (+) F(output.tables.io)
    (+) F(output.tables.hints) (+) F(output.tables.stack) (+) F(output.tables.heap)
Balanced ==
    Total(InitialEntries) (+) AsBag([d \in OpIndex |-> Entry(Op(d).loc, Op(d).after, Op(d).ts)])
    = Total(FinalEntries) (+) AsBag([d \in OpIndex |-> Entry(Op(d).loc, Op(d).before, Op(d).prev)])
InputUnchanged ==
    /\ \A a \in DOMAIN IoInit : memory[WAddr(a)] = IoInit[a]
    /\ \A a \in DOMAIN HintInit : memory[WAddr(a)] = HintInit[a]
MemoryBalances == status = "returned" => (Balanced <=> InputUnchanged)

\* The result of a system call is written over its first input
\* (ceno_rt/src/syscalls.rs): after the step, memory holds there what the first
\* SyscallWords memory operations of the step wrote.
ResultOverFirstInput ==
    records # <<>> =>
        LET last == records[Len(records)]
            writes == {k \in DOMAIN last.ops : k > 3 /\ k <= 3 + SyscallWords}
        IN  IsSyscall(last) =>
               \A k \in writes : memory[last.ops[k].loc[2]] = last.ops[k].after
-----------------------------------------------------------------------------
(***************************************************************************)
(* The machine a guest sees.                                               *)
(***************************************************************************)
\* HALT is told from the step limit by the step that was done last, a run that
\* was given up after either from a trap by what stopped it first.
MachineState ==
    IF status = "running" THEN "running"
    ELSE IF Len(records) \in HaltSteps THEN "halted"
    ELSE IF Len(records) = MaxSteps THEN "stopped"
    ELSE "trapped"

Machine ==
    INSTANCE RiscvMachine WITH
        FirstMemory <- InitialMemory,
        Accessible <- {a \in Words : CanRead(a)},
        x <- [i \in Names \ {0} |-> registers[i]],
        mem <- memory,
        state <- MachineState

\* Tracing shows nothing to the guest: with RD_NULL hidden, every instruction has
\* its effect on registers and memory and no other, x0 reads as zero whatever was
\* written to it, a system call changes the words behind its first pointer only,
\* and a run ends by HALT, by a trap or at the step limit and not otherwise
\* (EmuContext for VMState).
ImplementsMachine == Machine!Spec
=============================================================================
