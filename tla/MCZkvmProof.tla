------------------------------- MODULE MCZkvmProof -------------------------------
(***************************************************************************)
(* A small machine to prove runs of.  An instruction adds one and a flag   *)
(* of its own to a word of memory; the program is a line of them and a     *)
(* halt.  The circuits have every kind of record there is: the state of    *)
(* the machine, memory whose addresses are fixed, given by a formula, or   *)
(* whose contents are public, a range table and the program; one opcode    *)
(* circuit is never used.  The sizes go from one row to one past a power   *)
(* of two.  Some runs break one rule and only that one.                    *)
(***************************************************************************)
EXTENDS ZkvmProof

GlobalState == Constant(1)
Memory == Constant(2)
RangeRom == 1
ProgramRom == 2

RangeSize == 8
FixedSpec(n) == [len |-> n, structural |-> <<>>]
HeapColumn == [offset |-> 41, multi_factor |-> 1, descending |-> TRUE, max_len |-> 4]

\* A circuit is described by its numbers of columns, the public words it
\* asks for, its records and its constraints.
Plain(witin) ==
    [witin |-> witin, struct |-> 0, fixed |-> 0, instances |-> <<>>, reads |-> <<>>, writes |-> <<>>,
     lookups |-> <<>>, tables |-> <<>>, ram |-> <<>>, spec |-> FixedSpec(0), equal |-> <<>>, zero |-> <<>>, bits |-> <<>>]

\* The system the operations of the builder make of a description.
Described(d) ==
    LET empty == CreateFixed(CreateWitins(NewConstraintSystem, d.witin), d.fixed)
        start == [empty EXCEPT !.num_structural = d.struct]
        asked[k \in 0 .. Len(d.instances)] ==
            IF k = 0 THEN start ELSE QueryInstance(asked[k - 1], d.instances[k])
        read[k \in 0 .. Len(d.reads)] ==
            IF k = 0 THEN asked[Len(d.instances)] ELSE ReadRecord(read[k - 1], d.reads[k])
        written[k \in 0 .. Len(d.writes)] ==
            IF k = 0 THEN read[Len(d.reads)] ELSE WriteRecord(written[k - 1], d.writes[k])
        looked[k \in 0 .. Len(d.lookups)] ==
            IF k = 0 THEN written[Len(d.writes)] ELSE LkRecord(looked[k - 1], d.lookups[k][1], d.lookups[k][2])
        counted[k \in 0 .. Len(d.tables)] ==
            IF k = 0 THEN looked[Len(d.lookups)]
            ELSE LkTableRecord(counted[k - 1], d.spec, d.tables[k][1], d.tables[k][2], d.tables[k][3])
        table[k \in 0 .. Len(d.ram)] ==
            IF k = 0 THEN counted[Len(d.tables)]
            ELSE RTableRecord(WTableRecord(table[k - 1], d.spec, d.ram[k][1]), d.spec, d.ram[k][2])
        equal[k \in 0 .. Len(d.equal)] ==
            IF k = 0 THEN table[Len(d.ram)] ELSE RequireEqual(equal[k - 1], d.equal[k][1], d.equal[k][2])
        zero[k \in 0 .. Len(d.zero)] ==
            IF k = 0 THEN equal[Len(d.equal)] ELSE RequireZero(zero[k - 1], d.zero[k])
        bits[k \in 0 .. Len(d.bits)] ==
            IF k = 0 THEN zero[Len(d.zero)] ELSE AssertBit(bits[k - 1], d.bits[k])
    IN  FinalizeBackend(bits[Len(d.bits)])

\* Columns pc, ts, addr, prev_ts and what an instruction has of its own.
StateReads == <<GlobalState, WitIn(0), WitIn(1)>>
StateWrites(next_pc) == <<GlobalState, next_pc, Add(WitIn(1), One)>>
MemoryReads(before) == <<Memory, WitIn(2), before, WitIn(3)>>
MemoryWrites(after) == <<Memory, WitIn(2), after, WitIn(1)>>
UsedBefore == <<RangeRom, <<Sub(Sub(WitIn(1), WitIn(3)), One)>>>>
NextWord == Add(WitIn(0), Constant(4))

\* x and y at 4 and 5, the flag b at 6: y = x + b + 1, b is 0 or 1.
AddCircuit ==
    [Plain(7) EXCEPT
        !.reads = <<StateReads, MemoryReads(WitIn(4))>>,
        !.writes = <<StateWrites(NextWord), MemoryWrites(WitIn(5))>>,
        !.lookups = <<UsedBefore, <<RangeRom, <<WitIn(5)>>>>, <<ProgramRom, <<WitIn(0), WitIn(2), WitIn(6)>>>>>>,
        !.equal = <<<<WitIn(5), Add(Add(WitIn(4), WitIn(6)), One)>>>>,
        !.bits = <<WitIn(6)>>]

\* With 2 for b as well, under a constraint of the third degree.
CubicAddCircuit ==
    [AddCircuit EXCEPT
        !.bits = <<>>,
        !.zero = <<Mul(Mul(WitIn(6), Sub(One, WitIn(6))), Sub(Constant(2), WitIn(6)))>>]

\* The low and the high half of the exit code are public.
ExitWord == Add(Instance(0), Times(Instance(1), 16))

HaltCircuit ==
    [Plain(4) EXCEPT
        !.instances = <<0, 1>>,
        !.reads = <<StateReads, MemoryReads(ExitWord)>>,
        !.writes = <<StateWrites(Zero), MemoryWrites(ExitWord)>>,
        !.lookups = <<UsedBefore, <<ProgramRom, <<WitIn(0), WitIn(2), Zero>>>>>>]

UnusedCircuit ==
    [Plain(5) EXCEPT
        !.reads = <<StateReads>>, !.writes = <<StateWrites(NextWord)>>,
        !.lookups = <<<<RangeRom, <<WitIn(4)>>>>>>,
        !.bits = <<WitIn(4)>>]

\* The first record of an address and the last one.
Word(addr, first, last, ts) == <<<<<<Memory, addr, first, Zero>>, <<Memory, addr, last, ts>>>>>>

HeapCircuit ==
    [Plain(2) EXCEPT
        !.struct = 1, !.spec = [len |-> 0, structural |-> <<HeapColumn>>],
        !.ram = Word(StructuralWitIn(0), Zero, WitIn(0), WitIn(1))]

RegisterTable ==
    [Plain(2) EXCEPT
        !.fixed = 2, !.spec = FixedSpec(2), !.ram = Word(Fixed(0), Fixed(1), WitIn(0), WitIn(1))]

PublicIoCircuit ==
    [Plain(1) EXCEPT
        !.fixed = 1, !.instances = <<6>>, !.spec = FixedSpec(2),
        !.ram = Word(Fixed(0), Instance(6), Instance(6), WitIn(0))]

RangeCircuit ==
    [Plain(1) EXCEPT
        !.fixed = 1, !.spec = FixedSpec(RangeSize), !.tables = <<<<RangeRom, <<Fixed(0)>>, WitIn(0)>>>>]

ProgramCircuit(len) ==
    [Plain(1) EXCEPT
        !.fixed = 3, !.spec = FixedSpec(len),
        !.tables = <<<<ProgramRom, <<Fixed(0), Fixed(1), Fixed(2)>>, WitIn(0)>>>>]

Circuits == <<AddCircuit, HaltCircuit, HeapCircuit, UnusedCircuit, PublicIoCircuit, RangeCircuit, RegisterTable, CubicAddCircuit>>
            \o [len \in 1 .. 6 |-> ProgramCircuit(len)]
DescribedAll(ds) == [k \in DOMAIN ds |-> Described(ds[k])]
Systems == DescribedAll(Circuits)
-----------------------------------------------------------------------------
(***************************************************************************)
(* Runs.  A plan is [code, halt, io, wrong, mock]: the (address, flag,     *)
(* excess) of each instruction, the address of the exit code, the public   *)
(* words, what is wrong with the witness or odd about the run, and whether *)
(* the mock prover goes first.                                             *)
(***************************************************************************)
Registers == <<1, 2>>
Heap == <<41, 40, 39>>
PublicIo == <<60, 61>>
InitPc == 8

FirstValue(plan, addr) ==
    IF addr = 1 THEN 2 ELSE IF addr = PublicIo[1] THEN plan.io[1] ELSE IF addr = PublicIo[2] THEN plan.io[2] ELSE 0

\* The word and the time it was last used, before step s.
WordAt(plan, s, addr) ==
    LET word[k \in 1 .. s] ==
            IF k = 1 THEN [v |-> FirstValue(plan, addr), ts |-> 0]
            ELSE LET was == word[k - 1]
                 IN  IF plan.code[k - 1][1] = addr
                     THEN [v |-> was.v + plan.code[k - 1][2] + 1 + plan.code[k - 1][3], ts |-> k - 1]
                     ELSE was
    IN  word[s]

Steps(plan) == Len(plan.code)
Halted(plan) == plan.wrong # "unfinished"
Cubic(plan) == \E s \in 1 .. Steps(plan) : plan.code[s][2] = 2
PcAt(s) == InitPc + 4 * (s - 1)
EndTs(plan) == Steps(plan) + (IF Halted(plan) THEN 2 ELSE 1)

AddRows(plan) ==
    [s \in 1 .. Steps(plan) |->
        LET addr == plan.code[s][1]
            word == WordAt(plan, s, addr)
        IN  <<PcAt(s), s, addr, word.ts,
              IF plan.wrong = "read" /\ s = 1 THEN word.v + 1 ELSE word.v,
              WordAt(plan, s + 1, addr).v, plan.code[s][2]>>]

HaltRow(plan) ==
    LET s == Steps(plan) + 1 IN <<PcAt(s), s, plan.halt, WordAt(plan, s, plan.halt).ts>>

HaltRows(plan) ==
    IF plan.wrong \in {"no halt", "unfinished"} THEN <<>>
    ELSE IF plan.wrong = "two halts" THEN <<HaltRow(plan), HaltRow(plan)>> ELSE <<HaltRow(plan)>>

\* The last value and use of an address; the halt uses its own.
LastRow(plan, addr) ==
    LET word == WordAt(plan, Steps(plan) + 1, addr)
    IN  <<word.v, IF Halted(plan) /\ addr = plan.halt THEN Steps(plan) + 1 ELSE word.ts>>

Program(plan) ==
    [s \in 1 .. Steps(plan) |-> <<PcAt(s), plan.code[s][1], plan.code[s][2]>>]
    \o <<<<PcAt(Steps(plan) + 1), plan.halt, 0>>>>

\* What the opcode circuits count: each row the ranges it checks and the
\* instruction it is, by its address.
AddCounts(plan) ==
    LET adds == AddRows(plan)
    IN  SeqOps!FlattenSeq([s \in DOMAIN adds |->
            <<<<RangeRom, adds[s][2] - adds[s][4] - 1>>, <<RangeRom, adds[s][6]>>, <<ProgramRom, adds[s][1]>>>>])
        \o (IF plan.wrong = "count" THEN <<<<RangeRom, 0>>>> ELSE <<>>)

HaltCounts(plan) ==
    LET rows == HaltRows(plan)
    IN  SeqOps!FlattenSeq([s \in DOMAIN rows |->
            <<<<RangeRom, rows[s][2] - rows[s][4] - 1>>, <<ProgramRom, rows[s][1]>>>>])

\* In a pool of one thread, entered by the caller, the caller counts.
ByCaller(keys) == [caller |-> keys, pool |-> <<>>]
ByPool(keys) == [caller |-> <<>>, pool |-> keys]
Counts(plan, keys) == IF plan.wrong = "pool" THEN ByPool(keys) ELSE ByCaller(keys)

Touched(plan) == {k \in DOMAIN Heap : Heap[k] \in {plan.code[s][1] : s \in 1 .. Steps(plan)} \cup {plan.halt}}
HeapRows(plan) ==
    [k \in 1 .. (IF Touched(plan) = {} THEN 0 ELSE Len(Heap)) |-> LastRow(plan, Heap[k])]

Opcode(plan, name, cs, rows, keys) ==
    [name |-> name, kind |-> "opcode", cs |-> cs, fixed |-> <<>>, rows |-> rows,
     counts |-> Counts(plan, keys), keys |-> <<>>]
Lookups(name, cs, fixed, keys) ==
    [name |-> name, kind |-> "lookup", cs |-> cs, fixed |-> fixed, rows |-> <<>>,
     counts |-> ByCaller(<<>>), keys |-> keys]
Ram(name, cs, fixed, rows) ==
    [name |-> name, kind |-> "memory", cs |-> cs, fixed |-> fixed, rows |-> rows,
     counts |-> ByCaller(<<>>), keys |-> <<>>]

\* In the order of e2e.rs: instructions, ranges, memory, calls, the program.
Parts(plan, systems, program) ==
    <<Opcode(plan, 1, systems[IF Cubic(plan) THEN 8 ELSE 1], AddRows(plan), AddCounts(plan)),
      Opcode(plan, 2, systems[2], HaltRows(plan), HaltCounts(plan)),
      Lookups(7, systems[6], [k \in 1 .. RangeSize |-> <<k - 1>>], [k \in 1 .. RangeSize |-> <<RangeRom, k - 1>>]),
      Ram(8, systems[7], [k \in DOMAIN Registers |-> <<Registers[k], FirstValue(plan, Registers[k])>>],
          [k \in DOMAIN Registers |-> LastRow(plan, Registers[k])]),
      Ram(6, systems[5], [k \in DOMAIN PublicIo |-> <<PublicIo[k]>>],
          [k \in DOMAIN PublicIo |-> <<LastRow(plan, PublicIo[k])[2]>>]),
      Ram(3, systems[3], <<>>, HeapRows(plan)),
      Opcode(plan, 4, systems[4], <<>>, <<>>),
      Lookups(5, systems[8 + Len(program)], program, [k \in DOMAIN program |-> <<ProgramRom, program[k][1]>>])>>

ExitCode(plan) ==
    IF Halted(plan)
    THEN WordAt(plan, Steps(plan) + 1, plan.halt).v + (IF plan.wrong = "exit" THEN 1 ELSE 0)
    ELSE 0

EndPc(plan) ==
    IF plan.wrong = "end" THEN 4 ELSE IF Halted(plan) THEN 0 ELSE PcAt(Steps(plan) + 1)

PublicValues(plan) ==
    <<<<ExitCode(plan) % 16>>, <<ExitCode(plan) \div 16>>, <<InitPc>>, <<1>>,
      <<EndPc(plan)>>, <<EndTs(plan)>>, plan.io>>

\* No challenge is one of the nodes 0 .. 3 of the round messages.
Stream(k) == [i \in 1 .. 200 |-> 5 + ((53 * i * i * i + (211 + k) * i + 90 * (i \div 7)) % (Prime - 5))]

\* Without the tables that have fixed columns no proof is begun.
PartsOf(plan, systems) ==
    LET parts == Parts(plan, systems, Program(plan))
    IN  IF plan.wrong = "no fixed" THEN SelectSeq(parts, LAMBDA part : part.cs.num_fixed = 0) ELSE parts

InstanceOf(k, plan, systems) ==
    [parts |-> PartsOf(plan, systems), raw_pi |-> PublicValues(plan), stream |-> Stream(k),
     halt |-> 2, expect_halt |-> Halted(plan), mock |-> plan.mock,
     initial |-> <<GlobalState, Instance(2), Instance(3)>>,
     final |-> <<GlobalState, Instance(4), Instance(5)>>]

Plan(code, halt, io, wrong) == [code |-> code, halt |-> halt, io |-> io, wrong |-> wrong, mock |-> FALSE]
Mocked(plans) == [k \in DOMAIN plans |-> [plans[k] EXCEPT !.mock = TRUE]]

Short == <<<<1, 0, 0>>>>
Even == <<<<1, 0, 0>>, <<2, 1, 0>>, <<1, 1, 0>>>>
Long == <<<<1, 0, 0>>, <<41, 1, 0>>, <<1, 2, 0>>>>
Longer == <<<<1, 0, 0>>, <<2, 0, 0>>, <<41, 1, 0>>, <<40, 2, 0>>, <<2, 1, 0>>>>

Right ==
    <<Plan(<<<<1, 1, 0>>, <<41, 0, 0>>>>, 2, <<3, 5>>, "none"),
      Plan(Long, 60, <<17, 5>>, "none"),
      Plan(Long \o <<<<40, 0, 0>>>>, 1, <<0, 0>>, "none"),
      Plan(Longer, 41, <<3, 5>>, "none")>>

\* No table of addresses that are no fixed column.
MockedRight ==
    <<Plan(Short, 1, <<3, 5>>, "none"),
      Plan(Even, 60, <<3, 5>>, "none"),
      Plan(<<<<2, 1, 0>>>>, 2, <<3, 5>>, "unfinished")>>

\* Each wrong in one way.
Wrong ==
    <<Plan(<<<<1, 0, 1>>, <<2, 0, 0>>>>, 2, <<3, 5>>, "sum"),
      Plan(<<<<1, 0, 0>>, <<2, 0, 0>>, <<1, 0, 1>>>>, 2, <<3, 5>>, "sum"),
      Plan(<<<<1, 0, 0>>, <<2, 4, 0>>, <<1, 0, 0>>>>, 1, <<3, 5>>, "flag"),
      Plan(<<<<1, 0, 1>>, <<2, 0, 0>>, <<2, 0, 0>>>>, 2, <<3, 5>>, "read"),
      Plan(Even, 2, <<3, 5>>, "count"),
      Plan(Even, 2, <<3, 5>>, "end"),
      Plan(Even, 60, <<3, 5>>, "exit"),
      Plan(Even, 2, <<3, 5>>, "no halt"),
      Plan(Short, 2, <<3, 5>>, "no fixed"),
      Plan(Short, 2, <<3, 5>>, "two halts")>>

\* What the mock prover cannot pass: a table of addresses, a constraint of
\* the third degree, lookups counted in the pool.
MockedOnly ==
    <<Plan(<<<<1, 1, 0>>, <<41, 0, 0>>>>, 2, <<3, 5>>, "none"),
      Plan(<<<<1, 2, 0>>>>, 2, <<3, 5>>, "none"),
      Plan(Short, 2, <<3, 5>>, "pool")>>

Plans == Right \o Mocked(MockedRight) \o Wrong \o Mocked(Wrong) \o Mocked(MockedOnly)

InstancesOf(plans, systems) == [k \in DOMAIN plans |-> InstanceOf(k, plans[k], systems)]
MCInstances == InstancesOf(Plans, Systems)
=================================================================================
