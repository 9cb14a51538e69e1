--------------------------- MODULE WitnessGeneration ---------------------------
(***************************************************************************)
(* From the inputs of the host to the tables of the proof                  *)
(* (run_e2e_with_checkpoint up to create_proof): the host lays out hints   *)
(* and public input, the guest reads them, allocates, calls and writes     *)
(* messages through the runtime (ceno_rt), emulate_program takes the final *)
(* records, and generate_witness assigns the opcode circuits on several    *)
(* threads and then the tables.                                            *)
(*                                                                         *)
(* A call of the runtime is one action; it runs as the loads, stores and   *)
(* register instructions that its source asks for, each a step of the      *)
(* trace.  Control flow and the circuits are the matter of Emulator and of *)
(* InstructionCircuits: here every instruction of a kind has the same pc.  *)
(***************************************************************************)
EXTENDS MemoryTables, Bags

CONSTANTS
    Hosts,        \* [stdin, public_io, elf, stack_size, heap_size, pub_io_size,
                  \*  debug, mock_proving]
    Layouts,      \* size and alignment of the allocations
    Messages,     \* messages, as sequences of bytes
    Depths,       \* words below the top of the stack that a call touches
    MaxCalls,     \* calls of the runtime in a run
    Workers,      \* threads of the pool
    Caller,       \* the thread that generates the witness, outside the pool
    Threshold     \* instances that are assigned as one batch, 256 in the code

ASSUME CallerAssumption == Caller \notin Workers

VARIABLES
    host,        \* the inputs
    store,       \* registers and memory
    trace,       \* the steps
    guest,       \* what the runtime gave the program and took from it
    phase,       \* "guest", "emulated", "finalized", "assigned" or "panicked"
    lk_mlts,     \* by circuit, the multiplicities counted by each thread
    combined,    \* combined_lk_mlt
    tables       \* rows of the memory tables and of the lookup tables

vars == <<host, store, trace, guest, phase, lk_mlts, combined, tables>>
-----------------------------------------------------------------------------
program  == LoadElf(host.elf)
platform == SetupPlatform(program, host.stack_size, host.heap_size, host.pub_io_size, host.debug)
INFO_OUT_ADDR == StackEnd

BagOf(seq) == [e \in ToSet(seq) |-> Cardinality({i \in DOMAIN seq : seq[i] = e})]

(***************************************************************************)
(* setup_program and setup_init_mem.                                       *)
(***************************************************************************)
IoInit   == MemRecords(platform.public_io, WordCount(platform.public_io), StdinWords(host.public_io))
HintInit == LET hints == StdinWords(host.stdin)
            IN  MemRecords(platform.hints, NextPowerOfTwo(Len(hints)), hints)
\* init_static_addrs: in the order of the addresses.
StaticInit ==
    LET keys == DOMAIN program.image
        key(i) == CHOOSE a \in keys : Cardinality({b \in keys : b < a}) = i - 1
    IN  [i \in 1 .. Cardinality(keys) |-> [addr |-> key(i), value |-> program.image[key(i)]]]

\* What an honest setup respects.
Sound(h) ==
    LET prog == LoadElf(h.elf)
        plat == SetupPlatform(prog, h.stack_size, h.heap_size, h.pub_io_size, h.debug)
    IN  /\ Loadable(h.elf)
        /\ Validate(plat)
        /\ Len(StdinWords(h.public_io)) <= WordCount(plat.public_io)
        /\ NextPowerOfTwo(Len(StdinWords(h.stdin))) <= WordCount(plat.hints)

Reg(i) == <<Register, i>>
Mem(a) == <<Memory, WORD_SIZE * (a \div WORD_SIZE)>>
Null == 0   A0 == 1   RD_NULL == 2

ValueOf(f, loc) == IF loc \in DOMAIN f THEN f[loc] ELSE 0

\* emulate_program: the image, then the hints and the public input over it.
InitialStore ==
    LET written(records) ==
            FoldLeft(LAMBDA f, rec : (Mem(rec.addr) :> rec.value) @@ f, <<>>, records)
        image == {a \div WORD_SIZE : a \in DOMAIN program.image}
    IN  written(HintInit \o IoInit)
        @@ [loc \in {Mem(WORD_SIZE * w) : w \in image} |->
              InitialWord(program.image, loc[2] \div WORD_SIZE)]
        @@ [loc \in {Reg(i) : i \in 0 .. REG_COUNT - 1} |-> 0]

NoTables == <<>>
Init ==
    /\ host \in {h \in Hosts : Sound(h)}
    /\ store = InitialStore
    /\ trace = <<>>
    /\ guest = [calls |-> 0, next_hint |-> 0, next_pubio |-> 0, cursor |-> INFO_OUT_ADDR,
                next_alloc |-> program.sheap, hints |-> <<>>, committed |-> <<>>,
                messages |-> <<>>]
    /\ phase = "guest"
    /\ lk_mlts = <<>>
    /\ combined = <<>>
    /\ tables = NoTables
-----------------------------------------------------------------------------
(***************************************************************************)
(* Instructions.  An operation is a location, its value before and after,  *)
(* the time of the operation before it and its own.                        *)
(***************************************************************************)
SUBCYCLES_PER_INSN == 4
RS1 == 0   RD == 2   MEM == 3

Kinds == {"ADDI", "ANDI", "LW", "SW", "HALT"}
PcOf(kind) == program.base_address + (IF kind = "LW" THEN 0 ELSE IF kind = "SW" THEN WORD_SIZE
                                      ELSE IF kind = "HALT" THEN 2 * WORD_SIZE ELSE 3 * WORD_SIZE)

Load(a)  == [kind |-> "LW", addr |-> a, value |-> 0]
Store(a) == [kind |-> "SW", addr |-> a, value |-> 0]
Li(v)    == [kind |-> "ADDI", addr |-> 0, value |-> v]
AndImm(v) == [kind |-> "ANDI", addr |-> 0, value |-> v]
Put(a, v) == <<Li(v), Store(a)>>

AndBytes(x, y) ==
    WordOf([j \in 1 .. WORD_SIZE |-> And(BytesOf(x)[j], BytesOf(y)[j])])

\* The time of the last operation of the trace on a location: final_accesses.
LastAccess(steps, loc) ==
    LET times == UNION {{steps[i].ops[k].ts : k \in {j \in DOMAIN steps[i].ops :
                                                      steps[i].ops[j].loc = loc}} : i \in DOMAIN steps}
    IN  IF times = {} THEN 0 ELSE Max(times)

\* One instruction on [store, trace].
Execute(m, insn) ==
    LET cycle == SUBCYCLES_PER_INSN * (Len(m.trace) + 1)
        op(loc, after, sub) ==
            [loc |-> loc, before |-> ValueOf(m.store, loc), after |-> after,
             prev |-> LastAccess(m.trace, loc), ts |-> cycle + sub]
        read(loc, sub) == op(loc, ValueOf(m.store, loc), sub)
        a0  == ValueOf(m.store, Reg(A0))
        ops == CASE insn.kind = "ADDI" -> <<read(Reg(Null), RS1), op(Reg(A0), insn.value, RD)>>
               []   insn.kind = "ANDI" -> <<read(Reg(A0), RS1),
                                            [op(Reg(A0), AndBytes(a0, insn.value), RD)
                                               EXCEPT !.prev = cycle + RS1]>>
               []   insn.kind = "LW"   -> <<read(Reg(Null), RS1),
                                            op(Reg(A0), ValueOf(m.store, Mem(insn.addr)), RD),
                                            read(Mem(insn.addr), MEM)>>
               []   insn.kind = "SW"   -> <<read(Reg(A0), RS1), op(Mem(insn.addr), a0, MEM)>>
               []   insn.kind = "HALT" -> <<read(Reg(A0), RS1)>>
    IN  [store |-> FoldLeft(LAMBDA f, o : (o.loc :> o.after) @@ f, m.store, ops),
         trace |-> Append(m.trace, [kind |-> insn.kind, pc |-> PcOf(insn.kind),
                                    imm |-> insn.value, ops |-> ops])]

Run(insns) ==
    LET m == FoldLeft(Execute, [store |-> store, trace |-> trace], insns)
    IN  /\ store' = m.store
        /\ trace' = m.trace

\* A call of the runtime by a running guest; g is its new state.
Call(insns, g) ==
    /\ phase = "guest"
    /\ guest.calls < MaxCalls
    /\ Run(insns)
    /\ guest' = [g EXCEPT !.calls = @ + 1]
    /\ UNCHANGED <<host, phase, lk_mlts, combined, tables>>
-----------------------------------------------------------------------------
(***************************************************************************)
(* The runtime.                                                            *)
(***************************************************************************)
\* The statics of the runtime, in the data of the program.
Static(k) == LET data == {a \in DOMAIN program.image : a >= host.elf.data}
             IN  Min(data) + WORD_SIZE * k
NextAlloc == Static(0)   NextHint == Static(1)   NextPubio == Static(2)

ByteAt(a) == BytesOf(ValueOf(store, Mem(a)))[(a % WORD_SIZE) + 1]
Bytes(start, len) == [i \in 1 .. len |-> ByteAt(start + i - 1)]
WordsOver(start, from, len) ==
    LET first == (start + from) \div WORD_SIZE
        last  == (start + len - 1) \div WORD_SIZE
    IN  IF from >= len THEN <<>> ELSE [i \in 1 .. last - first + 1 |-> WORD_SIZE * (first + i - 1)]

\* read_slice and pubio_read_slice: the next length, and the buffer up to it.
\* rkyv finds the item at the end of the slice and reads it.
Slice(start, next) == Bytes(start, ValueOf(store, Mem(start + WORD_SIZE * next)))
ReadItem(static, start, next, size) ==
    LET len   == ValueOf(store, Mem(start + WORD_SIZE * next))
        words == WordsOver(start, len - size, len)
    IN  <<Load(static), Load(start + WORD_SIZE * next)>> \o Put(static, start + WORD_SIZE * (next + 1))
        \o [i \in DOMAIN words |-> Load(words[i])]

Read ==
    /\ guest.next_hint < Len(host.stdin)
    /\ Call(ReadItem(NextHint, platform.hints.start, guest.next_hint,
                     Len(host.stdin[guest.next_hint + 1])),
            [guest EXCEPT !.next_hint = @ + 1,
                          !.hints = Append(@, Slice(platform.hints.start, guest.next_hint))])

Commit ==
    /\ guest.next_pubio < Len(host.public_io)
    /\ Call(ReadItem(NextPubio, platform.public_io.start, guest.next_pubio,
                     Len(host.public_io[guest.next_pubio + 1])),
            [guest EXCEPT !.next_pubio = @ + 1,
                          !.committed = Append(@, Slice(platform.public_io.start, guest.next_pubio))])

\* GlobalAlloc::alloc, and the program's first store to the block.
Alloc ==
    \E layout \in Layouts :
        LET ptr == NextMultipleOf(guest.next_alloc, layout.align)
        IN  /\ ptr + layout.size <= platform.heap.end
            /\ Call(<<Load(NextAlloc), AndImm(layout.align - 1)>>
                       \o Put(NextAlloc, ptr + layout.size) \o Put(ptr, layout.size),
                    [guest EXCEPT !.next_alloc = ptr + layout.size])

\* A call saves a register on the stack and restores it.
Push ==
    \E depth \in Depths :
        LET a == StackEnd - WORD_SIZE * depth
        IN  /\ a >= platform.stack.start
            /\ Call(Put(a, 5) \o <<Load(a)>>, guest)

\* Faulty: alloc for the bytes alone.
FrameWordsShort(words) == Len(words)
\* The words of a frame, the length included.
FrameWords(words) == 1 + Len(words)
\* IOWriter::write_frame, in a debug build: the length, then the bytes.
WriteFrame ==
    /\ host.debug
    /\ \E msg \in Messages :
         LET words == WordsOf(msg)
             next  == guest.cursor + WORD_SIZE * FrameWords(words)
         IN  /\ next <= platform.stack.end
             /\ Call(Put(guest.cursor, Len(msg))
                       \o FlattenSeq([i \in DOMAIN words |->
                                        Put(guest.cursor + WORD_SIZE * i, words[i])]),
                     [guest EXCEPT !.cursor = next, !.messages = Append(@, msg)])
-----------------------------------------------------------------------------
(***************************************************************************)
(* emulate_program, after HALT.                                            *)
(***************************************************************************)
FinalRecord(addr) == [addr |-> addr, value |-> ValueOf(store, Mem(addr)),
                      cycle |-> LastAccess(trace, Mem(addr))]

Ops == FlattenSeq([i \in DOMAIN trace |-> trace[i].ops])
Accessed(region) ==
    {a \in {op.loc[2] : op \in {o \in ToSet(Ops) : o.loc[1] = Memory}} : InRange(a, region)}

RegFinal ==
    [i \in 1 .. RegTableLen |->
        [value |-> ValueOf(store, Reg(i - 1)), cycle |-> LastAccess(trace, Reg(i - 1))]]
StaticFinal == [i \in DOMAIN StaticInit |-> FinalRecord(StaticInit[i].addr)]
\* The records of inputs keep the initial value.
InputFinal(init) ==
    [i \in DOMAIN init |-> init[i] @@ [cycle |-> LastAccess(trace, Mem(init[i].addr))]]
\* The stack from its end down to the lowest word accessed.
StackFinal ==
    LET used == Accessed(platform.stack)
    IN  IF used = {} THEN <<>>
        ELSE [i \in 1 .. (platform.stack.end - Min(used)) \div WORD_SIZE |->
                FinalRecord(platform.stack.end - WORD_SIZE * i)]
\* Faulty: the upper bound taken for exclusive one word early.
HeapFinalShort ==
    LET used == Accessed(platform.heap)
    IN  IF used = {} THEN <<>>
        ELSE [i \in 1 .. (Max(used) - platform.heap.start) \div WORD_SIZE |->
                FinalRecord(platform.heap.start + WORD_SIZE * (i - 1))]
\* The heap from its start up to the highest word accessed.
HeapFinal ==
    LET used == Accessed(platform.heap)
    IN  IF used = {} THEN <<>>
        ELSE [i \in 1 .. (Max(used) - platform.heap.start) \div WORD_SIZE + 1 |->
                FinalRecord(platform.heap.start + WORD_SIZE * (i - 1))]

Halt ==
    /\ phase = "guest"
    /\ Run(<<[kind |-> "HALT", addr |-> 0, value |-> 0]>>)
    /\ phase' = "emulated"
    /\ UNCHANGED <<host, guest, lk_mlts, combined, tables>>
-----------------------------------------------------------------------------
(***************************************************************************)
(* generate_witness.  A lookup is the table and the values looked up; it   *)
(* is counted under the table and a key.                                   *)
(***************************************************************************)
Written(step) == LET k == CHOOSE j \in DOMAIN step.ops : step.ops[j].loc = Reg(A0) /\ j > 1
                 IN  step.ops[k]
Operands(step) ==
    [j \in 1 .. WORD_SIZE |-> <<BytesOf(Written(step).before)[j], BytesOf(step.imm)[j]>>]

LookupsOf(step) ==
    <<<<"Instruction", <<step.pc>>>>>>
    \o (IF step.kind = "ADDI"
        THEN [l \in 1 .. 2 |-> <<"U16", <<Limbs(Written(step).after)[l]>>>>] ELSE <<>>)
    \o (IF step.kind = "ANDI"
        THEN [j \in 1 .. WORD_SIZE |-> LET x == Operands(step)[j]
                                       IN  <<"And", <<x[1], x[2], And(x[1], x[2])>>>>] ELSE <<>>)

CountedAs(step) ==
    <<<<"Instruction", step.pc>>>>
    \o (IF step.kind = "ADDI"
        THEN [l \in 1 .. 2 |-> <<"U16", Limbs(Written(step).after)[l]>>] ELSE <<>>)
    \o (IF step.kind = "ANDI"
        THEN [j \in 1 .. WORD_SIZE |->
                <<"And", Pack(Operands(step)[j][1], Operands(step)[j][2])>>] ELSE <<>>)

\* Instruction::assign_instances: the batches go to the threads of the pool in
\* any way; the counts of a circuit are local to a thread, so that the order in
\* which the threads work does not show.
StepsOf(kind) == SelectSeq(trace, LAMBDA step : step.kind = kind)
BatchSize(n)  == IF n > Threshold THEN DivCeil(n, Cardinality(Workers)) ELSE n
\* Faulty: the last batch is cut where the others are.
BatchesFloor(steps) ==
    LET size == BatchSize(Len(steps))
    IN  IF steps = <<>> THEN <<>>
        ELSE [b \in 1 .. Len(steps) \div size |-> SubSeq(steps, size * (b - 1) + 1, size * b)]
Batches(steps) ==
    LET size == BatchSize(Len(steps))
    IN  IF steps = <<>> THEN <<>>
        ELSE [b \in 1 .. DivCeil(Len(steps), size) |->
                SubSeq(steps, size * (b - 1) + 1, Least(size * b, Len(steps)))]

ThreadCounts(batches, owner) ==
    [w \in Workers \cup {Caller} |->
        BagOf(FlattenSeq([b \in DOMAIN batches |->
            IF owner[b] = w THEN FlattenSeq([i \in DOMAIN batches[b] |-> CountedAs(batches[b][i])])
            ELSE <<>>]))]
\* rayon splits nothing where there is one batch: the caller works on it.  Two
\* and more go to the pool.  The threads of the pool are alike and the counts of
\* a circuit are its own: First names the thread that takes the first batch.
First == CHOOSE w \in Workers : TRUE
Owners(batches) ==
    IF Len(batches) <= 1 THEN [DOMAIN batches -> {Caller}]
    ELSE {owner \in [DOMAIN batches -> Workers] : owner[1] = First}

\* The circuits are assigned one after the other.
Assigned == {lk_mlts[i].kind : i \in DOMAIN lk_mlts}
AssignOpcodeCircuit ==
    /\ phase = "emulated"
    /\ Assigned # Kinds
    /\ LET kind    == CHOOSE k \in Kinds : k \notin Assigned
           batches == Batches(StepsOf(kind))
       IN  \E owner \in Owners(batches) :
             lk_mlts' = Append(lk_mlts, [kind |-> kind, counts |-> ThreadCounts(batches, owner)])
    /\ UNCHANGED <<host, store, trace, guest, phase, combined, tables>>

\* into_finalize_result: the counts of all threads together.
Merged(counts) == FoldSet(LAMBDA w, acc : counts[w] (+) acc, EmptyBag, DOMAIN counts)
\* deep_clone: what the calling thread counted, without the counts of the pool.
DeepClone(counts) == [t \in {Caller} |-> counts[t]]

Combine(taken) == FoldLeft(LAMBDA acc, counts : acc (+) Merged(counts), EmptyBag, taken)

FinalizeLkMultiplicities ==
    /\ phase = "emulated"
    /\ Assigned = Kinds
    /\ combined' = Combine([i \in DOMAIN lk_mlts |->
                              IF host.mock_proving THEN DeepClone(lk_mlts[i].counts)
                              ELSE lk_mlts[i].counts])
    /\ lk_mlts' = IF host.mock_proving THEN lk_mlts ELSE <<>>
    /\ phase' = "finalized"
    /\ UNCHANGED <<host, store, trace, guest, tables>>

\* The assertions of the tables, in the order they are assigned in.
TablesFit ==
    /\ FixedLenOk(Len(StaticInit))
    /\ FixedLenOk(Len(IoInit))
    /\ FitsTable(HintsTable(platform), InputFinal(HintInit))
    /\ FitsTable(StackTable(platform), StackFinal)
    /\ FitsTable(HeapTable(platform), HeapFinal)

MemoryRows ==
    LET io == InputFinal(IoInit)
    IN  <<NonVolatileRows(Register, InitialRegisters, RegFinal),
          NonVolatileRows(Memory, StaticInit, StaticFinal),
          PubIORows(IoInit, [i \in DOMAIN io |-> io[i].value], [i \in DOMAIN io |-> io[i].cycle]),
          DynVolatileRows(HintsTable(platform), InputFinal(HintInit)),
          DynVolatileRows(StackTable(platform), StackFinal),
          DynVolatileRows(HeapTable(platform), HeapFinal)>>

AssignTableCircuits ==
    /\ phase = "finalized"
    /\ IF TablesFit
       THEN /\ phase' = "assigned"
            /\ tables' = [memory |-> MemoryRows, lookup |-> LookupTables(program, combined)]
       ELSE /\ phase' = "panicked"
            /\ UNCHANGED tables
    /\ UNCHANGED <<host, store, trace, guest, lk_mlts, combined>>

Ended == phase \in {"assigned", "panicked"} /\ UNCHANGED vars

Next ==
    \/ Read \/ Commit \/ Alloc \/ Push \/ WriteFrame \/ Halt
    \/ AssignOpcodeCircuit
    \/ FinalizeLkMultiplicities \/ AssignTableCircuits
    \/ Ended

Spec == Init /\ [][Next]_vars
-----------------------------------------------------------------------------
TypeOK ==
    /\ host \in Hosts
    /\ phase \in {"guest", "emulated", "finalized", "assigned", "panicked"}
    /\ guest.calls \in 0 .. MaxCalls
    /\ \A loc \in DOMAIN store : store[loc] \in 0 .. Limb ^ 2 - 1

Delivered(slice, item, start) ==
    /\ Len(slice) >= Len(item)
    /\ SubSeq(slice, Len(slice) - Len(item) + 1, Len(slice)) = item
    /\ (start + Len(slice) - Len(item)) % RKYV_ALIGNMENT = 0

\* The items that the host wrote are what the guest reads, in order: each slice
\* that read_slice and pubio_read_slice give ends with the bytes of the next
\* item, at an address of rkyv's alignment, whatever calls of the runtime and
\* stores happened in between.
InputsArrive ==
    /\ \A k \in DOMAIN guest.hints : Delivered(guest.hints[k], host.stdin[k], platform.hints.start)
    /\ \A k \in DOMAIN guest.committed :
         Delivered(guest.committed[k], host.public_io[k], platform.public_io.start)

\* read_all_messages of the host, as far as the debug part of the stack goes.
ReadMessage(offset) ==
    LET out_addr == INFO_OUT_ADDR + WORD_SIZE * offset
    IN  Bytes(out_addr + WORD_SIZE, ValueOf(store, Mem(out_addr)))
ReadAllMessages ==
    LET step(acc, k) ==
            LET out == ReadMessage(acc.offset)
            IN  IF acc.done \/ out = <<>> THEN [acc EXCEPT !.done = TRUE]
                ELSE [offset |-> acc.offset + DivCeil(Len(out), WORD_SIZE) + 1, done |-> FALSE,
                      messages |-> Append(acc.messages, out)]
    IN  FoldLeft(step, [offset |-> 0, done |-> FALSE, messages |-> <<>>],
                 [k \in 1 .. MaxCalls + 1 |-> k]).messages

\* The host prints the messages that the guest wrote, in order and complete, up
\* to the first empty one: read_all_messages takes an empty frame for the end.
MessagesArrive ==
    host.debug =>
        LET empty == {i \in DOMAIN guest.messages : guest.messages[i] = <<>>}
            last  == IF empty = {} THEN Len(guest.messages) ELSE Min(empty) - 1
        IN  ReadAllMessages = SubSeq(guest.messages, 1, last)

\* Both ways between the host and the guest.
HostAndGuestAgree == InputsArrive /\ MessagesArrive

AllRows == FlattenSeq(tables.memory)

\* The memory argument closes: the records the tables write first and the steps
\* write later are the records the steps read and the tables read last, the
\* limbs of registers and the rows of padding included.
RamBalances ==
    phase = "assigned" =>
        LET recordOf(op, word, ts) == Record(op.loc[1], op.loc[2], Value(op.loc[1], word), ts)
            ops == Ops
        IN  BagOf([i \in DOMAIN AllRows |-> AllRows[i].init]
                    \o [i \in DOMAIN ops |-> recordOf(ops[i], ops[i].after, ops[i].ts)])
            = BagOf([i \in DOMAIN AllRows |-> AllRows[i].final]
                    \o [i \in DOMAIN ops |-> recordOf(ops[i], ops[i].before, ops[i].prev)])

Points(n) == [1 .. n -> {0, 1, 2}]
AddressColumnOk(table, rows) ==
    rows # <<>> =>
        LET column == [i \in DOMAIN rows |-> rows[i].final.addr]
            n == CHOOSE k \in 0 .. 16 : 2 ^ k = Len(rows)
        IN  \A r \in Points(n) : ColumnAt(column, r) = WellformAddress(table, r)

\* No address is in two rows of the tables, padding included, and the column of
\* addresses that the prover commits to is the one the verifier evaluates by
\* itself (eval_wellform_address_vec), up and down.
AddressesOnce ==
    phase = "assigned" =>
        /\ \A i, j \in DOMAIN AllRows :
             i # j => \/ AllRows[i].init.ram # AllRows[j].init.ram
                      \/ AllRows[i].init.addr # AllRows[j].init.addr
        /\ AddressColumnOk(HintsTable(platform), tables.memory[4])
        /\ AddressColumnOk(StackTable(platform), tables.memory[5])
        /\ AddressColumnOk(HeapTable(platform), tables.memory[6])

LookupsMade == BagOf(FlattenSeq([i \in DOMAIN trace |-> LookupsOf(trace[i])]))

\* Every lookup of the circuits is a row of its table as often as the row's
\* multiplicity says, however the threads shared the instances.
LookupsBalance ==
    phase = "assigned" /\ ~host.mock_proving =>
        /\ \A lookup \in DOMAIN LookupsMade :
             \E i \in DOMAIN tables.lookup[lookup[1]] :
                tables.lookup[lookup[1]][i].values = lookup[2]
        /\ \A rom \in DOMAIN tables.lookup : \A i \in DOMAIN tables.lookup[rom] :
             tables.lookup[rom][i].mlt = CopiesIn(<<rom, tables.lookup[rom][i].values>>, LookupsMade)

\* A guest that stays in its regions, and messages in theirs, can be proved: no
\* assertion of the tables fails, unless the region of the stack, with the part
\* for messages of a debug build, is not a power of two and deep in use.
TablesHoldTheRun ==
    phase = "panicked" =>
        ~IsPowerOfTwo((platform.stack.end - platform.stack.start) \div WORD_SIZE)

\* "mock prover needs the lk_mlt for processing, so we do not remove it": the
\* combined counts are those of all the threads, with the mock prover too.
MockKeepsCounts ==
    phase = "finalized" => combined = BagOf(FlattenSeq([i \in DOMAIN trace |-> CountedAs(trace[i])]))
=============================================================================
