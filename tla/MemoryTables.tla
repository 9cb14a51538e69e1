----------------------------- MODULE MemoryTables -----------------------------
(***************************************************************************)
(* The table circuits of ceno_zkvm/src/tables: registers, static memory,   *)
(* public input, hints, stack and heap, each the initial and the final     *)
(* record of its addresses, and the lookup tables with the number of times *)
(* each row was looked up.  A table is the sequence of its rows, the       *)
(* padding included (witness/src/lib.rs).                                  *)
(***************************************************************************)
EXTENDS GuestProgram

CONSTANTS
    Limb,       \* the number of values of a limb of a register, Byte ^ 2
    REG_COUNT   \* registers, RD_NULL included

Memory   == "Memory"
Register == "Register"
-----------------------------------------------------------------------------
(***************************************************************************)
(* RowMajorMatrix: at least two rows, and a power of two of them.          *)
(***************************************************************************)
Height(rows) == IF rows <= 1 THEN 2 ELSE NextPowerOfTwo(rows)

\* InstancePaddingStrategy::Custom for a matrix of one column.
PadRows(rows, padding) ==
    [i \in 1 .. Height(Len(rows)) |-> IF i <= Len(rows) THEN rows[i] ELSE padding[i - 1]]

Limbs(word) == <<word % Limb, word \div Limb>>
\* RegTable has V_LIMBS limbs, the memory tables one.
Value(ram, word) == IF ram = Register THEN Limbs(word) ELSE <<word>>
Record(ram, addr, value, ts) == [ram |-> ram, addr |-> addr, value |-> value, ts |-> ts]
-----------------------------------------------------------------------------
(***************************************************************************)
(* Tables of fixed addresses.  init and final have as many entries as the  *)
(* table has rows, and no row is padding; otherwise assigning panics.      *)
(***************************************************************************)
RegTableLen == NextPowerOfTwo(REG_COUNT)
InitialRegisters == [i \in 1 .. RegTableLen |-> [addr |-> i - 1, value |-> 0]]

FixedLenOk(len) == IsPowerOfTwo(len) /\ Height(len) = len

\* NonVolatileTableConfig, writable: registers and static memory.
NonVolatileRows(ram, init, final) ==
    [i \in DOMAIN init |->
        [init  |-> Record(ram, init[i].addr, Value(ram, init[i].value), 0),
         final |-> Record(ram, init[i].addr, Value(ram, final[i].value), final[i].cycle)]]

\* PubIOTableConfig: the value of both records is the public input.
PubIORows(init, public_io, cycles) ==
    [i \in DOMAIN init |->
        [init  |-> Record(Memory, init[i].addr, Value(Memory, public_io[i]), 0),
         final |-> Record(Memory, init[i].addr, Value(Memory, public_io[i]), cycles[i])]]
-----------------------------------------------------------------------------
(***************************************************************************)
(* Tables of a range of addresses of which a run uses a part               *)
(* (DynVolatileRamTable): the hints, the heap, and the stack from its end  *)
(* down.                                                                   *)
(***************************************************************************)
HintsTable(platform) ==
    [offset |-> platform.hints.start, end |-> platform.hints.end,
     zero_init |-> FALSE, descending |-> FALSE]
HeapTable(platform) ==
    [offset |-> platform.heap.start, end |-> platform.heap.end,
     zero_init |-> TRUE, descending |-> FALSE]
StackTable(platform) ==
    [offset |-> platform.stack.end - WORD_SIZE, end |-> platform.stack.start,
     zero_init |-> TRUE, descending |-> TRUE]

MaxLen(table) ==
    PrevPowerOfTwo(IF table.descending
                   THEN DivCeil(table.offset - table.end, WORD_SIZE) + 1
                   ELSE DivCeil(table.end - table.offset, WORD_SIZE))
RowAddr(table, i) ==
    IF table.descending THEN table.offset - WORD_SIZE * i ELSE table.offset + WORD_SIZE * i
\* Faulty: the padding goes up whatever the direction of the table.
RowAddrAscending(table, i) == table.offset + WORD_SIZE * i

\* The assertions of assign_instances.
FitsTable(table, final) ==
    /\ Len(final) <= MaxLen(table)
    /\ \A i \in DOMAIN final : final[i].addr = RowAddr(table, i - 1)

PaddingAddr(table, i) == RowAddr(table, i)

DynVolatileRows(table, final) ==
    LET addr  == PadRows([i \in DOMAIN final |-> final[i].addr], [i \in Nat |-> PaddingAddr(table, i)])
        value == PadRows([i \in DOMAIN final |-> final[i].value], [i \in Nat |-> 0])
        cycle == PadRows([i \in DOMAIN final |-> final[i].cycle], [i \in Nat |-> 0])
    IN  \* a circuit without instances is left out of the proof
        IF final = <<>> THEN <<>>
        ELSE [i \in DOMAIN addr |->
                [init  |-> Record(Memory, addr[i],
                                  Value(Memory, IF table.zero_init THEN 0 ELSE value[i]), 0),
                 final |-> Record(Memory, addr[i], Value(Memory, value[i]), cycle[i])]]

\* What the verifier evaluates in place of the column of addresses, at a point
\* of as many coordinates as the table has variables.
WellformAddress(table, r) ==
    LET index == FoldLeftDomain(LAMBDA acc, k : acc + r[k] * 2 ^ (k - 1), 0, r)
    IN  IF table.descending THEN table.offset - WORD_SIZE * index
        ELSE table.offset + WORD_SIZE * index

\* The multilinear extension of a column at the point r, coordinate k standing
\* for bit k - 1 of the row.
Bit(i, k) == (i \div 2 ^ (k - 1)) % 2
ColumnAt(column, r) ==
    LET weight(i) == FoldLeftDomain(LAMBDA acc, k :
                        acc * (IF Bit(i, k) = 1 THEN r[k] ELSE 1 - r[k]), 1, r)
    IN  FoldLeftDomain(LAMBDA acc, i : acc + weight(i - 1) * column[i], 0, column)
-----------------------------------------------------------------------------
(***************************************************************************)
(* Lookup tables.  A row is the values of the record and the multiplicity; *)
(* multiplicity maps the keys of the counted lookups to their counts.      *)
(***************************************************************************)
And(a, b) == FoldLeft(LAMBDA acc, k : acc + 2 ^ k * (((a \div 2 ^ k) % 2) * ((b \div 2 ^ k) % 2)),
                      0, [k \in 1 .. 4 |-> k - 1])

\* OpsTable of AndTable.
Pack(a, b) == a + Byte * b
Unpack(i)  == <<i % Byte, i \div Byte>>
AndContent == [i \in 1 .. Byte ^ 2 |->
                 LET ab == Unpack(i - 1) IN <<ab[1], ab[2], And(ab[1], ab[2])>>]
\* RangeTable of U16Table, at the scale of a limb.
RangeContent == [i \in 1 .. Limb |-> <<i - 1>>]
\* ProgramTableCircuit: a row of zeros behind each program.
ProgramContent(program) ==
    PadRows([i \in 1 .. program.instructions |-> <<program.base_address + WORD_SIZE * (i - 1)>>],
            [i \in Nat |-> <<0>>])

Count(multiplicity, key) == IF key \in DOMAIN multiplicity THEN multiplicity[key] ELSE 0

\* mlts[idx] for the tables of lookup values, by instruction for the program.
TableRows(content, multiplicity, keys) ==
    [i \in DOMAIN content |-> [values |-> content[i], mlt |-> Count(multiplicity, keys[i])]]

LookupTables(program, multiplicity) ==
    [U16 |-> TableRows(RangeContent, multiplicity, [i \in Nat |-> <<"U16", i - 1>>]),
     And |-> TableRows(AndContent, multiplicity, [i \in Nat |-> <<"And", i - 1>>]),
     Instruction |->
        TableRows(ProgramContent(program), multiplicity,
                  [i \in Nat |-> <<"Instruction", IF i <= program.instructions
                                                     THEN program.base_address + WORD_SIZE * (i - 1)
                                                     ELSE -1>>])]
=============================================================================
