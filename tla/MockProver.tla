-------------------------------- MODULE MockProver --------------------------------
(***************************************************************************)
(* The mock prover (assert_satisfied_full of ceno_zkvm/src/scheme/         *)
(* mock_prover.rs): with MOCK_PROVING set it goes over the whole witness   *)
(* before the proof, row by row and without a polynomial, and panics at    *)
(* what does not hold.  Records are compared as the tuples they are, not   *)
(* under the random combination the code takes of them.                    *)
(***************************************************************************)
EXTENDS ZkvmSetup

VARIABLE mock   \* "none", "passed" or "failed"

MAX_CONSTRAINT_DEGREE == 2

ValuesAt(record, env) == [i \in DOMAIN record |-> Eval(record[i], env)]

\* The columns of a circuit that has rows; opcode circuits are checked
\* without the public values, records with them and without the columns of
\* addresses.
MockInput(c, pi) ==
    [wit |-> WitnessColumns(c), struct |-> <<>>, fixed |-> FixedColumns(c), pi |-> pi]

\* The values of records at the first rows of a circuit.
MockRecords(records, input, rows) ==
    SeqOps!FlattenSeq([k \in DOMAIN records |->
        [i \in 1 .. rows |-> ValuesAt(records[k], EnvAt(input, i, <<>>))]])

WithRows == SelectSeq(circuits, LAMBDA c : c.rows # <<>>)
MockOpcodes == SelectSeq(WithRows, LAMBDA c : IsOpcodeCircuit(c.cs))
MockTables == SelectSeq(WithRows, LAMBDA c : ~IsOpcodeCircuit(c.cs))

\* load_tables_with_program: what may be looked up.
LookupTable ==
    UNION {LET c == circuits[k]
           IN  SeqOps!ToSet(MockRecords(c.cs.lk_items, [wit |-> <<>>, struct |-> <<>>, fixed |-> FixedColumns(c), pi |-> <<>>],
                                        Len(c.fixed))) :
           k \in {k \in DOMAIN circuits : circuits[k].cs.lk_table # <<>>}}
-----------------------------------------------------------------------------
(***************************************************************************)
(* run_maybe_challenge_with_table                                          *)
(***************************************************************************)
\* A mutant of MockConstraints: the constraints that are not linear are
\* passed over.
MockConstraintsLinear(cs) == cs.zero

MockConstraints(cs) == cs.zero \o cs.zero_sumcheck

\* On the padding as well.
ConstraintsZero(c, input) ==
    \A k \in DOMAIN MockConstraints(c.cs) :
        /\ Degree(MockConstraints(c.cs)[k]) <= MAX_CONSTRAINT_DEGREE
        /\ \A i \in 1 .. Height(c) : Eval(MockConstraints(c.cs)[k], EnvAt(input, i, <<>>)) = 0

\* A lookup is counted under its table and its first argument.
CountedKey(values) == <<values[1], values[2]>>

SameCounts(counted, others) ==
    \A key \in SeqOps!ToSet(counted) \cup SeqOps!ToSet(others) : Times1(key, counted) = Times1(key, others)

LookupsFound(looked, counts) ==
    /\ SeqOps!ToSet(looked) \subseteq LookupTable
    /\ SameCounts([k \in DOMAIN looked |-> CountedKey(looked[k])], counts.caller)

OpcodeHolds(c, input) ==
    /\ ConstraintsZero(c, input)
    /\ LookupsFound(MockRecords(c.cs.lk_items, input, Len(c.rows)), witnesses.lk_mlts[c.name])
-----------------------------------------------------------------------------
\* What a table says of each of its rows, over its whole height.
TableCounts(c, input) ==
    SeqOps!FlattenSeq([j \in DOMAIN c.cs.lk_table |->
        [i \in 1 .. Height(c) |->
            [values |-> ValuesAt(c.cs.lk_items[j], EnvAt(input, i, <<>>)),
             count  |-> Eval(c.cs.lk_table[j].multiplicity, EnvAt(input, i, <<>>))]]])

\* set_count: the last row with a count.
CountIn(rows, values) ==
    LET of == SelectSeq(rows, LAMBDA row : row.values = values /\ row.count # 0)
    IN  IF of = <<>> THEN 0 ELSE SeqOps!Last(of).count

AllLookups ==
    SeqOps!FlattenSeq([k \in DOMAIN MockOpcodes |->
        MockRecords(MockOpcodes[k].cs.lk_items, MockInput(MockOpcodes[k], <<>>), Len(MockOpcodes[k].rows))])

AllCounts ==
    SeqOps!FlattenSeq([k \in DOMAIN MockTables |-> TableCounts(MockTables[k], MockInput(MockTables[k], inst.raw_pi))])

\* compare_lkm
CountsAgree(looked, rows) ==
    \A values \in SeqOps!ToSet(looked) \cup {rows[k].values : k \in DOMAIN rows} :
        Times1(values, looked) = CountIn(rows, values)
-----------------------------------------------------------------------------
\* derive_ram_rws is given no column of addresses, and ends at the first
\* record that has one.
HasAddressColumn(c) == c.cs.num_structural > 0 /\ c.cs.ram_r # <<>>
AddressesAreFixed == \A k \in DOMAIN WithRows : ~HasAddressColumn(WithRows[k])

RamRecords(Of(_)) ==
    SeqOps!FlattenSeq([k \in DOMAIN WithRows |->
        MockRecords(Of(WithRows[k].cs), MockInput(WithRows[k], inst.raw_pi), Len(WithRows[k].rows))])

StateRecord(record) ==
    ValuesAt(record, EnvAt([wit |-> <<>>, struct |-> <<>>, fixed |-> <<>>, pi |-> inst.raw_pi], 1, <<>>))

\* Records are kept in sets, which the assertions make as good as bags.  The
\* circuits' own are looked for on the other side (find_rw_mismatch); the
\* states at either end are there to be found, not looked for.
RamMatches(reads, writes) ==
    /\ Cardinality(SeqOps!ToSet(reads)) = Len(reads)
    /\ Cardinality(SeqOps!ToSet(writes)) = Len(writes)
    /\ SeqOps!ToSet(reads) \subseteq SeqOps!ToSet(writes) \cup {StateRecord(inst.initial)}
    /\ SeqOps!ToSet(writes) \subseteq SeqOps!ToSet(reads) \cup {StateRecord(inst.final)}

MockSatisfied ==
    /\ \A k \in DOMAIN MockOpcodes : OpcodeHolds(MockOpcodes[k], MockInput(MockOpcodes[k], <<>>))
    /\ CountsAgree(AllLookups, AllCounts)
    /\ AddressesAreFixed
    /\ RamMatches(RamRecords(LAMBDA cs : cs.ram_r), RamRecords(LAMBDA cs : cs.ram_w))

SkipMock ==
    /\ pc = "mock" /\ ~inst.mock
    /\ pc' = "commit"
    /\ UNCHANGED <<inst, at, setupVars, mock, result>>

MockProve ==
    /\ pc = "mock" /\ inst.mock
    /\ IF MockSatisfied
       THEN mock' = "passed" /\ pc' = "commit" /\ UNCHANGED result
       ELSE mock' = "failed" /\ Stop("panicked")
    /\ UNCHANGED <<inst, at, setupVars>>
===================================================================================
