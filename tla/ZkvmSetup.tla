-------------------------------- MODULE ZkvmSetup --------------------------------
(***************************************************************************)
(* What comes before a proof (ceno_zkvm/src: structs.rs, keygen.rs, and    *)
(* the stages of e2e.rs): the circuits are registered by name, their fixed *)
(* traces generated and the keys made of both; the opcode circuits get     *)
(* their rows and leave the lookups they counted, which are combined into  *)
(* the multiplicities of the tables; at last the keys are joined with the  *)
(* witness, in the order of the names.                                     *)
(*                                                                         *)
(* An instance is [parts, raw_pi, stream, initial, final, halt,            *)
(* expect_halt, mock]: the circuits in the order they are registered, the  *)
(* public values, the challenges in the order they are drawn, the records  *)
(* of the global state at either end, the name of the halt circuit,        *)
(* whether the run has ended, and whether the mock prover is asked for.    *)
(* A part is [name, kind, cs, fixed, rows, counts, keys], kind being       *)
(* "opcode", "lookup" or "memory".  The counts of an opcode circuit are    *)
(* the keys it looked up, [caller, pool] by the thread that counted them;  *)
(* a lookup table has one row for each of its keys, so its rows are not    *)
(* given.  Names are numbers, in the order of the alphabet.                *)
(***************************************************************************)
EXTENDS ChipProof

CONSTANT Instances

VARIABLES
    inst,         \* the instance
    pc,
    at,           \* the circuit the stage is at
    css,          \* ZKVMConstraintSystem::circuit_css
    fixed_traces, \* ZKVMFixedTraces::circuit_fixed_traces, <<>> for None
    pk,           \* ZKVMProvingKey, [circuit_pks, fixed]
    witnesses,    \* ZKVMWitnesses, [opcodes, tables, lk_mlts, combined]
    circuits,     \* keys and witness by name, each [name, cs, rows, fixed]
    result

setupVars == <<css, fixed_traces, pk, witnesses, circuits>>
-----------------------------------------------------------------------------
\* Maps by name.
EmptyMap == [name \in {} |-> <<>>]
Inserted(map, name, value) == [n \in DOMAIN map \cup {name} |-> IF n = name THEN value ELSE map[n]]
InOrder(names) ==
    [k \in 1 .. Cardinality(names) |-> CHOOSE x \in names : Cardinality({y \in names : y < x}) = k - 1]

Stop(outcome) == pc' = "stopped" /\ result' = outcome

OfKind(kinds) == SelectSeq(inst.parts, LAMBDA part : part.kind \in kinds)
AllParts == OfKind({"opcode", "lookup", "memory"})
Opcodes == OfKind({"opcode"})
Tables == OfKind({"lookup", "memory"})

\* The next circuit of a stage, or the next stage.
Advance(parts, stage) ==
    IF at < Len(parts) THEN at' = at + 1 /\ pc' = pc ELSE at' = 1 /\ pc' = stage

\* A step of a stage: what an assertion refuses ends the program.
StageStep(allowed, parts, stage) ==
    IF allowed THEN Advance(parts, stage) /\ UNCHANGED result
    ELSE Stop("panicked") /\ UNCHANGED at
-----------------------------------------------------------------------------
(***************************************************************************)
(* Columns.  An opcode circuit repeats its last instance, a table is       *)
(* filled with zeros, an address column goes on counting.                  *)
(***************************************************************************)
Height(c) == 2 ^ PaddedVars(Len(c.rows))

\* A mutant of WitnessColumns: opcode circuits are filled with zeros too.
WitnessColumnsZero(c) ==
    [j \in 1 .. c.cs.num_witin |->
        [i \in 1 .. Height(c) |-> IF i <= Len(c.rows) THEN c.rows[i][j] ELSE 0]]

WitnessColumns(c) ==
    LET Padding(j) == IF IsOpcodeCircuit(c.cs) THEN c.rows[Len(c.rows)][j] ELSE 0
    IN  [j \in 1 .. c.cs.num_witin |->
            [i \in 1 .. Height(c) |-> IF i <= Len(c.rows) THEN c.rows[i][j] ELSE Padding(j)]]

StructuralColumns(c) ==
    LET specs == SeqOps!FlattenSeq([k \in DOMAIN c.cs.r_table |-> c.cs.r_table[k].spec.structural])
        Address(spec, i) ==
            (spec.offset + (IF spec.descending THEN -i ELSE i) * spec.multi_factor) % Prime
    IN  [j \in DOMAIN specs |-> [i \in 1 .. Height(c) |-> Address(specs[j], i - 1)]]

FixedColumns(c) ==
    [j \in 1 .. c.cs.num_fixed |->
        [i \in 1 .. 2 ^ PaddedVars(Len(c.fixed)) |-> IF i <= Len(c.fixed) THEN c.fixed[i][j] ELSE 0]]
-----------------------------------------------------------------------------
SetupInit ==
    /\ inst \in SeqOps!ToSet(Instances)
    /\ pc = "register" /\ at = 1 /\ result = "none"
    /\ css = EmptyMap /\ fixed_traces = EmptyMap
    /\ pk = [circuit_pks |-> EmptyMap, fixed |-> EmptyMap]
    /\ witnesses = [opcodes |-> EmptyMap, tables |-> EmptyMap, lk_mlts |-> EmptyMap, combined |-> <<>>]
    /\ circuits = <<>>

\* construct_configs: no name is registered twice.
RegisterCircuit ==
    /\ pc = "register"
    /\ css' = Inserted(css, AllParts[at].name, AllParts[at].cs)
    /\ StageStep(AllParts[at].name \notin DOMAIN css, AllParts, "fixed")
    /\ UNCHANGED <<inst, fixed_traces, pk, witnesses, circuits>>

\* generate_fixed_traces: an opcode circuit has none.
GenerateFixed ==
    /\ pc = "fixed"
    /\ LET part == AllParts[at]
       IN  /\ fixed_traces' = Inserted(fixed_traces, part.name, IF part.kind = "opcode" THEN <<>> ELSE <<part.fixed>>)
           /\ StageStep(part.name \in DOMAIN css /\ part.name \notin DOMAIN fixed_traces, AllParts, "keygen")
    /\ UNCHANGED <<inst, css, pk, witnesses, circuits>>

\* key_gen: only circuits with a fixed column need a fixed trace.
KeyGen ==
    /\ pc = "keygen"
    /\ LET needed == {name \in DOMAIN css : css[name].num_fixed > 0}
           found  == {name \in needed \cap DOMAIN fixed_traces : fixed_traces[name] # <<>>}
       IN  /\ pk' = [circuit_pks |-> css, fixed |-> [name \in found |-> fixed_traces[name][1]]]
           /\ StageStep(found = needed, <<>>, "opcodes")
    /\ UNCHANGED <<inst, css, fixed_traces, witnesses, circuits>>

FreshWitness(name) == name \notin DOMAIN witnesses.opcodes /\ name \notin DOMAIN witnesses.tables

AssignOpcode ==
    /\ pc = "opcodes"
    /\ LET part == Opcodes[at]
       IN  /\ witnesses' = [witnesses EXCEPT !.opcodes = Inserted(@, part.name, part.rows),
                                             !.lk_mlts = Inserted(@, part.name, part.counts)]
           /\ StageStep(witnesses.combined = <<>> /\ FreshWitness(part.name), Opcodes, "finalize")
    /\ UNCHANGED <<inst, css, fixed_traces, pk, circuits>>

\* The counts taken from one circuit: all the threads', or with the mock
\* prover a deep clone, which has those of the calling thread.
TakenCounts(counts) == IF inst.mock THEN counts.caller ELSE counts.caller \o counts.pool

\* finalize_lk_multiplicities
FinalizeLookups ==
    /\ pc = "finalize"
    /\ LET names == InOrder(DOMAIN witnesses.lk_mlts)
       IN  /\ witnesses' =
                [witnesses EXCEPT
                    !.combined = <<SeqOps!FlattenSeq([k \in DOMAIN names |-> TakenCounts(witnesses.lk_mlts[names[k]])])>>,
                    !.lk_mlts = IF inst.mock THEN @ ELSE EmptyMap]
           /\ StageStep(witnesses.combined = <<>> /\ names # <<>>, <<>>, "tables")
    /\ UNCHANGED <<inst, css, fixed_traces, pk, circuits>>

Times1(key, counted) == Cardinality({k \in DOMAIN counted : counted[k] = key})

\* assign_table_circuit: a lookup table has a row for each key, with the
\* number of times it was looked up.
TableRows(part) ==
    IF part.kind = "lookup"
    THEN [i \in DOMAIN part.keys |-> <<Times1(part.keys[i], witnesses.combined[1])>>]
    ELSE part.rows

AssignTable ==
    /\ pc = "tables"
    /\ LET part == Tables[at]
       IN  /\ witnesses' = [witnesses EXCEPT !.tables = Inserted(@, part.name, TableRows(part))]
           /\ StageStep(witnesses.combined # <<>> /\ FreshWitness(part.name), Tables, "join")
    /\ UNCHANGED <<inst, css, fixed_traces, pk, circuits>>

RowsOfName(name) ==
    IF name \in DOMAIN witnesses.opcodes THEN witnesses.opcodes[name] ELSE witnesses.tables[name]
Joined(name) ==
    [name |-> name, cs |-> pk.circuit_pks[name], rows |-> RowsOfName(name),
     fixed |-> IF name \in DOMAIN pk.fixed THEN pk.fixed[name] ELSE <<>>]

\* Keys and witness meet: both maps are gone through in the order of the names.
JoinCircuits ==
    /\ pc = "join"
    /\ LET names == InOrder(DOMAIN pk.circuit_pks)
       IN  circuits' = [k \in DOMAIN names |-> Joined(names[k])]
    /\ pc' = "mock"
    /\ UNCHANGED <<inst, at, css, fixed_traces, pk, witnesses, result>>

SetupNext ==
    \/ RegisterCircuit \/ GenerateFixed \/ KeyGen
    \/ AssignOpcode \/ FinalizeLookups \/ AssignTable \/ JoinCircuits
================================================================================
