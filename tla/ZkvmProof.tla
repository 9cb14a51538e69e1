-------------------------------- MODULE ZkvmProof --------------------------------
(***************************************************************************)
(* A proof of a whole run and its verification (ceno_zkvm/src/scheme:      *)
(* create_proof of prover.rs, verify_proof of verifier.rs), over the proof *)
(* of one circuit of ChipProof.  The prover goes through the circuits in   *)
(* the order of their names, passes over those without an instance, and    *)
(* takes the columns of each from the front of those committed.  The       *)
(* verifier repeats the transcript from the proof, multiplies what the     *)
(* circuits read and write and sums what they look up.                     *)
(*                                                                         *)
(* The commitment is ideal: an opening is accepted when every evaluation   *)
(* is that of the committed column (Basefold has the opening itself).      *)
(*                                                                         *)
(* The circuits come from ZkvmSetup with their rows unpadded; the mock     *)
(* prover may have stopped the program before.                             *)
(***************************************************************************)
EXTENDS MockProver

VARIABLES
    tape,
    challenges,
    witness_mles, \* columns committed and not yet taken
    fixed_mles,
    chip,         \* what is being proved: [input, built, tower]
    proofs,       \* [index, num, proof] by circuit, those of num_instances
    opening,      \* [points, evaluations] handed to the commitment
    pi_evals,
    verifier      \* [tape, at, prod_r, prod_w, logup, dummy, points, evaluations]

\* What is settled before the proof begins.
givenVars == <<inst, setupVars, mock>>
proverVars == <<tape, challenges, witness_mles, fixed_mles, chip, proofs, opening, pi_evals>>
vars == <<givenVars, pc, at, result, proverVars, verifier>>
-----------------------------------------------------------------------------
\* The circuits with an instance, as (index, number) pairs.
NumInstances(cs) ==
    SelectSeq([k \in DOMAIN cs |-> <<k - 1, Len(cs[k].rows)>>], LAMBDA entry : entry[2] > 0)

PiEvals(raw) == [i \in DOMAIN raw |-> IF Len(raw[i]) = 1 THEN raw[i][1] ELSE 0]

AbsorbAll(t, messages) == [t EXCEPT !.log = @ \o [k \in DOMAIN messages |-> [absorbed |-> messages[k]]]]

FixedCommitment == <<-1>>
WitinCommitment == <<-2>>

\* What both sides absorb before the first challenges.
Preamble(raw, entries) ==
    LET values == SeqOps!FlattenSeq(raw)
        counts == SeqOps!FlattenSeq(entries)
    IN  [k \in DOMAIN values |-> <<values[k]>>]
        \o (IF DOMAIN pk.fixed # {} THEN <<FixedCommitment>> ELSE <<>>)
        \o [k \in DOMAIN counts |-> <<counts[k]>>]
        \o <<WitinCommitment>>
-----------------------------------------------------------------------------
Init ==
    /\ SetupInit
    /\ mock = "none"
    /\ tape = [log |-> <<>>, stream |-> inst.stream]
    /\ challenges = <<>>
    /\ witness_mles = <<>> /\ fixed_mles = <<>>
    /\ chip = <<>>
    /\ proofs = <<>>
    /\ opening = [points |-> <<>>, evaluations |-> <<>>]
    /\ pi_evals = PiEvals(inst.raw_pi)
    /\ verifier = [tape |-> [log |-> <<>>, stream |-> inst.stream], at |-> 1, prod_r |-> 1, prod_w |-> 1,
                   logup |-> 0, dummy |-> 0, points |-> <<>>, evaluations |-> <<>>]

\* The stages before the proof.
Prepare ==
    /\ \/ SetupNext /\ UNCHANGED mock
       \/ SkipMock
       \/ MockProve
    /\ UNCHANGED <<proverVars, verifier>>

\* commit_traces unwraps the size of the largest trace, transport_proving_key
\* the commitment to the fixed columns.
UsedCircuits == SelectSeq(circuits, LAMBDA c : c.rows # <<>>)
Committable == UsedCircuits # <<>> /\ DOMAIN pk.fixed # {}

CommitFails ==
    /\ pc = "commit" /\ ~Committable
    /\ Stop("panicked")
    /\ UNCHANGED <<givenVars, at, proverVars, verifier>>

\* The columns of the circuits with an instance, of every circuit when fixed.
Commit ==
    LET used     == UsedCircuits
        absorbed == AbsorbAll(tape, Preamble(inst.raw_pi, NumInstances(circuits)))
    IN  /\ pc = "commit" /\ Committable
        /\ witness_mles' = SeqOps!FlattenSeq([k \in DOMAIN used |-> WitnessColumns(used[k])])
        /\ fixed_mles' = SeqOps!FlattenSeq([k \in DOMAIN circuits |-> FixedColumns(circuits[k])])
        /\ challenges' = SubSeq(tape.stream, 1, 2)
        /\ tape' = Drawn(Drawn(absorbed))
        /\ at' = 1 /\ pc' = "circuits"
        /\ UNCHANGED <<givenVars, chip, proofs, opening, pi_evals, verifier, result>>

\* A circuit without an instance is left before anything is taken for it.
SkipCircuit ==
    /\ pc = "circuits" /\ at <= Len(circuits)
    /\ circuits[at].rows = <<>>
    /\ at' = at + 1
    /\ UNCHANGED <<givenVars, pc, proverVars, verifier, result>>

\* A mutant of Left: the last column taken stays.
LeftOver(mles, n) == SubSeq(mles, IF n = 0 THEN 1 ELSE n, Len(mles))

\* What drain(..n) leaves.
Left(mles, n) == SubSeq(mles, n + 1, Len(mles))

BeginCircuit ==
    /\ pc = "circuits" /\ at <= Len(circuits)
    /\ circuits[at].rows # <<>>
    /\ LET c     == circuits[at]
           input == [cs |-> c.cs, wit |-> SubSeq(witness_mles, 1, c.cs.num_witin),
                     struct |-> StructuralColumns(c), fixed |-> SubSeq(fixed_mles, 1, c.cs.num_fixed),
                     pi |-> inst.raw_pi,
                     num |-> IF IsOpcodeCircuit(c.cs) THEN Len(c.rows) ELSE Height(c)]
           built == BuildTower(input, challenges)
           tower == StartTower(built, Absorbed(tape, <<at - 1>>))
       IN  /\ witness_mles' = Left(witness_mles, c.cs.num_witin)
           /\ fixed_mles' = Left(fixed_mles, c.cs.num_fixed)
           /\ chip' = [input |-> input, built |-> built, tower |-> tower]
           /\ tape' = tower.tape
    /\ pc' = "tower"
    /\ UNCHANGED <<givenVars, at, challenges, proofs, opening, pi_evals, verifier, result>>

\* Towers are as high as the columns have variables.
TowerDone == chip.tower.layer = PaddedVars(chip.input.num)

ProveLayer ==
    /\ pc = "tower" /\ ~TowerDone
    /\ LET tower == TowerLayer(chip.built, chip.tower)
       IN  /\ chip' = [chip EXCEPT !.tower = tower]
           /\ tape' = tower.tape
    /\ UNCHANGED <<givenVars, pc, at, challenges, witness_mles, fixed_mles, proofs, opening, pi_evals, verifier,
                   result>>

\* The prover reads the queried instances by position, so they must be the
\* first ones, and words.
ProveMain ==
    /\ pc = "tower" /\ TowerDone
    /\ LET input  == chip.input
           opcode == IsOpcodeCircuit(input.cs)
           main   == MainConstraints(input, chip.tower.rt, challenges, tape)
           proof  == [r_out |-> chip.built.r_out, w_out |-> chip.built.w_out, lk_out |-> chip.built.lk_out,
                      main |-> main.main, tower |-> chip.tower.proof, wits |-> main.wits, fixed |-> main.fixed]
           fixed  == IF ~opcode /\ input.cs.num_fixed > 0 THEN <<main.fixed>> ELSE <<>>
       IN  IF opcode /\ ~(InstancesAreWords(input) /\ InstancesArePrefix(input.cs))
           THEN /\ pc' = "stopped" /\ result' = "panicked"
                /\ UNCHANGED <<at, tape, proofs, opening, pi_evals>>
           ELSE /\ proofs' = Append(proofs, [index |-> at - 1, num |-> Len(circuits[at].rows), proof |-> proof])
                /\ opening' = [points |-> Append(opening.points, main.point),
                               evaluations |-> opening.evaluations \o <<main.wits>> \o fixed]
                /\ pi_evals' = IF opcode THEN pi_evals
                               ELSE [i \in DOMAIN pi_evals |->
                                        IF i - 1 \in input.cs.instances
                                        THEN InstanceEval(inst.raw_pi[i], main.point) ELSE pi_evals[i]]
                /\ tape' = main.tape
                /\ at' = at + 1 /\ pc' = "circuits"
                /\ UNCHANGED result
    /\ chip' = <<>>
    /\ UNCHANGED <<givenVars, challenges, witness_mles, fixed_mles, verifier>>

\* The opening, and the proof handed over.
Open ==
    /\ pc = "circuits" /\ at > Len(circuits)
    /\ pc' = "verify"
    /\ UNCHANGED <<givenVars, at, proverVars, verifier, result>>
-----------------------------------------------------------------------------
\* has_halt refuses more than one halt; what it tells comes before the proof
\* is looked at, which must have a circuit.
HaltIndex == CHOOSE k \in DOMAIN circuits : circuits[k].name = inst.halt
Halts == {k \in DOMAIN proofs : proofs[k].index = HaltIndex - 1}
HasHalt == \E k \in Halts : proofs[k].num = 1

VerifyStart ==
    /\ pc = "verify"
    /\ LET entries  == [k \in DOMAIN proofs |-> <<proofs[k].index, proofs[k].num>>]
           absorbed == AbsorbAll(verifier.tape, Preamble(inst.raw_pi, entries))
           mismatch == \E i \in DOMAIN pi_evals : Len(inst.raw_pi[i]) = 1 /\ inst.raw_pi[i][1] # pi_evals[i]
       IN  IF (\E k \in Halts : proofs[k].num > 1) \/ (HasHalt = inst.expect_halt /\ proofs = <<>>)
           THEN Stop("panicked") /\ UNCHANGED verifier
           ELSE IF HasHalt # inst.expect_halt \/ mismatch
           THEN Stop("rejected") /\ UNCHANGED verifier
           ELSE /\ verifier' = [verifier EXCEPT !.tape = Drawn(Drawn(absorbed))]
                /\ pc' = "check" /\ UNCHANGED result
    /\ UNCHANGED <<givenVars, at, proverVars>>

\* p1 / q1 + p2 / q2 of every lookup.
Fractions(outs) ==
    Total([k \in DOMAIN outs |-> outs[k][1] * InverseOf[outs[k][3]] + outs[k][2] * InverseOf[outs[k][4]]])

AllOuts(outs) == Product(SeqOps!FlattenSeq(outs))

PaddingItems(cs, num) == Len(cs.lk) * (2 ^ PaddedVars(num) - num)

\* A mutant of Begun: circuits are numbered as they come.
BegunInTurn(entry) == Absorbed(verifier.tape, <<verifier.at - 1>>)

Begun(entry) == Absorbed(verifier.tape, <<entry.index>>)

\* What the verifier has after a circuit it accepts.
Accumulated(entry, cs, found) ==
    LET proof  == entry.proof
        opcode == IsOpcodeCircuit(cs)
    IN  [tape        |-> found.tape,
         at          |-> verifier.at + 1,
         prod_r      |-> (verifier.prod_r * AllOuts(proof.r_out)) % Prime,
         prod_w      |-> (verifier.prod_w * AllOuts(proof.w_out)) % Prime,
         logup       |-> (verifier.logup + (IF opcode THEN 1 ELSE -1) * Fractions(proof.lk_out)) % Prime,
         dummy       |-> verifier.dummy + (IF opcode THEN PaddingItems(cs, entry.num) ELSE 0),
         points      |-> Append(verifier.points, found.point),
         evaluations |-> verifier.evaluations \o <<proof.wits>>
                         \o (IF ~opcode /\ cs.num_fixed > 0 THEN <<proof.fixed>> ELSE <<>>)]

Judged(entry, cs, found) ==
    IF \/ found.status = "panicked"
       \/ \E k \in DOMAIN entry.proof.lk_out : 0 \in {entry.proof.lk_out[k][3], entry.proof.lk_out[k][4]}
    THEN Stop("panicked") /\ UNCHANGED verifier
    ELSE IF found.status # "ok"
    THEN Stop("rejected") /\ UNCHANGED verifier
    ELSE verifier' = Accumulated(entry, cs, found) /\ UNCHANGED <<pc, result>>

VerifyCircuit ==
    /\ pc = "check" /\ verifier.at <= Len(proofs)
    /\ LET entry == proofs[verifier.at]
           cs    == circuits[entry.index + 1].cs
       IN  Judged(entry, cs,
               IF IsOpcodeCircuit(cs)
               THEN VerifyOpcode(cs, entry.proof, entry.num, pi_evals, challenges, Begun(entry))
               ELSE VerifyTable(cs, entry.proof, entry.num, inst.raw_pi, pi_evals, challenges, Begun(entry)))
    /\ UNCHANGED <<givenVars, at, proverVars>>

\* The columns an opening is about, in the order of the evaluations, each
\* with the number of its point.
Committed(entries) ==
    SeqOps!FlattenSeq([k \in DOMAIN entries |->
        LET c == circuits[entries[k].index + 1]
        IN  <<[point |-> k, columns |-> WitnessColumns(c)]>>
            \o (IF ~IsOpcodeCircuit(c.cs) /\ c.cs.num_fixed > 0
                THEN <<[point |-> k, columns |-> FixedColumns(c)]>> ELSE <<>>)])

\* batch_verify
OpeningHolds(points, evaluations, entries) ==
    LET committed == Committed(entries)
    IN  /\ Len(evaluations) = Len(committed)
        /\ \A k \in DOMAIN committed :
              evaluations[k] = [j \in DOMAIN committed[k].columns |->
                                   Evaluate(committed[k].columns[j], points[committed[k].point])]

VerifyFinish ==
    /\ pc = "check" /\ verifier.at > Len(proofs)
    /\ LET env == [wit |-> <<>>, struct |-> <<>>, fixed |-> <<>>, inst |-> pi_evals, chal |-> challenges]
           ok  == /\ (verifier.logup - verifier.dummy * InverseOf[challenges[1]]) % Prime = 0
                  /\ OpeningHolds(verifier.points, verifier.evaluations, proofs)
                  /\ (verifier.prod_w * Eval(Rlc(inst.initial), env)) % Prime
                     = (verifier.prod_r * Eval(Rlc(inst.final), env)) % Prime
       IN  Stop(IF ok THEN "accepted" ELSE "rejected")
    /\ UNCHANGED <<givenVars, at, proverVars, verifier>>

Next ==
    \/ Prepare \/ Commit \/ CommitFails \/ SkipCircuit \/ BeginCircuit \/ ProveLayer \/ ProveMain \/ Open
    \/ VerifyStart \/ VerifyCircuit \/ VerifyFinish

Spec == Init /\ [][Next]_vars
-----------------------------------------------------------------------------
(***************************************************************************)
(* What a witness has to satisfy, without a challenge or a polynomial.     *)
(***************************************************************************)
\* The rows of a circuit that mean something: a table has no padding.
RealRows(c) == 1 .. (IF IsOpcodeCircuit(c.cs) THEN Len(c.rows) ELSE IF c.rows = <<>> THEN 0 ELSE Height(c))

InputOf(c) == [wit |-> WitnessColumns(c), struct |-> StructuralColumns(c), fixed |-> FixedColumns(c),
               pi |-> inst.raw_pi]

\* The records of all circuits at all real rows, each with a weight.
Records(Of(_), Weight(_, _, _)) ==
    SeqOps!FlattenSeq([k \in DOMAIN circuits |->
        LET c == circuits[k]
            rows == [i \in RealRows(c) |-> i]
            input == InputOf(c)
        IN  SeqOps!FlattenSeq([i \in DOMAIN rows |->
                LET env == EnvAt(input, i, <<>>)
                IN  [j \in DOMAIN Of(c.cs) |->
                        [values |-> ValuesAt(Of(c.cs)[j], env), weight |-> Weight(c.cs, j, env)]]])])

Weights(records, values) ==
    LET of == SelectSeq(records, LAMBDA r : r.values = values)
        sum[k \in 0 .. Len(of)] == IF k = 0 THEN 0 ELSE sum[k - 1] + of[k].weight
    IN  sum[Len(of)]

SameBag(a, b) ==
    \A values \in {a[k].values : k \in DOMAIN a} \cup {b[k].values : k \in DOMAIN b} :
        Weights(a, values) = Weights(b, values)

ConstraintsHold ==
    \A k \in DOMAIN circuits :
        LET c == circuits[k]
            input == InputOf(c)
        IN  \A i \in RealRows(c), constraint \in {c.cs.zero[z] : z \in DOMAIN c.cs.zero}
                                           \cup {c.cs.zero_sumcheck[z] : z \in DOMAIN c.cs.zero_sumcheck} :
                Eval(constraint, EnvAt(input, i, <<>>)) = 0

MemoryConsistent ==
    LET Once(cs, j, env) == 1
        env  == EnvAt([wit |-> <<>>, struct |-> <<>>, fixed |-> <<>>, pi |-> inst.raw_pi], 1, <<>>)
        Ends(record) == <<[values |-> ValuesAt(record, env), weight |-> 1]>>
    IN  SameBag(Records(LAMBDA cs : cs.ram_r, Once) \o Ends(inst.final),
                Records(LAMBDA cs : cs.ram_w, Once) \o Ends(inst.initial))

LookupsCounted ==
    LET Count(cs, j, env) == IF cs.lk_table = <<>> THEN 1 ELSE -Eval(cs.lk_table[j].multiplicity, env)
        all == Records(LAMBDA cs : cs.lk_items, Count)
    IN  \A k \in DOMAIN all : Weights(all, all[k].values) % Prime = 0

WitnessValid ==
    /\ Len(circuits[HaltIndex].rows) = (IF inst.expect_halt THEN 1 ELSE 0)
    /\ ConstraintsHold /\ MemoryConsistent /\ LookupsCounted
-----------------------------------------------------------------------------
\* The verifier accepts the proof of a run exactly when the witness satisfies
\* the circuits on its own rows: one halt, the constraints, every value read
\* the last one written, every lookup counted in its table.  Padding neither
\* adds nor hides anything (prover and verifier together).
AcceptedIffValid == pc = "stopped" /\ mock # "failed" => (result = "accepted" <=> WitnessValid)

\* What the mock prover passes the verifier accepts; what it refuses is
\* wrong, but for circuits of a higher degree than it allows and for tables
\* whose addresses are no fixed column, which it cannot go through
\* (assert_satisfied_full before create_proof in run_e2e_with_checkpoint).
MockForetells ==
    pc = "stopped" =>
        /\ mock = "passed" => result = "accepted"
        /\ mock = "failed" =>
              \/ ~WitnessValid
              \/ \E k \in DOMAIN circuits : circuits[k].rows # <<>> /\
                     (HasAddressColumn(circuits[k]) \/ circuits[k].cs.max_non_lc_degree > MAX_CONSTRAINT_DEGREE)

\* The verifier absorbs and draws what the prover did, in its order, and has
\* seen all of it when it accepts (the transcript of create_proof and of
\* verify_proof_validity).
VerifierFollowsProver ==
    /\ Len(verifier.tape.log) <= Len(tape.log)
    /\ \A k \in DOMAIN verifier.tape.log : verifier.tape.log[k] = tape.log[k]
    /\ result = "accepted" => Len(verifier.tape.log) = Len(tape.log)

Fingerprint(values) ==
    (Total([i \in DOMAIN values |-> values[i] * Power(challenges[2], i - 1)]) + challenges[1]) % Prime

\* What a circuit puts out is about its real rows only: the product of the
\* records it read and wrote, the sum of its fractions but for the padding of
\* an opcode circuit, each of weight one over the record challenge
\* (build_tower_witness).
OutputsSummarize ==
    pc = "tower" /\ chip.tower.layer = 1 =>
        LET input == chip.input
            cs    == input.cs
            Print1(record, i) == Fingerprint(ValuesAt(record, EnvAt(input, i, <<>>)))
            Whole(records, outs) ==
                \A k \in DOMAIN records :
                    Product(outs[k]) = Product([i \in 1 .. input.num |-> Print1(records[k], i)])
            Count(k, i) == IF cs.lk_table = <<>> THEN 1
                           ELSE Eval(cs.lk_table[k].multiplicity, EnvAt(input, i, <<>>))
            padding == 2 ^ PaddedVars(input.num) - input.num
        IN  /\ Whole(cs.ram_r, chip.built.r_out) /\ Whole(cs.ram_w, chip.built.w_out)
            /\ \A k \in DOMAIN cs.lk_items :
                  Fractions(<<chip.built.lk_out[k]>>) =
                      (Total([i \in 1 .. input.num |-> Count(k, i) * InverseOf[Print1(cs.lk_items[k], i)]])
                          + padding * InverseOf[challenges[1]]) % Prime

\* Every evaluation handed to the opening is the one of the column it will be
\* opened against, so no circuit was given the columns of another
\* (drain of the columns in create_proof, and prove_main_constraints).
OpeningClaims == pc = "circuits" => OpeningHolds(opening.points, opening.evaluations, proofs)

\* The monomials of an opcode circuit add up, row by row, to its constraints
\* each under its own challenge (finalize_backend_monomial_expression).
BackendSumsConstraints ==
    pc = "tower" /\ chip.tower.layer = 1 =>
        LET input  == chip.input
            cs     == input.cs
            layers == ChallengePows(Coming(tape), cs.num_layer_challenges)
            exprs  == BackendExprs(cs)
            columns == input.wit \o input.struct \o input.fixed
            At(k, i) == LET env == EnvAt(input, i, challenges \o layers)
                            cells == cs.backend[k].product
                        IN  Eval(cs.backend[k].scalar, env)
                                * Product([j \in DOMAIN cells |-> columns[cells[j].id + 1][i]])
        IN  \A i \in 1 .. Height([rows |-> input.wit[1]]) :
                Total([k \in DOMAIN cs.backend |-> At(k, i)])
                = Total([j \in DOMAIN exprs |-> layers[j] * Eval(exprs[j], EnvAt(input, i, challenges))])
================================================================================
