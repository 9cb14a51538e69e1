-------------------------------- MODULE ChipProof --------------------------------
(***************************************************************************)
(* The proof of one circuit (ceno_zkvm/src/scheme: cpu/mod.rs, utils.rs,   *)
(* the chip half of prover.rs and of verifier.rs).  The records a circuit  *)
(* reads, writes and looks up are the leaves of product and fraction       *)
(* towers; sum checks lead from the outputs of the towers down to one      *)
(* point of the leaves, and for an opcode circuit one more sum check leads *)
(* from the leaves to the columns, which are opened at the last point.     *)
(*                                                                         *)
(* A tape is a transcript, its log and the challenges it is still to give: *)
(* both sides draw the n-th challenge alike as long as their logs agree.   *)
(* An input is [cs, num, wit, struct, fixed, pi], the columns padded.      *)
(***************************************************************************)
EXTENDS SumcheckRounds, CircuitBuilder

SeqOps == INSTANCE SequencesExt

Absorbed(tape, message) == [tape EXCEPT !.log = Append(@, [absorbed |-> message])]
Drawn(tape) == [log |-> Append(tape.log, [sampled |-> Head(tape.stream)]), stream |-> Tail(tape.stream)]
Coming(tape) == Head(tape.stream)

\* next_pow2_instance_padding and the logarithm of it
PaddedVars(n) == IF n <= 2 THEN 1 ELSE CeilLog2(n)
-----------------------------------------------------------------------------
\* The virtual polynomial of one thread, polynomials of one size.
OnePoly(mles, terms) ==
    [mles |-> mles, meta |-> [i \in DOMAIN mles |-> "Normal"], terms |-> terms, maxVars |-> NumVars(mles[1])]

\* A round: the message is absorbed, the challenge drawn.
Round(was, prover, msg) ==
    [prover |-> prover, msgs |-> Append(was.msgs, msg), point |-> Append(was.point, Coming(was.tape)),
     tape |-> Drawn(Absorbed(was.tape, msg))]

NextRound(was, prover) == Round(was, prover, RoundMessage(prover))

\* The last challenge is bound when the rounds are over.
ProvedRounds(end, final) ==
    [msgs |-> end.msgs, point |-> end.point, tape |-> end.tape,
     evals |-> [i \in DOMAIN final.mles |-> final.mles[i][1]]]

FinishRounds(end) == ProvedRounds(end, FixVar(end.prover, SeqOps!Last(end.point)))

\* IOPProverState::prove of one thread.
SumcheckProve(poly, tape) ==
    LET run[i \in 0 .. poly.maxVars] ==
            IF i = 0
            THEN [prover |-> ProverInit(TRUE, poly, 0), msgs |-> <<>>, point |-> <<>>,
                  tape |-> Absorbed(tape, <<poly.maxVars, MaxDegree(poly.terms)>>)]
            ELSE LET was == run[i - 1]
                 IN  NextRound(was, ProveRound(was.prover, IF i = 1 THEN <<>> ELSE <<was.point[i - 1]>>))
    IN  FinishRounds(run[poly.maxVars])

\* IOPVerifierState::verify; status tells a failed assertion.
Checked(claim, msgs, degree, tape, end) ==
    IF end.point = <<>>
    THEN [status |-> "ok", point |-> <<>>, value |-> claim, tape |-> tape]
    ELSE IF Len(msgs) >= Len(end.point) /\ MessagesConsistent(claim, SubSeq(msgs, 1, Len(end.point)), end.point, degree)
    THEN [status |-> "ok", point |-> end.point, tape |-> end.tape,
          value |-> Subclaim(claim, SubSeq(msgs, 1, Len(end.point)), end.point)]
    ELSE [status |-> "panicked", point |-> <<>>, value |-> 0, tape |-> tape]

SumcheckVerify(claim, msgs, n, degree, tape) ==
    LET run[i \in 0 .. n] ==
            IF i = 0
            THEN [point |-> <<>>, tape |-> Absorbed(tape, <<n, degree>>)]
            ELSE LET was == run[i - 1]
                 IN  [point |-> Append(was.point, Coming(was.tape)),
                      tape |-> Drawn(Absorbed(was.tape, msgs[i]))]
    IN  Checked(claim, msgs, degree, tape, run[n])
-----------------------------------------------------------------------------
(***************************************************************************)
(* Witness of the towers.                                                  *)
(***************************************************************************)
IsOpcodeCircuit(cs) == cs.r_table = <<>> /\ cs.w_table = <<>> /\ cs.lk_table = <<>>

EnvAt(input, row, challenges) ==
    [wit    |-> [c \in DOMAIN input.wit |-> input.wit[c][row]],
     struct |-> [c \in DOMAIN input.struct |-> input.struct[c][row]],
     fixed  |-> [c \in DOMAIN input.fixed |-> input.fixed[c][row]],
     inst   |-> [i \in DOMAIN input.pi |->
                    IF Len(input.pi[i]) = 1 THEN input.pi[i][1]
                    ELSE IF row \in DOMAIN input.pi[i] THEN input.pi[i][row] ELSE 0],
     chal   |-> challenges]

\* wit_infer_by_expr
WitInfer(expr, input, challenges) ==
    [row \in 1 .. 2 ^ PaddedVars(input.num) |-> Eval(expr, EnvAt(input, row, challenges))]

\* A mutant of Masked: the last instance is taken for padding.
MaskedShort(mle, num, default) ==
    LET n == Len(mle) \div 2
        At(i) == IF i < num THEN mle[i] ELSE default
    IN  <<[i \in 1 .. n |-> At(i)], [i \in 1 .. n |-> At(n + i)]>>

\* masked_mle_split_to_chunks: two halves, the default beyond the instances.
Masked(mle, num, default) ==
    LET n == Len(mle) \div 2
        At(i) == IF i <= num THEN mle[i] ELSE default
    IN  <<[i \in 1 .. n |-> At(i)], [i \in 1 .. n |-> At(n + i)]>>

\* The layers of a tower from the output to the leaves.
Layers(leaves, Up(_)) ==
    LET n == NumVars(leaves[1])
        up[k \in 0 .. n] == IF k = 0 THEN leaves ELSE Up(up[k - 1])
    IN  [k \in 1 .. n + 1 |-> up[n + 1 - k]]

Half(mle, index) ==
    LET n == Len(mle) \div 2 IN SubSeq(mle, index * n + 1, (index + 1) * n)
Pointwise(a, b) == [i \in DOMAIN a |-> (a[i] * b[i]) % Prime]

\* infer_tower_product_witness
ProductTower(leaves) ==
    Layers(leaves, LAMBDA f : [k \in 1 .. 2 |-> Pointwise(Half(f[1], k - 1), Half(f[2], k - 1))])

\* infer_tower_logup_witness: a layer is p1, p2, q1, q2; without numerators
\* they are 1.
LogupTower(p, q) ==
    LET ones == [i \in DOMAIN q[1] |-> 1]
        Up(f) ==
            LET h == [j \in 1 .. 4 |-> [k \in 1 .. 2 |-> Half(f[j], k - 1)]]
                P(k) == LET a == Pointwise(h[3][k], h[2][k])
                            b == Pointwise(h[4][k], h[1][k])
                        IN  [i \in DOMAIN a |-> (a[i] + b[i]) % Prime]
            IN  <<P(1), P(2), Pointwise(h[3][1], h[4][1]), Pointwise(h[3][2], h[4][2])>>
    IN  Layers((IF p = <<>> THEN <<ones, ones>> ELSE p) \o q, Up)

Exprs(rs) == [i \in DOMAIN rs |-> rs[i].expr]

\* What the root of each tower holds, the values a proof starts with.
OutEvals(towers) == [i \in DOMAIN towers |-> [j \in DOMAIN towers[i][1] |-> towers[i][1][j][1]]]

\* build_tower_witness
BuildTower(input, challenges) ==
    LET cs == input.cs
        Leaves(expr, default) == Masked(WitInfer(expr, input, challenges), input.num, default)
        Products(es) == [i \in DOMAIN es |-> ProductTower(Leaves(es[i], 1))]
        r == Products(Exprs(cs.r_table) \o cs.r)
        w == Products(Exprs(cs.w_table) \o cs.w)
        tables == [i \in DOMAIN cs.lk_table |->
                      LogupTower(Leaves(cs.lk_table[i].multiplicity, 1),
                                 Leaves(cs.lk_table[i].values, challenges[1]))]
        lookups == [i \in DOMAIN cs.lk |-> LogupTower(<<>>, Leaves(cs.lk[i], challenges[1]))]
        lk == IF cs.lk_table # <<>> THEN tables ELSE lookups
    IN  [prod |-> r \o w, logup |-> lk,
         r_out |-> OutEvals(r), w_out |-> OutEvals(w), lk_out |-> OutEvals(lk)]
-----------------------------------------------------------------------------
(***************************************************************************)
(* CpuTowerProver::create_proof.  All the towers of a circuit have one     *)
(* height.  A tower proof is [msgs, prod, logup], by layer.                *)
(***************************************************************************)
TowerAlphas(tape, prods, logups) == ChallengePows(Coming(tape), prods + 2 * logups)

StartTower(built, tape) ==
    LET second == Drawn(tape)
    IN  [layer |-> 1, alphas |-> TowerAlphas(tape, Len(built.prod), Len(built.logup)),
         rt |-> <<Coming(second)>>, tape |-> Drawn(second),
         proof |-> [msgs |-> <<>>, prod |-> <<>>, logup |-> <<>>]]

\* The polynomials of a layer: eq, two of each product, four of each fraction.
LayerPolys(built, layer, rt) ==
    <<BuildEq(rt, 1)>>
    \o SeqOps!FlattenSeq([i \in DOMAIN built.prod |-> built.prod[i][layer]])
    \o SeqOps!FlattenSeq([i \in DOMAIN built.logup |-> built.logup[i][layer]])

LayerTerms(prods, logups, alphas) ==
    [i \in 1 .. prods |-> Term(alphas[i], <<1, 2 * i, 2 * i + 1>>)]
    \o SeqOps!FlattenSeq([j \in 1 .. logups |->
        LET p1    == 2 * prods + 4 * j - 2
            num   == alphas[prods + 2 * j - 1]
            denom == alphas[prods + 2 * j]
        IN  <<Term(num, <<1, p1, p1 + 3>>), Term(num, <<1, p1 + 1, p1 + 2>>),
              Term(denom, <<1, p1 + 2, p1 + 3>>)>>])

\* A layer proved: rt' is the point of the sum check and one merging challenge.
LayerProved(t, prods, logups, sc, after) ==
    [layer |-> t.layer + 1, rt |-> Append(sc.point, Coming(sc.tape)),
     alphas |-> TowerAlphas(after, prods, logups), tape |-> Drawn(after),
     proof |-> [msgs  |-> Append(t.proof.msgs, sc.msgs),
                prod  |-> Append(t.proof.prod, [i \in 1 .. prods |-> SubSeq(sc.evals, 2 * i, 2 * i + 1)]),
                logup |-> Append(t.proof.logup,
                    [j \in 1 .. logups |-> SubSeq(sc.evals, 2 * prods + 4 * j - 2, 2 * prods + 4 * j + 1)])]]

LayerFrom(built, t, sc) == LayerProved(t, Len(built.prod), Len(built.logup), sc, Drawn(sc.tape))

TowerLayer(built, t) ==
    LayerFrom(built, t,
        SumcheckProve(OnePoly(LayerPolys(built, t.layer + 1, t.rt),
                              LayerTerms(Len(built.prod), Len(built.logup), t.alphas)),
                      t.tape))
-----------------------------------------------------------------------------
(***************************************************************************)
(* prove_main_constraints                                                  *)
(***************************************************************************)
\* The values of the queried instances in the order of their identifiers; a
\* scalar indexes them by identifier.  An instance of an opcode circuit is one
\* word.  (A debug build also tries each constraint of a higher degree on
\* every row here, and returns an error where one is not zero; this is the
\* release build, which leaves that to the verifier.)
PublicIoEvals(input) ==
    LET ids == SeqOps!SetToSortSeq(input.cs.instances, LAMBDA a, b : a < b)
    IN  [k \in DOMAIN ids |-> input.pi[ids[k] + 1][1]]

InstancesAreWords(input) == \A idx \in input.cs.instances : Len(input.pi[idx + 1]) = 1
InstancesArePrefix(cs) == cs.instances = 0 .. Cardinality(cs.instances) - 1

\* eq(rt, .) on the instances, zero on the padding.
Selector(rt, num) ==
    LET eq == BuildEq(rt, 1) IN [i \in DOMAIN eq |-> IF i <= num THEN eq[i] ELSE 0]

MainProved(cs, sc) ==
    [point |-> sc.point, tape |-> sc.tape, main |-> sc.msgs,
     wits |-> SubSeq(sc.evals, 1, cs.num_witin),
     fixed |-> SubSeq(sc.evals, cs.num_witin + 1, cs.num_witin + cs.num_fixed)]

MainOpcode(input, rt, challenges, tape) ==
    LET cs    == input.cs
        env   == [wit |-> <<>>, struct |-> <<>>, fixed |-> <<>>, inst |-> PublicIoEvals(input),
                  chal |-> challenges \o ChallengePows(Coming(tape), cs.num_layer_challenges)]
        terms == [k \in DOMAIN cs.backend |->
                     Term(Eval(cs.backend[k].scalar, env),
                          [j \in DOMAIN cs.backend[k].product |-> cs.backend[k].product[j].id + 1]
                          \o <<cs.num_backend_witin + 1>>)]
        mles  == input.wit \o input.struct \o input.fixed \o <<Selector(rt, input.num)>>
    IN  MainProved(cs, SumcheckProve(OnePoly(mles, terms), Drawn(tape)))

\* A table has no such sum check: its columns are opened where the tower ended.
MainTable(input, rt, tape) ==
    [point |-> rt, tape |-> tape, main |-> <<>>,
     wits  |-> [c \in DOMAIN input.wit |-> Evaluate(input.wit[c], rt)],
     fixed |-> [c \in DOMAIN input.fixed |-> Evaluate(input.fixed[c], rt)]]

MainConstraints(input, rt, challenges, tape) ==
    IF IsOpcodeCircuit(input.cs)
    THEN MainOpcode(input, rt, challenges, tape)
    ELSE MainTable(input, rt, tape)

\* pi::evals of create_chip_proof: what a queried instance evaluates to.
InstanceEval(values, point) == Evaluate(values, SubSeq(point, 1, NumVars(values)))
-----------------------------------------------------------------------------
(***************************************************************************)
(* TowerVerify::verify                                                     *)
(***************************************************************************)
Merge(pair, r) == (pair[1] + r * (pair[2] - pair[1])) % Prime

\* \sum alpha^i prod_i + alpha^j p_j + alpha^(j+1) q_j
Weighted(alphas, prods, ps, qs) ==
    (Dot(SubSeq(alphas, 1, Len(prods)), prods)
        + Total([j \in DOMAIN ps |-> alphas[Len(prods) + 2 * j - 1] * ps[j]
                                      + alphas[Len(prods) + 2 * j] * qs[j]])) % Prime

\* The claims on the next layer: the evaluations of the halves merged at r.
MergedClaims(prod, logup, r) ==
    [prod |-> [i \in DOMAIN prod |-> Merge(prod[i], r)],
     p    |-> [j \in DOMAIN logup |-> Merge(SubSeq(logup[j], 1, 2), r)],
     q    |-> [j \in DOMAIN logup |-> Merge(SubSeq(logup[j], 3, 4), r)]]

ClaimOf(was) == Weighted(was.alphas, was.at.prod, was.at.p, was.at.q)

\* What the evaluations of the halves say of the claim of the layer above.
ClaimFound(alphas, pe, le) ==
    Weighted(alphas, [i \in DOMAIN pe |-> Product(pe[i])],
             [j \in DOMAIN le |-> (le[j][1] * le[j][4] + le[j][2] * le[j][3]) % Prime],
             [j \in DOMAIN le |-> (le[j][3] * le[j][4]) % Prime])

LayerVerified(was, pe, le, sc, after) ==
    IF was.status # "ok" THEN was
    ELSE IF sc.status # "ok" THEN [was EXCEPT !.status = sc.status]
    ELSE IF (EqEval(was.rt, sc.point) * ClaimFound(was.alphas, pe, le)) % Prime # sc.value
    THEN [was EXCEPT !.status = "mismatch tower evaluation"]
    ELSE [status |-> "ok", rt |-> Append(sc.point, Coming(sc.tape)),
          at |-> MergedClaims(pe, le, Coming(sc.tape)),
          alphas |-> TowerAlphas(after, Len(pe), Len(le)), tape |-> Drawn(after)]

NextLayer(was, pe, le, sc) == LayerVerified(was, pe, le, sc, Drawn(sc.tape))

\* The claims at the output, then layer by layer; n is the height.
TowerVerify(prodOut, lkOut, proof, n, tape) ==
    LET second == Drawn(tape)
        run[k \in 0 .. n - 1] ==
            IF k = 0
            THEN [status |-> "ok", rt |-> <<Coming(second)>>, at |-> MergedClaims(prodOut, lkOut, Coming(second)),
                  alphas |-> TowerAlphas(tape, Len(prodOut), Len(lkOut)), tape |-> Drawn(second)]
            ELSE LET was == run[k - 1]
                 IN  NextLayer(was, proof.prod[k], proof.logup[k],
                               SumcheckVerify(ClaimOf(was), proof.msgs[k], k, 3, was.tape))
    IN  run[n - 1]
-----------------------------------------------------------------------------
\* eq_eval_less_or_equal_than: eq(a, b) summed over the positions up to max.
EqLessOrEqual(max, a, b) ==
    LET n == Len(b)
        Bit(i) == (max \div 2 ^ (i - 1)) % 2
        low[i \in 0 .. n] == IF i = 0 THEN 1 ELSE (low[i - 1] * (2 * a[i] * b[i] - a[i] - b[i] + 1)) % Prime
        high[i \in 1 .. n + 1] ==
            IF i = n + 1 THEN 1
            ELSE (high[i + 1] * (IF Bit(i) = 1 THEN a[i] * b[i] ELSE (1 - a[i]) * (1 - b[i]) % Prime)) % Prime
        above == {i \in 1 .. n : Bit(i) = 0}
        ans == low[n] - Total([i \in 1 .. n |->
                   IF i \in above THEN ((low[i - 1] * high[i + 1]) % Prime) * ((a[i] * b[i]) % Prime) ELSE 0])
    IN  (ans * Product([j \in 1 .. Len(a) - n |-> 1 - a[n + j]])) % Prime

\* eval_wellform_address_vec
WellformAddress(spec, r) ==
    LET slope == Total([i \in DOMAIN r |-> spec.multi_factor * r[i] * 2 ^ (i - 1)])
    IN  (spec.offset + (IF spec.descending THEN -slope ELSE slope)) % Prime

Failed(status, tape) == [status |-> status, point |-> <<>>, tape |-> tape]

(***************************************************************************)
(* verify_opcode_proof and verify_table_proof                              *)
(***************************************************************************)
ZeroExpressionsHold(cs, env) == \A k \in DOMAIN cs.zero : Eval(cs.zero[k], env) = 0

\* Reads, writes, lookups.
MainRecords(cs) == cs.r \o cs.w \o cs.lk
\* A record is padded with 1, a lookup with the record challenge.
Shift(cs, challenges, i) == IF i <= Len(cs.r) + Len(cs.w) THEN 1 ELSE challenges[1]

MainAlphas(cs, tape) ==
    ChallengePows(Coming(tape), Len(cs.r) + Len(cs.w) + Len(cs.lk) + Len(cs.zero_sumcheck))

MainClaim(cs, challenges, alpha, leaves) ==
    Total([i \in DOMAIN MainRecords(cs) |-> alpha[i] * (leaves[i] - Shift(cs, challenges, i))])

\* What the opened columns make of the same sum.
MainFound(cs, challenges, alpha, env) ==
    LET records == MainRecords(cs)
    IN  Total([i \in DOMAIN records |-> alpha[i] * (Eval(records[i], env) - Shift(cs, challenges, i))]
              \o [j \in DOMAIN cs.zero_sumcheck |-> alpha[Len(records) + j] * Eval(cs.zero_sumcheck[j], env)])

MainDegree(cs) == IF cs.max_non_lc_degree + 1 > 2 THEN cs.max_non_lc_degree + 1 ELSE 2

OpcodeVerdict(cs, num, challenges, env, tower, sc) ==
    IF tower.status # "ok" THEN Failed(tower.status, tower.tape)
    ELSE IF tower.at.p = <<>> \/ tower.at.prod = <<>> THEN Failed("panicked", tower.tape)
    ELSE IF tower.at.p[1] # 1 THEN Failed("p(x) # 1", tower.tape)
    ELSE IF sc.status # "ok" THEN Failed(sc.status, tower.tape)
    ELSE IF (EqLessOrEqual(num - 1, sc.point, tower.rt)
                * MainFound(cs, challenges, MainAlphas(cs, tower.tape), env)) % Prime # sc.value
    THEN Failed("main + sel evaluation", tower.tape)
    ELSE IF ~ZeroExpressionsHold(cs, env) THEN Failed("zero expression # 0", tower.tape)
    ELSE [status |-> "ok", point |-> sc.point, tape |-> sc.tape]

VerifyMain(cs, proof, num, env, tower) ==
    LET claim == MainClaim(cs, env.chal, MainAlphas(cs, tower.tape), tower.at.prod \o tower.at.q)
    IN  OpcodeVerdict(cs, num, env.chal, env, tower,
            SumcheckVerify(claim, proof.main, PaddedVars(num), MainDegree(cs), Drawn(tower.tape)))

VerifyOpcode(cs, proof, num, pi, challenges, tape) ==
    VerifyMain(cs, proof, num,
               [wit |-> proof.wits, struct |-> <<>>, fixed |-> <<>>, inst |-> pi, chal |-> challenges],
               TowerVerify(proof.r_out \o proof.w_out, proof.lk_out, proof.tower, PaddedVars(num), tape))

\* interleave
Turns(a, b) == SeqOps!FlattenSeq([i \in DOMAIN a |-> <<a[i], b[i]>>])

TableSpecs(cs) == [i \in DOMAIN cs.r_table |-> cs.r_table[i].spec]
                  \o [i \in DOMAIN cs.lk_table |-> cs.lk_table[i].spec]

\* Structural columns are not opened: the verifier evaluates them itself.
StructuralEvals(specs, rt) ==
    SeqOps!FlattenSeq([k \in DOMAIN specs |->
        [j \in DOMAIN specs[k].structural |-> WellformAddress(specs[k].structural[j], rt)]])

\* The records are compared as the tower orders them: reads and writes in
\* turn, then numerators and denominators in turn.
TableExpressions(cs) ==
    Turns(Exprs(cs.r_table), Exprs(cs.w_table))
    \o SeqOps!FlattenSeq([i \in DOMAIN cs.lk_table |->
           <<cs.lk_table[i].multiplicity, cs.lk_table[i].values>>])
ClaimsInTurn(at) == at.prod \o Turns(at.p, at.q)

\* The public values are short: the verifier evaluates them itself.
PublicInputsHold(cs, rawPi, pi, rt) ==
    \A idx \in cs.instances : InstanceEval(rawPi[idx + 1], rt) = pi[idx + 1]

\* expected_rounds: a table has its fixed length, or fits its columns.
SpecsFit(specs, n) ==
    \A k \in DOMAIN specs :
        IF specs[k].len # 0
        THEN CeilLog2(specs[k].len) = n
        ELSE \A j \in DOMAIN specs[k].structural : 2 ^ n <= specs[k].structural[j].max_len

TableClaimsHold(cs, env, at) ==
    LET exprs == TableExpressions(cs)
    IN  \A i \in DOMAIN exprs : Eval(exprs[i], env) = ClaimsInTurn(at)[i]

TableVerdict(cs, proof, num, rawPi, pi, challenges, tower) ==
    LET env == [wit |-> proof.wits, fixed |-> proof.fixed, inst |-> pi, chal |-> challenges,
                struct |-> StructuralEvals(TableSpecs(cs), tower.rt)]
    IN  IF ~SpecsFit(TableSpecs(cs), PaddedVars(num)) THEN Failed("panicked", tower.tape)
        ELSE IF tower.status # "ok" THEN Failed(tower.status, tower.tape)
        ELSE IF ~TableClaimsHold(cs, env, tower.at) THEN Failed("table evaluation mismatch", tower.tape)
        ELSE IF ~PublicInputsHold(cs, rawPi, pi, tower.rt) THEN Failed("pub input mismatch", tower.tape)
        ELSE [status |-> "ok", point |-> tower.rt, tape |-> tower.tape]

VerifyTable(cs, proof, num, rawPi, pi, challenges, tape) ==
    TableVerdict(cs, proof, num, rawPi, pi, challenges,
        TowerVerify(Turns(proof.r_out, proof.w_out), proof.lk_out, proof.tower, PaddedVars(num), tape))
===============================================================================
