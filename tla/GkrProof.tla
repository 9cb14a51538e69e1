-------------------------------- MODULE GkrProof --------------------------------
(***************************************************************************)
(* The proof of a layered circuit and its verification (gkr_iop/src:       *)
(* gkr.rs, gkr/layer.rs, gkr/layer/).  Both sides keep a vector of claims  *)
(* by place: a layer takes the claims on its outputs, proves them by a sum *)
(* check and leaves claims on its inputs, down to the committed columns.   *)
(* A layer with a rotation has a sum check of its own before, that leaves  *)
(* three claims on columns of the same layer: where the unrotated column   *)
(* is left and right of the rotated one, and at the point itself.          *)
(*                                                                         *)
(* A side is [tape, claims, known, layer, rotation]: transcript, claims,   *)
(* challenges known, the next layer and, while that layer has proved its   *)
(* rotation only, the three points and what the columns are there.         *)
(*                                                                         *)
(* A run is [circuit, committed, known, stream, excess]: the challenges    *)
(* the caller has and those to come, and what it adds to the first claim.  *)
(***************************************************************************)
EXTENDS GkrCircuit

CONSTANT Runs

VARIABLES
    run,
    stage,      \* what comes next
    places,     \* columns by the place of their claim, for the witness
    wits,       \* columns by layer
    prover,
    proofs,     \* [rotation, main] by layer, each [msgs, evals]
    verifier,
    verdict     \* of the verifier

vars == <<run, stage, places, wits, prover, proofs, verifier, verdict>>

Circuit == run.circuit
NumLayers == Len(Circuit.layers)

NoSumcheck == [msgs |-> <<>>, evals |-> <<>>]
NoRotated == [points |-> <<>>, evals |-> <<>>]
NewSide(tape, claims) ==
    [tape |-> tape, claims |-> claims, known |-> run.known, layer |-> 1, rotation |-> NoRotated]

Init ==
    /\ run \in Runs
    /\ stage = "witness"
    /\ places = [id \in {} |-> <<>>]
    /\ wits = <<>>
    /\ proofs = <<>>
    /\ prover = [tape |-> [log |-> <<>>, stream |-> run.stream], claims |-> <<>>, known |-> run.known,
                 layer |-> 1, rotation |-> NoRotated]
    /\ verifier = prover
    /\ verdict = "none"
-----------------------------------------------------------------------------
\* The caller's claims on the outputs, all at one point it draws (sample_vec);
\* the other places are filled as the layers go.
OutputClaims(point) ==
    LET ids == OutputIds(Circuit)
    IN  [i \in 1 .. Circuit.n_evaluations |->
            IF i > Len(ids) THEN NoClaim
            ELSE [point |-> point,
                  eval  |-> (Evaluate(places[ids[i]], point) + (IF i = 1 THEN run.excess ELSE 0)) % Prime]]

DrawnVec(tape, n) ==
    LET drawn[k \in 0 .. n] == IF k = 0 THEN tape ELSE Drawn(drawn[k - 1]) IN drawn[n]

\* gkr_witness, from the last layer up.
GenerateLayer ==
    /\ stage = "witness" /\ Inferable(Circuit) /\ Len(wits) < NumLayers
    /\ LET layer == Circuit.layers[NumLayers - Len(wits)]
       IN  \E columns \in {LayerColumns(Circuit, layer, places, run.committed, run.known)} :
               /\ wits' = <<columns>> \o wits
               /\ places' = WithOutputs(layer, columns, places, run.known)
    /\ UNCHANGED <<run, stage, prover, proofs, verifier, verdict>>

StartProof ==
    /\ stage = "witness" /\ Len(wits) = NumLayers
    /\ LET n    == NumVars(run.committed[1])
           side == NewSide(DrawnVec(prover.tape, n), OutputClaims(SubSeq(run.stream, 1, n)))
       IN  prover' = side /\ verifier' = side
    /\ stage' = "prove"
    /\ UNCHANGED <<run, places, wits, proofs, verdict>>

\* unimplemented!
GenerateFails ==
    /\ stage = "witness"
    /\ ~Inferable(Circuit)
    /\ stage' = "panicked"
    /\ UNCHANGED <<run, places, wits, prover, proofs, verifier, verdict>>
-----------------------------------------------------------------------------
(***************************************************************************)
(* What both sides do with a layer.                                        *)
(***************************************************************************)
Known(known, id, value) ==
    [i \in 1 .. (IF Len(known) <= id THEN id + 1 ELSE Len(known)) |->
        IF i = id + 1 THEN value ELSE IF i \in DOMAIN known THEN known[i] ELSE 0]

\* update_challenges
Challenged(side, layer) ==
    LET with[k \in 0 .. Len(layer.challenges)] ==
            IF k = 0 THEN side
            ELSE [with[k - 1] EXCEPT !.known = Known(@, layer.challenges[k].id, Coming(with[k - 1].tape)),
                                     !.tape = Drawn(@)]
    IN  with[Len(layer.challenges)]

\* A mutant of GroupClaims: each claim is taken to be at the first point.
FirstPointClaims(side, layer) ==
    [g \in DOMAIN layer.groups |->
        [evals |-> [k \in DOMAIN layer.groups[g].outs |->
                        EvaluateAt(layer.groups[g].outs[k], side.claims, side.known).eval],
         point |-> side.claims[1].point]]

\* extract_claim_and_point: the first claim of a group tells the point of all.
GroupClaims(side, layer) ==
    [g \in DOMAIN layer.groups |->
        LET at == [k \in DOMAIN layer.groups[g].outs |->
                      EvaluateAt(layer.groups[g].outs[k], side.claims, side.known)]
        IN  [evals |-> [k \in DOMAIN at |-> at[k].eval], point |-> at[1].point]]

\* update_claims, as far as there are places.
Placed(side, layer, evals, point) ==
    [i \in DOMAIN side.claims |->
        IF \E j \in DOMAIN layer.in_eval : layer.in_eval[j].i + 1 = i
        THEN [point |-> point,
              eval  |-> evals[CHOOSE j \in DOMAIN layer.in_eval : layer.in_eval[j].i + 1 = i]]
        ELSE side.claims[i]]

NextSide(side, layer, evals, point, tape) ==
    [side EXCEPT !.claims = Placed(side, layer, evals, point), !.tape = tape,
                 !.layer = @ + 1, !.rotation = NoRotated]

Layer(side) == Circuit.layers[side.layer]
Rotates(layer) == layer.rotation.pairs # <<>>

NumExprs(layer) == Len(layer.exprs) + 3 * Len(layer.rotation.pairs)

\* The expressions of a group, or the columns of a rotation, under powers of
\* alpha, from the start-th on.
Batched(exprs, alphas, start) == SumAll([k \in DOMAIN exprs |-> Mul(Constant(alphas[start + k]), exprs[k])])

\* extend_exprs_with_rotation: all that a layer proves, each group under its
\* eq and the rotated columns under the three eqs of the rotation.
ZeroCheckExprs(layer, alphas) ==
    LET Before(g) == Len(SeqOps!FlattenSeq([h \in 1 .. g - 1 |-> layer.groups[h].outs]))
        n         == Len(layer.rotation.pairs)
        Column(s) == [k \in 1 .. n |-> WitIn(layer.rotation.pairs[k][s])]
        Turn(e, s) == Mul(WitIn(layer.rotation.eqs[e]), Batched(Column(s), alphas, Len(layer.exprs) + (e - 1) * n))
    IN  [g \in DOMAIN layer.groups |->
            Mul(WitIn(layer.groups[g].eq),
                Batched(SubSeq(layer.exprs, Before(g) + 1, Before(g) + Len(layer.groups[g].outs)), alphas, Before(g)))]
        \o (IF layer.rotation.eqs = <<>> THEN <<>> ELSE <<Turn(1, 1), Turn(2, 1), Turn(3, 2)>>)

\* The terms of an expression over columns.
TermsOf(expr, known) ==
    LET terms == GetMonomialTerms(expr)
        env   == [wit |-> <<>>, struct |-> <<>>, fixed |-> <<>>, inst |-> <<>>, chal |-> known]
    IN  [k \in DOMAIN terms |->
            Term(Eval(terms[k].scalar, env), [j \in DOMAIN terms[k].product |-> terms[k].product[j].id + 1])]

\* The one proof of an expression, as a set: a member is evaluated once.
ProofsOf(columns, expr, known, tape) ==
    {SumcheckProve(poly, tape) : poly \in {OnePoly(columns, TermsOf(expr, known))}}
-----------------------------------------------------------------------------
(***************************************************************************)
(* The prover.  It runs on one thread (DistributedSumcheck has the others).*)
(***************************************************************************)
\* A linear layer is opened where its one group is claimed.
LinearProved(side, layer, point) ==
    LET evals == [j \in DOMAIN wits[side.layer] |-> Evaluate(wits[side.layer][j], point)]
    IN  /\ prover' = NextSide(side, layer, evals, point, Absorbed(side.tape, evals))
        /\ proofs' = Append(proofs, [rotation |-> NoSumcheck, main |-> [msgs |-> <<>>, evals |-> evals]])

ProveLinear ==
    /\ stage = "prove" /\ prover.layer <= NumLayers
    /\ Layer(prover).ty = "Linear" /\ Len(Layer(prover).groups) = 1
    /\ LET side == Challenged(prover, Layer(prover))
       IN  LinearProved(side, Layer(prover), GroupClaims(side, Layer(prover))[1].point)
    /\ UNCHANGED <<run, stage, places, wits, verifier, verdict>>

\* assert_eq!(eval_and_dedup_points.len(), 1)
ProveLinearFails ==
    /\ stage = "prove" /\ prover.layer <= NumLayers
    /\ Layer(prover).ty = "Linear" /\ Len(Layer(prover).groups) # 1
    /\ stage' = "panicked"
    /\ UNCHANGED <<run, places, wits, prover, proofs, verifier, verdict>>

RotationColumns(layer, columns, rt) ==
    SeqOps!FlattenSeq([k \in DOMAIN layer.rotation.pairs |->
        <<RotationNext(columns[layer.rotation.pairs[k][1] + 1]), columns[layer.rotation.pairs[k][2] + 1]>>])
    \o <<RotationSelector(BuildEq(rt, 1), layer.rotation.subgroup_size)>>

\* selector * \sum alpha^i (rotated_i - target_i)
RotationExpr(n, alphas) ==
    Mul(WitIn(2 * n),
        SumAll([k \in 1 .. n |-> Mul(Constant(alphas[k]), Sub(WitIn(2 * k - 2), WitIn(2 * k - 1)))]))

\* left, right and target of each pair; right follows from the other two.
RotatedEvals(layer, columns, evals, origin) ==
    SeqOps!FlattenSeq([k \in DOMAIN layer.rotation.pairs |->
        LET left == Evaluate(columns[layer.rotation.pairs[k][1] + 1], LeftPoint(origin))
        IN  <<left, RightEvalFromLeft(evals[2 * k - 1], left, origin), evals[2 * k]>>])

RotationPoints(origin) == <<LeftPoint(origin), RightPoint(origin), origin>>

RotationProved(side, layer, sc) ==
    LET evals == RotatedEvals(layer, wits[side.layer], sc.evals, sc.point)
    IN  /\ prover' = [side EXCEPT !.tape = sc.tape,
                                  !.rotation = [points |-> RotationPoints(sc.point), evals |-> evals]]
        /\ proofs' = Append(proofs, [rotation |-> [msgs |-> sc.msgs, evals |-> evals], main |-> NoSumcheck])

\* prove_rotation, with the point of the first group.
ProveRotation ==
    /\ stage = "prove" /\ prover.layer <= NumLayers
    /\ Layer(prover).ty = "Zerocheck" /\ Rotates(Layer(prover)) /\ prover.rotation = NoRotated
    /\ LET layer == Layer(prover)
           side  == Challenged(prover, layer)
           n     == Len(layer.rotation.pairs)
       IN  \E sc \in ProofsOf(RotationColumns(layer, wits[side.layer], GroupClaims(side, layer)[1].point),
                               RotationExpr(n, ChallengePows(Coming(side.tape), n)), side.known, Drawn(side.tape)) :
               RotationProved(side, layer, sc)
    /\ UNCHANGED <<run, stage, places, wits, verifier, verdict>>

\* The eqs after the columns: of the groups, of the rotation.
WithEqs(columns, groups, points) ==
    columns \o [g \in DOMAIN groups |-> BuildEq(groups[g].point, 1)] \o [p \in DOMAIN points |-> BuildEq(points[p], 1)]

MainProof(sc) == [msgs |-> sc.msgs, evals |-> sc.evals]

ZerocheckProved(side, layer, sc) ==
    /\ prover' = NextSide(side, layer, sc.evals, sc.point, sc.tape)
    /\ proofs' = IF Rotates(layer)
                 THEN [proofs EXCEPT ![side.layer].main = MainProof(sc)]
                 ELSE Append(proofs, [rotation |-> NoSumcheck, main |-> MainProof(sc)])

ProveZerocheck ==
    /\ stage = "prove" /\ prover.layer <= NumLayers
    /\ Layer(prover).ty = "Zerocheck" /\ (Rotates(Layer(prover)) => prover.rotation # NoRotated)
    /\ LET layer == Layer(prover)
           side  == IF Rotates(layer) THEN prover ELSE Challenged(prover, layer)
       IN  \E sc \in ProofsOf(WithEqs(wits[side.layer], GroupClaims(side, layer), side.rotation.points),
                               SumAll(ZeroCheckExprs(layer, ChallengePows(Coming(side.tape), NumExprs(layer)))),
                               side.known, Drawn(side.tape)) :
               ZerocheckProved(side, layer, sc)
    /\ UNCHANGED <<run, stage, places, wits, verifier, verdict>>

\* opening_evaluations, of either side.
Openings(side) ==
    [o \in DOMAIN Circuit.openings |->
        LET at == EvaluateAt(Circuit.openings[o].eval, side.claims, side.known)
        IN  [poly |-> Circuit.openings[o].poly, point |-> at.point, value |-> at.eval]]

FinishProof ==
    /\ stage = "prove" /\ prover.layer > NumLayers
    /\ stage' = "verify"
    /\ UNCHANGED <<run, places, wits, prover, proofs, verifier, verdict>>
-----------------------------------------------------------------------------
(***************************************************************************)
(* The verifier.                                                           *)
(***************************************************************************)
Rejected == verdict' = "rejected" /\ stage' = "done" /\ UNCHANGED verifier

\* A round of a sum check that does not add up is a panic, a sum check that
\* ends at another value an error.
SumcheckFails == stage' = "panicked" /\ UNCHANGED <<verifier, verdict>>

\* A proof of the rotation comes with the layer, or does not.
RotationGiven(l) == proofs[l].rotation # NoSumcheck

EnvOf(evals, known) == [wit |-> evals, struct |-> <<>>, fixed |-> <<>>, inst |-> <<>>, chal |-> known]

LinearVerified(side, layer, group, evals) ==
    IF \A k \in DOMAIN layer.exprs : Eval(layer.exprs[k], EnvOf(evals, side.known)) = group.evals[k]
    THEN /\ verifier' = NextSide(side, layer, evals, group.point, Absorbed(side.tape, evals))
         /\ UNCHANGED <<stage, verdict>>
    ELSE Rejected

VerifyLinear ==
    /\ stage = "verify" /\ verifier.layer <= NumLayers
    /\ Layer(verifier).ty = "Linear"
    /\ LET side == Challenged(verifier, Layer(verifier))
       IN  LinearVerified(side, Layer(verifier), GroupClaims(side, Layer(verifier))[1], proofs[side.layer].main.evals)
    /\ UNCHANGED <<run, places, wits, prover, proofs>>

RotationFound(layer, evals, alphas, rt, origin) ==
    (RotationSelectorEval(rt, origin, layer.rotation.subgroup_size)
        * Total([k \in DOMAIN alphas |->
              alphas[k] * (RotatedEval(evals[3 * k - 2], evals[3 * k - 1], origin) - evals[3 * k])])) % Prime

RotationVerified(side, layer, rt, evals, sc) ==
    IF sc.status # "ok" THEN SumcheckFails
    ELSE IF RotationFound(layer, evals, ChallengePows(Coming(side.tape), Len(evals) \div 3), rt, sc.point) = sc.value
    THEN /\ verifier' = [side EXCEPT !.tape = sc.tape,
                                     !.rotation = [points |-> RotationPoints(sc.point), evals |-> evals]]
         /\ UNCHANGED <<stage, verdict>>
    ELSE Rejected

\* verify_rotation: the claim is zero.
VerifyRotation ==
    /\ stage = "verify" /\ verifier.layer <= NumLayers
    /\ Layer(verifier).ty = "Zerocheck" /\ RotationGiven(verifier.layer) /\ verifier.rotation = NoRotated
    /\ LET layer    == Layer(verifier)
           side     == Challenged(verifier, layer)
           rotation == proofs[side.layer].rotation
       IN  \E sc \in {SumcheckVerify(0, rotation.msgs, NumVars(run.committed[1]), 2, Drawn(side.tape))} :
               RotationVerified(side, layer, GroupClaims(side, layer)[1].point, rotation.evals, sc)
    /\ UNCHANGED <<run, places, wits, prover, proofs>>

\* The claims of the groups, then left, right and target of the rotation.
AllClaims(side, groups) ==
    LET evals == side.rotation.evals
        n     == Len(evals) \div 3
    IN  SeqOps!FlattenSeq([g \in DOMAIN groups |-> groups[g].evals])
        \o [k \in 1 .. 3 * n |-> evals[3 * ((k - 1) % n) + (k - 1) \div n + 1]]

\* The verifier puts in its own evaluations of the eqs of the groups; those of
\* the rotation are taken as they come.
WithOwnEqs(layer, evals, groups, point) ==
    [j \in DOMAIN evals |->
        IF \E g \in DOMAIN layer.groups : layer.groups[g].eq + 1 = j
        THEN EqEval(groups[CHOOSE g \in DOMAIN layer.groups : layer.groups[g].eq + 1 = j].point, point)
        ELSE evals[j]]

ZerocheckVerified(side, layer, alphas, evals, sc) ==
    IF sc.status # "ok" THEN SumcheckFails
    ELSE IF Eval(SumAll(ZeroCheckExprs(layer, alphas)), EnvOf(evals, side.known)) = sc.value
    THEN /\ verifier' = NextSide(side, layer, evals, sc.point, sc.tape)
         /\ UNCHANGED <<stage, verdict>>
    ELSE Rejected

\* extrapolate_uni_poly has no case for a higher degree; without a variable
\* there is nothing to extrapolate.
MAX_EXTRAPOLATED == 4
Extrapolates(layer) == layer.max_expr_degree + 1 <= MAX_EXTRAPOLATED \/ NumVars(run.committed[1]) = 0

VerifyZerocheckFails ==
    /\ stage = "verify" /\ verifier.layer <= NumLayers
    /\ Layer(verifier).ty = "Zerocheck" /\ (RotationGiven(verifier.layer) => verifier.rotation # NoRotated)
    /\ ~Extrapolates(Layer(verifier))
    /\ stage' = "panicked"
    /\ UNCHANGED <<run, places, wits, prover, proofs, verifier, verdict>>

VerifyZerocheck ==
    /\ stage = "verify" /\ verifier.layer <= NumLayers
    /\ Layer(verifier).ty = "Zerocheck" /\ (RotationGiven(verifier.layer) => verifier.rotation # NoRotated)
    /\ Extrapolates(Layer(verifier))
    /\ LET layer  == Layer(verifier)
           side   == IF RotationGiven(verifier.layer) THEN verifier ELSE Challenged(verifier, layer)
           groups == GroupClaims(side, layer)
           alphas == ChallengePows(Coming(side.tape), NumExprs(layer))
           main   == proofs[side.layer].main
       IN  \E sc \in {SumcheckVerify(Dot(alphas, AllClaims(side, groups)), main.msgs, NumVars(run.committed[1]),
                                     layer.max_expr_degree + 1, Drawn(side.tape))} :
               ZerocheckVerified(side, layer, alphas, WithOwnEqs(layer, main.evals, groups, sc.point), sc)
    /\ UNCHANGED <<run, places, wits, prover, proofs>>

Accept ==
    /\ stage = "verify" /\ verifier.layer > NumLayers
    /\ verdict' = "accepted" /\ stage' = "done"
    /\ UNCHANGED <<run, places, wits, prover, proofs, verifier>>

Next ==
    \/ GenerateLayer \/ GenerateFails \/ StartProof
    \/ ProveLinear \/ ProveLinearFails \/ ProveRotation \/ ProveZerocheck \/ FinishProof
    \/ VerifyLinear \/ VerifyRotation \/ VerifyZerocheck \/ VerifyZerocheckFails \/ Accept

Spec == Init /\ [][Next]_vars
===============================================================================
