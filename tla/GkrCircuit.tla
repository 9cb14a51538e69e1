------------------------------- MODULE GkrCircuit -------------------------------
(***************************************************************************)
(* Layered circuits (gkr_iop/src: chip, evaluation.rs, gkr/layer.rs,       *)
(* booleanhypercube.rs, utils.rs, lib.rs).  A chip hands out the cells of  *)
(* each layer and the places of the evaluation vector they are claimed at; *)
(* layers go from the outputs to the committed columns.  A layer says of   *)
(* every row what its outputs are, and may say that a column, rotated by   *)
(* one round, is another: a round's row is a power of X modulo X^5+X^2+1,  *)
(* so that going to the next round is linear on the cube but for one bit.  *)
(***************************************************************************)
EXTENDS ChipProof

(***************************************************************************)
(* Evaluation expressions: where a claim is taken from, or placed.         *)
(***************************************************************************)
ZeroEval == [kind |-> "Zero"]
Single(i) == [kind |-> "Single", i |-> i]
LinearOf(i, c0, c1) == [kind |-> "Linear", i |-> i, c0 |-> c0, c1 |-> c1]
Partition(parts, indices) == [kind |-> "Partition", parts |-> parts, indices |-> indices]

NoClaim == [point |-> <<>>, eval |-> 0]

OfChallenges(expr, challenges) ==
    Eval(expr, [wit |-> <<>>, struct |-> <<>>, fixed |-> <<>>, inst |-> <<>>, chal |-> challenges])

\* A partition puts its constants among the coordinates of the parts, whose
\* own constants are looked up among those of the partition; it has to be a
\* legal one (EvaluationLegal), and no layer that is proved has one.
RECURSIVE EvaluateAt(_, _, _)
EvaluateAt(e, evals, challenges) ==
    CASE e.kind = "Zero"   -> [point |-> evals[1].point, eval |-> 0]
      [] e.kind = "Single" -> evals[e.i + 1]
      [] e.kind = "Linear" ->
            [point |-> evals[e.i + 1].point,
             eval  |-> (evals[e.i + 1].eval * OfChallenges(e.c0, challenges) + OfChallenges(e.c1, challenges)) % Prime]
      [] e.kind = "Partition" ->
            LET at    == [k \in DOMAIN e.indices |-> OfChallenges(e.indices[k][2], challenges)]
                parts == [k \in DOMAIN e.parts |-> EvaluateAt(e.parts[k], evals, at)]
                grown[k \in 0 .. Len(e.indices)] ==
                    IF k = 0 THEN parts[1].point
                    ELSE SeqOps!InsertAt(grown[k - 1], e.indices[k][1] + 1, at[k])
            IN  [point |-> grown[Len(e.indices)],
                 eval  |-> Dot([k \in DOMAIN parts |-> parts[k].eval], BuildEqSequential(at, 1))]

\* What evaluate asserts of a partition: constants at rising places, a part
\* for each of their corners, all parts at one point.
RECURSIVE EvaluationLegal(_, _, _)
EvaluationLegal(e, evals, challenges) ==
    e.kind = "Partition" =>
        LET at == [k \in DOMAIN e.indices |-> OfChallenges(e.indices[k][2], challenges)]
        IN  /\ \A k \in 1 .. Len(e.indices) - 1 : e.indices[k][1] < e.indices[k + 1][1]
            /\ \A k \in DOMAIN e.parts : EvaluationLegal(e.parts[k], evals, at)
            /\ Len(e.parts) = 2 ^ Len(e.indices)
            /\ \A k \in DOMAIN e.parts :
                  EvaluateAt(e.parts[k], evals, at).point = EvaluateAt(e.parts[1], evals, at).point
-----------------------------------------------------------------------------
(***************************************************************************)
(* Chips.                                                                  *)
(***************************************************************************)
EmptyChip == [n_committed |-> 0, n_challenges |-> 0, n_evaluations |-> 0, layers |-> <<>>, openings |-> <<>>]

AllocateCommitted(chip, n) == [chip EXCEPT !.n_committed = @ + n]
AllocateOutputEvals(chip, n) == [chip EXCEPT !.n_evaluations = @ + n]
AllocateChallenges(chip, n) == [chip EXCEPT !.n_challenges = @ + n]
\* n columns, then z columns for the eq polynomials of the layer
AllocateWits(chip, n, z) == [chip EXCEPT !.n_evaluations = @ + n + z]
AllocateOpening(chip, poly, eval) == [chip EXCEPT !.openings = Append(@, [poly |-> poly, eval |-> eval])]

\* The places a chip hands out next, and the challenges.
NextEvals(chip, n) == [i \in 1 .. n |-> Single(chip.n_evaluations + i - 1)]
NextChallenges(chip, n) == [i \in 1 .. n |-> Challenge(chip.n_challenges + i - 1, 1, 1, 0)]

NoRotation == [eqs |-> <<>>, pairs |-> <<>>, group_log2 |-> 0, subgroup_size |-> 0]

\* A group is [eq, outs], the column of its eq polynomial (none in a linear
\* layer) and the claims that share its point.
NewLayer(ty, exprs, challenges, in_eval, groups, rotation) ==
    [ty |-> ty, exprs |-> exprs, challenges |-> challenges, in_eval |-> in_eval,
     groups |-> groups, rotation |-> rotation,
     max_expr_degree |->
        IF exprs = <<>> THEN 1
        ELSE CHOOSE d \in {Degree(exprs[k]) : k \in DOMAIN exprs} : \A k \in DOMAIN exprs : Degree(exprs[k]) <= d]

OutsOf(layer) == SeqOps!FlattenSeq([g \in DOMAIN layer.groups |-> layer.groups[g].outs])

\* What add_layer asserts.
LayerLegal(layer) ==
    /\ Len(OutsOf(layer)) = Len(layer.exprs)
    /\ layer.ty = "Linear" => \A k \in DOMAIN layer.exprs : Degree(layer.exprs[k]) = 1

AddLayer(chip, layer) == [chip EXCEPT !.layers = Append(@, layer)]
-----------------------------------------------------------------------------
(***************************************************************************)
(* The witness of the layers, from the committed columns up.               *)
(***************************************************************************)
RowEnv(wits, row, challenges) ==
    [wit |-> [c \in DOMAIN wits |-> wits[c][row]],
     struct |-> <<>>, fixed |-> <<>>, inst |-> <<>>, chal |-> challenges]

InferColumn(expr, wits, challenges) ==
    [row \in DOMAIN wits[1] |-> Eval(expr, RowEnv(wits, row, challenges))]

\* infer_layer_witness has outputs and zeros only.
Inferable(circuit) ==
    /\ \A k \in DOMAIN circuit.layers : \A out \in SeqOps!ToSet(OutsOf(circuit.layers[k])) : out.kind \in {"Zero", "Single"}
    /\ \A o \in DOMAIN circuit.openings : circuit.openings[o].eval.kind # "Partition"

\* The column of an opened place, for the first opening that names it.
OpenedColumn(opening, committed, challenges) ==
    LET f == committed[opening.poly + 1]
    IN  IF opening.eval.kind = "Single" THEN f
        ELSE [row \in DOMAIN f |-> ((f[row] - OfChallenges(opening.eval.c1, challenges))
                                     * InverseOf[OfChallenges(opening.eval.c0, challenges)]) % Prime]

OpeningsOf(circuit, id) ==
    SelectSeq(circuit.openings, LAMBDA o : o.eval.kind # "Zero" /\ o.eval.i = id)

\* The columns of a layer: opened, or made by the layer below.
LayerColumns(circuit, layer, places, committed, challenges) ==
    [j \in DOMAIN layer.in_eval |->
        LET id == layer.in_eval[j].i
        IN  IF OpeningsOf(circuit, id) # <<>>
            THEN OpenedColumn(OpeningsOf(circuit, id)[1], committed, challenges)
            ELSE places[id]]

\* The columns known with the outputs of a layer (infer_layer_witness).
WithOutputs(layer, columns, places, challenges) ==
    LET outs == OutsOf(layer)
        made == {e \in DOMAIN outs : outs[e].kind = "Single"}
        new  == [id \in {outs[e].i : e \in made} |->
                    InferColumn(layer.exprs[CHOOSE e \in made : outs[e].i = id], columns, challenges)]
    IN  [id \in DOMAIN new \cup DOMAIN places |-> IF id \in DOMAIN new THEN new[id] ELSE places[id]]

\* The outputs of the first layer in the order of their places.
OutputIds(circuit) ==
    LET ids == {out.i : out \in {o \in SeqOps!ToSet(OutsOf(circuit.layers[1])) : o.kind = "Single"}}
    IN  [k \in 1 .. Cardinality(ids) |-> CHOOSE id \in ids : Cardinality({other \in ids : other < id}) = k - 1]
-----------------------------------------------------------------------------
(***************************************************************************)
(* Rotation.  The rows of an instance are 2 ^ 5; round i is in the row     *)
(* CYCLIC_POW2_5[i + 1].                                                   *)
(***************************************************************************)
CYCLIC_POW2_5 ==
    <<1, 2, 4, 8, 16, 5, 10, 20, 13, 26, 17, 7, 14, 28, 29, 31,
      27, 19, 3, 6, 12, 24, 21, 15, 30, 25, 23, 11, 22, 9, 18, 1>>

\* A mutant of NextRow: a step backwards.
PreviousRow ==
    [c \in 0 .. 31 |->
        IF c = 0 THEN 0 ELSE CYCLIC_POW2_5[CHOOSE i \in 1 .. 31 : CYCLIC_POW2_5[i + 1] = c]]

\* Row 0 is in no cycle and follows itself.
NextRow ==
    [c \in 0 .. 31 |->
        IF c = 0 THEN 0 ELSE CYCLIC_POW2_5[(CHOOSE i \in 1 .. 31 : CYCLIC_POW2_5[i] = c) + 1]]

\* rotation_next_base_mle
RotationNext(mle) ==
    [p \in DOMAIN mle |-> LET c == (p - 1) % 32 IN mle[(p - 1) - c + NextRow[c] + 1]]

SubgroupRows(size) == {CYCLIC_POW2_5[i] : i \in 1 .. size}

\* rotation_selector: eq on the rows that have a next one in the subgroup.
RotationSelector(eq, size) ==
    [p \in DOMAIN eq |-> IF (p - 1) % 32 \in SubgroupRows(size) THEN eq[p] ELSE 0]

RotationSelectorEval(out, in, size) ==
    LET a == BuildEq(SubSeq(out, 1, 5), 1)
        b == BuildEq(SubSeq(in, 1, 5), 1)
    IN  (Total([i \in 1 .. size |-> a[CYCLIC_POW2_5[i] + 1] * b[CYCLIC_POW2_5[i] + 1]])
           * EqEval(SubSeq(out, 6, Len(out)), SubSeq(in, 6, Len(in)))) % Prime

\* get_rotation_points: where the unrotated column is to be opened.
LeftPoint(r) == <<0>> \o SubSeq(r, 1, 4) \o SubSeq(r, 6, Len(r))
\* A mutant of RightPoint: the bit the reduction turns over is left as it is.
RightPointUnturned(r) == <<1, r[1], r[2], r[3], r[4]>> \o SubSeq(r, 6, Len(r))
RightPoint(r) == <<1, r[1], (1 - r[2]) % Prime, r[3], r[4]>> \o SubSeq(r, 6, Len(r))

\* The last bit of the row decides between the two; it must not be zero.
RightEvalFromLeft(rotated, left, r) == ((rotated - (1 - r[5]) * left) * InverseOf[r[5]]) % Prime
RotatedEval(left, right, r) == ((1 - r[5]) * left + r[5] * right) % Prime
===============================================================================
