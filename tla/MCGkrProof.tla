-------------------------------- MODULE MCGkrProof --------------------------------
(***************************************************************************)
(* Layered circuits to prove.  Rounds has one row for each round of a      *)
(* chain, 24 rounds of 32 rows, as the keccak of lookups has; Layered goes *)
(* down four layers whose claims part and meet again, as the keccak of     *)
(* bits does; Affine begins with a linear layer and opens a column that is *)
(* committed under another scale.  The others are put together wrongly, or *)
(* their columns break one rule.                                           *)
(***************************************************************************)
EXTENDS GkrProof, BitwiseKeccak

Squared(e) == Mul(e, e)
BitOf(e) == Mul(e, Sub(One, e))
Group(eq, outs) == [eq |-> eq, outs |-> outs]

\* The circuit of a sequence of operations on a chip.
Layered(n_committed, n_outputs, n_challenges, widths, layers, openings) ==
    LET start == AllocateChallenges(AllocateOutputEvals(AllocateCommitted(EmptyChip, n_committed), n_outputs), n_challenges)
        grown[k \in 0 .. Len(layers)] ==
            IF k = 0 THEN start ELSE AddLayer(AllocateWits(grown[k - 1], widths[k][1], widths[k][2]), layers[k])
        opened[k \in 0 .. Len(openings)] ==
            IF k = 0 THEN grown[Len(layers)] ELSE AllocateOpening(opened[k - 1], openings[k][1], openings[k][2])
    IN  opened[Len(openings)]

Places(first, n) == [i \in 1 .. n |-> Single(first + i - 1)]

\* State before, state after, flag; outputs at 0 and 1, columns at 2 to 4.
RoundsCircuit ==
    Layered(3, 2, 0, <<<<3, 4>>>>,
        <<NewLayer("Zerocheck",
              <<Sub(WitIn(1), Add(Squared(WitIn(0)), WitIn(2))), BitOf(WitIn(2)), Add(WitIn(0), Times(WitIn(1), 4)), WitIn(1)>>,
              <<>>, Places(2, 3), <<Group(3, <<ZeroEval, ZeroEval>> \o Places(0, 2))>>,
              [eqs |-> <<4, 5, 6>>, pairs |-> <<<<0, 1>>>>, group_log2 |-> 5, subgroup_size |-> 23])>>,
        <<<<0, Single(2)>>, <<1, Single(3)>>, <<2, Single(4)>>>>)

\* Outputs at 0 and 1; chi at 2 and 3; d, s at 5 to 7; c at 9; x, y at 11 and 12.
TopLayer ==
    NewLayer("Zerocheck", <<Mul(WitIn(0), Sub(One, WitIn(1))), Add(WitIn(1), Constant(5))>>,
             <<>>, Places(2, 2), <<Group(2, Places(0, 2))>>, NoRotation)
ThetaLayer ==
    NewLayer("Zerocheck", <<Add(WitIn(0), Mul(WitIn(1), WitIn(2))), Sub(WitIn(2), WitIn(0))>>,
             <<>>, Places(5, 3), <<Group(3, Places(2, 2))>>, NoRotation)
SquareLayer == NewLayer("Zerocheck", <<Add(Squared(WitIn(0)), One)>>, <<>>, Places(9, 1), <<Group(1, Places(5, 1))>>, NoRotation)
\* c is a bit, under a challenge of the layer; the constraint first or last.
BitLayer(first) ==
    LET zero == Mul(Challenge(0, 1, 1, 0), BitOf(WitIn(0)))
        d    == Add(Squared(WitIn(0)), One)
    IN  NewLayer("Zerocheck", IF first THEN <<zero, d>> ELSE <<d, zero>>, <<Challenge(0, 1, 1, 0)>>, Places(9, 1),
                 <<Group(1, IF first THEN <<ZeroEval, Single(5)>> ELSE <<Single(5), ZeroEval>>)>>, NoRotation)
BottomLayer(groups) ==
    NewLayer("Zerocheck", <<Mul(WitIn(0), WitIn(1)), WitIn(0), WitIn(1)>>, <<>>, Places(11, 2), groups, NoRotation)

ParallelGroups == <<Group(2, Places(9, 1)), Group(3, Places(6, 2))>>
OneGroup == <<Group(2, Places(9, 1) \o Places(6, 2))>>

LayeredCircuit(third, groups) ==
    Layered(2, 2, 1, <<<<2, 1>>, <<3, 1>>, <<1, 1>>, <<2, Len(groups)>>>>,
            <<TopLayer, ThetaLayer, third, BottomLayer(groups)>>, <<<<0, Single(11)>>, <<1, Single(12)>>>>)

\* Output at 0, a and b at 1 and 2, x and y at 3 and 4.  The column of x is
\* committed as 3 x + c.
AffineCircuit(groups) ==
    Layered(2, 1, 1, <<<<2, 0>>, <<2, 1>>>>,
        <<NewLayer("Linear", <<Add(Add(Times(WitIn(0), 2), Times(WitIn(1), 3)), One)>>, <<>>, Places(1, 2), groups, NoRotation),
          NewLayer("Zerocheck", <<Squared(WitIn(0)), Add(Mul(WitIn(0), WitIn(1)), Challenge(0, 1, 2, 1))>>,
                   <<>>, Places(3, 2), <<Group(2, Places(1, 2))>>, NoRotation)>>,
        <<<<0, LinearOf(3, Constant(3), Challenge(0, 1, 1, 0))>>, <<1, Single(4)>>>>)

LinearGroup == <<[eq |-> 0, outs |-> Places(0, 1)]>>

\* A linear layer whose two claims are in two groups, and an output of parts.
TwoGroups ==
    Layered(1, 2, 0, <<<<1, 0>>>>,
        <<NewLayer("Linear", <<WitIn(0), Times(WitIn(0), 2)>>, <<>>, Places(2, 1),
                   <<Group(0, Places(0, 1)), Group(0, Places(1, 1))>>, NoRotation)>>, <<<<0, Single(2)>>>>)
PartitionOut ==
    Layered(1, 2, 1, <<<<1, 0>>>>,
        <<NewLayer("Linear", <<WitIn(0)>>, <<>>, Places(2, 1),
                   <<Group(0, <<Partition(Places(0, 2), <<<<0, Challenge(0, 1, 1, 0)>>>>)>>)>>, NoRotation)>>, <<<<0, Single(2)>>>>)
-----------------------------------------------------------------------------
(***************************************************************************)
(* Columns.                                                                *)
(***************************************************************************)
\* The row of a round is a power of X modulo X^5 + X^2 + 1.
TimesX(row) ==
    LET twice == 2 * row
    IN  IF twice < 32 THEN twice ELSE IF (twice \div 4) % 2 = 0 THEN twice - 32 + 1 + 4 ELSE twice - 32 + 1 - 4
RowOfRound ==
    LET row[i \in 1 .. 32] == IF i = 1 THEN 1 ELSE TimesX(row[i - 1])
    IN  [i \in 1 .. 32 |-> row[i]]

ASSUME CyclicRows == RowOfRound = CYCLIC_POW2_5

\* A chain of 24 rounds; wrong is a flag of two, a link that breaks, or a
\* link that breaks after the last round, which nothing forbids.
Rounds(start, wrong) ==
    LET flag(i) == IF wrong = "flag" /\ i = 5 THEN 2 ELSE (i + start) % 2
        state[i \in 1 .. 25] ==
            IF i = 1 THEN start
            ELSE LET was == state[i - 1]
                 IN  (was * was + flag(i - 1)
                        + (IF (wrong = "link" /\ i = 8) \/ (wrong = "beyond" /\ i = 25) THEN 1 ELSE 0)) % Prime
        last == IF wrong = "beyond" THEN 25 ELSE 24
        RowOf(i) == LET is == state[i] IN <<is, (is * is + flag(i)) % Prime, flag(i)>>
        Of(row) == IF \E i \in 1 .. last : RowOfRound[i] = row
                   THEN RowOf(CHOOSE i \in 1 .. last : RowOfRound[i] = row)
                   ELSE <<0, 0, 0>>
    IN  [c \in 1 .. 3 |-> [p \in 1 .. 32 |-> Of(p - 1)[c]]]

TwoChains(a, b) == [c \in 1 .. 3 |-> Rounds(a, "")[c] \o Rounds(b, "")[c]]

Run(circuit, committed, stream, excess) ==
    [circuit |-> circuit, committed |-> committed, known |-> <<7>>, stream |-> stream, excess |-> excess]

Stream(a, b) == [i \in 1 .. 90 |-> 4 + ((a * i * i + b * i) % 91)]

RoundsRuns(stream) ==
    {Run(RoundsCircuit, Rounds(start, wrong), stream, 0) : start \in {3, 10}, wrong \in {"", "flag", "link", "beyond"}}
    \cup {Run(RoundsCircuit, TwoChains(3, 20), stream, excess) : excess \in {0, 1}}

Bits == <<<<1, 0, 1, 0>>, <<1, 1, 0, 0>>>>
Words == <<<<3, 1, 4, 15>>, <<9, 2, 6, 53>>>>
LayeredRuns(stream) ==
    {Run(LayeredCircuit(third, groups), columns, stream, 0) :
        third \in {SquareLayer, BitLayer(FALSE), BitLayer(TRUE)}, groups \in {ParallelGroups, OneGroup}, columns \in {Bits, Words}}
    \cup {Run(LayeredCircuit(SquareLayer, ParallelGroups), Words, stream, 2)}

AffineRuns(stream) ==
    {Run(AffineCircuit(LinearGroup), columns, stream, excess) : columns \in {Bits, Words}, excess \in {0, 3}}

\* Bits of a state, of a lane.
Scattered(n, seed) == [i \in 1 .. n |-> ((i * i * (seed + 3) + (seed * i) \div 3 + seed) % 101) % 2]

KeccakRuns(stream) ==
    {Run(KeccakCircuit, KeccakWitness(states), stream, 0) :
        states \in {<<Scattered(STATE_SIZE, 1)>>, <<Scattered(STATE_SIZE, 1), Scattered(STATE_SIZE, 2)>>}}
    \cup {Run(KeccakCircuit, KeccakWitness(<<Scattered(STATE_SIZE, 1)>>), stream, 1)}

MCRuns ==
    UNION {RoundsRuns(s) \cup LayeredRuns(s) \cup AffineRuns(s) : s \in {Stream(5, 17), Stream(11, 6)}}
    \cup KeccakRuns(Stream(5, 17))
    \cup {Run(c, <<<<1, 2>>>>, Stream(5, 17), 0) : c \in {TwoGroups, PartitionOut}}

ASSUME LegalLayers == \A r \in MCRuns : \A k \in DOMAIN r.circuit.layers : LayerLegal(r.circuit.layers[k])

\* The two halves of a polynomial, interleaved, at a point that tells them
\* apart by its first coordinate.
ASSUME PartitionJoins ==
    LET f     == <<3, 1, 4, 15, 9, 2, 6, 53>>
        point == <<20, 30>>
        half(b) == [i \in 1 .. 4 |-> f[2 * i - 1 + b]]
        claim(b) == [point |-> point, eval |-> Evaluate(half(b), point)]
        joined == Partition(<<Single(0), Single(1)>>, <<<<0, Constant(41)>>>>)
        claims == <<claim(0), claim(1), [point |-> <<20, 31>>, eval |-> 0]>>
    IN  /\ EvaluationLegal(joined, claims, <<>>)
        /\ EvaluateAt(joined, claims, <<>>) = [point |-> <<41>> \o point, eval |-> Evaluate(f, <<41>> \o point)]
        /\ ~EvaluationLegal([joined EXCEPT !.parts[2] = Single(2)], claims, <<>>)
        /\ ~EvaluationLegal([joined EXCEPT !.indices = Append(@, <<1, Constant(2)>>)], claims, <<>>)
-----------------------------------------------------------------------------
(***************************************************************************)
(* The two circuits of keccak.                                             *)
(***************************************************************************)
Bytes == INSTANCE LookupKeccak
Bits64 == INSTANCE BitwiseKeccak WITH Z <- 64, ROUNDS <- 24

ScatteredState(seed) == [y \in 0 .. 4 |-> [x \in 0 .. 4 |-> Scattered(64, seed + 5 * y + x)]]

\* Putting the last chunks of a cut lane first turns the lane by delta, and the
\* equations of the rotation tell it from a lane turned by one more; each chunk
\* has at most the 16 bits of a range lookup.
ASSUME RotationsTurn ==
    \A delta \in {n \in 0 .. 63 : Bytes!Splits(n)} :
        LET lane   == Scattered(64, delta)
            sizes  == Bytes!SplitSizes(delta)
            chunks == Bytes!Cut(lane, sizes)
        IN  /\ Bytes!SumOf(sizes) = 64
            /\ \A k \in DOMAIN sizes : sizes[k] <= 16 \/ delta = 0
            /\ Bytes!LeftRotation(lane, chunks, Bytes!RotateLeft(lane, delta), delta)
            /\ ~Bytes!LeftRotation(lane, chunks, Bytes!RotateLeft(lane, delta + 1), delta)

FirstRow == Bytes!RoundRow(ScatteredState(1))
SecondRow == Bytes!RoundRow(FirstRow.iota)

\* The row a round is given is what the circuit states, with the columns and
\* the lookups the constants of the source count.
ASSUME RoundsAreStated ==
    /\ \A row \in {FirstRow, SecondRow} : Bytes!EquationsHold(row) /\ Bytes!LookupsHold(row)
    /\ Bytes!Follows(FirstRow, SecondRow)
    /\ Bytes!NumColumns(FirstRow) = 1464
    /\ 8 * Cardinality(Bytes!AndLookups(FirstRow)) = 200
    /\ 8 * Cardinality(Bytes!XorLookups(FirstRow)) = 608
    /\ Bytes!RangeLookupsOf(FirstRow) = 290

\* A row with one bit of one cell turned over, the state before it apart.
FlipOf(bits, b) == [bits EXCEPT ![b] = 1 - @]
FlippedRows(row) ==
    LET I == 0 .. 4 IN
    {[row EXCEPT !.c_aux[i][j] = FlipOf(@, 1 + 12 * i + j)] : i \in I, j \in I}
    \cup {[row EXCEPT !.c_temp[i][k] = FlipOf(@, 1)] : i \in I, k \in 1 .. 6}
    \cup {[row EXCEPT !.c_rot[i] = FlipOf(@, 1 + 12 * i)] : i \in I}
    \cup {[row EXCEPT !.d[i] = FlipOf(@, 64 - 12 * i)] : i \in I}
    \cup {[row EXCEPT !.theta[i][j] = FlipOf(@, 9 + 10 * i + j)] : i \in I, j \in I}
    \cup {[row EXCEPT !.chunks[i][j][k] = FlipOf(@, 1)] : i \in I, j \in I, k \in 1 .. 2}
    \cup {[row EXCEPT !.rhopi[i][j] = FlipOf(@, 64 - 10 * i - j)] : i \in I, j \in I}
    \cup {[row EXCEPT !.nonlinear[i][j] = FlipOf(@, 1 + 12 * j + i)] : i \in I, j \in I}
    \cup {[row EXCEPT !.iota[i][j] = FlipOf(@, 5 + 10 * i + j)] : i \in I, j \in I}
    \cup {[row EXCEPT !.chi = FlipOf(@, 64)]}

ASSUME EveryCellCounts ==
    \A row \in FlippedRows(FirstRow) : ~(Bytes!EquationsHold(row) /\ Bytes!LookupsHold(row))

\* The eight rows of an instance that are of no round satisfy the equations,
\* but their lookup for iota is not in the table: zero xor RC is zero.
ASSUME PaddingRows == Bytes!EquationsHold(Bytes!PaddingRow) /\ ~Bytes!LookupsHold(Bytes!PaddingRow)

\* The two circuits compute the same round: rho by a table of offsets and by a
\* walk over the lanes, lanes by bytes and by bits.
BitsOf(state) ==
    [i \in 1 .. Bits64!STATE_SIZE |-> state[Bits64!YOf(i - 1)][Bits64!XOf(i - 1)][Bits64!ZOf(i - 1) + 1]]
Values(exprs, bits) == [i \in DOMAIN exprs |-> Eval(exprs[i], EnvOf(bits, <<>>))]
BitRound(bits, round) ==
    LET c     == Values(Bits64!ExprsOf(320, LAMBDA i : Bits64!CExpr(i \div 64, i % 64)), bits)
        d     == Values(Bits64!ExprsOf(320, LAMBDA i : Bits64!DExpr(i \div 64, i % 64)), c)
        theta == Values(Bits64!StateExprs(Bits64!ThetaExpr), d \o bits)
        chi   == Values(Bits64!StateExprs(Bits64!ChiExpr), theta)
    IN  Values(Bits64!StateExprs(LAMBDA i : Bits64!IotaExpr(i, round)), chi)

ASSUME CircuitsAgree == BitRound(BitsOf(ScatteredState(1)), 1) = BitsOf(FirstRow.iota)
-----------------------------------------------------------------------------
\* Claims are evaluations.  Whatever the columns satisfy, each claim that
\* either side has placed for the columns of a layer, each claim of a rotation
\* (left, right and at the point) and each opening of a committed column is
\* the evaluation of that column at the claim's point: update_claims, the
\* derived right evaluation, and opening_evaluations (gkr.rs, gkr/layer.rs).
LayerClaimsHold(side) ==
    \A l \in 1 .. side.layer - 1 : \A j \in DOMAIN wits[l] :
        LET claim == side.claims[Circuit.layers[l].in_eval[j].i + 1]
        IN  claim.eval = Evaluate(wits[l][j], claim.point)

RotationClaimsHold(side) ==
    side.rotation # NoRotated =>
        \A k \in DOMAIN Layer(side).rotation.pairs, s \in 1 .. 3 :
            side.rotation.evals[3 * k - 3 + s]
                = Evaluate(wits[side.layer][Layer(side).rotation.pairs[k][IF s = 3 THEN 2 ELSE 1] + 1], side.rotation.points[s])

OpeningsHold(side) ==
    side.layer > NumLayers =>
        \A o \in DOMAIN Openings(side) :
            Openings(side)[o].value = Evaluate(run.committed[Openings(side)[o].poly + 1], Openings(side)[o].point)

ClaimsAreEvaluations ==
    stage \in {"prove", "verify", "done"} =>
        \A side \in {prover, verifier} : LayerClaimsHold(side) /\ RotationClaimsHold(side) /\ OpeningsHold(side)

\* What a proof is to show: the constraints are zero on every row, a rotated
\* column follows from round to round, and the caller claims the outputs; and
\* the claims of every group are at one point.
ConstraintsHold(l) ==
    LET layer == Circuit.layers[l]
    IN  \A e \in DOMAIN layer.exprs :
            OutsOf(layer)[e] = ZeroEval =>
                \A row \in DOMAIN wits[l][1] : Eval(layer.exprs[e], RowEnv(wits[l], row, prover.known)) = 0

RoundsLinked(l) ==
    LET rotation == Circuit.layers[l].rotation
        size     == Len(wits[l][1])
    IN  \A k \in DOMAIN rotation.pairs, p \in 0 .. size \div 32 - 1, i \in 1 .. rotation.subgroup_size :
            wits[l][rotation.pairs[k][1] + 1][32 * p + RowOfRound[i + 1] + 1]
                = wits[l][rotation.pairs[k][2] + 1][32 * p + RowOfRound[i] + 1]

WellGrouped(l) ==
    \A g \in DOMAIN Circuit.layers[l].groups :
        LET outs     == Circuit.layers[l].groups[g].outs
            PointOf(out) == EvaluateAt(out, prover.claims, prover.known).point
        IN  \A k \in DOMAIN outs : outs[k] = ZeroEval \/ PointOf(outs[k]) = PointOf(outs[1])

Satisfied ==
    run.excess = 0 /\ \A l \in 1 .. NumLayers : ConstraintsHold(l) /\ RoundsLinked(l) /\ WellGrouped(l)

\* What the code does not implement.
Unimplemented ==
    \/ Circuit \in {TwoGroups, PartitionOut}
    \/ Circuit = KeccakCircuit /\ NumVars(run.committed[1]) > 0

\* The verifier accepts exactly the proofs of what is satisfied, and nothing
\* panics but what is not implemented and sum checks of what is not satisfied
\* (GKRCircuit::prove and verify).
AcceptedIffSatisfied ==
    /\ stage = "done" => (verdict = "accepted" <=> Satisfied)
    /\ stage = "panicked" => Unimplemented \/ ~Satisfied
===============================================================================
