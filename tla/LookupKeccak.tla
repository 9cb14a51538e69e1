------------------------------ MODULE LookupKeccak ------------------------------
(***************************************************************************)
(* The circuit of keccak on bytes (gkr_iop/src/precompiles/                *)
(* lookup_keccakf.rs, utils.rs).  A row is a round: the state before it,   *)
(* what its steps compute, and the state after it; the rotation of         *)
(* GkrCircuit ties a row to the next.  What a row states is checked by     *)
(* lookups of bytes and by equations between two cuts of a lane.           *)
(*                                                                         *)
(* A cell is the sequence of its bits, the least significant first, a lane *)
(* the 64 bits of its eight cells.  A lookup of a lane stands for those of *)
(* its eight bytes.  States are indexed [y][x], from zero on.              *)
(***************************************************************************)
EXTENDS Integers, FiniteSets, Sequences

LOCAL INSTANCE SequencesExt

I5 == 0 .. 4
Lanes5(Lane(_, _)) == [y \in I5 |-> [x \in I5 |-> Lane(y, x)]]

Xor(a, b) == [i \in 1 .. 64 |-> (a[i] + b[i]) % 2]
And(a, b) == [i \in 1 .. 64 |-> a[i] * b[i]]
Not(a) == [i \in 1 .. 64 |-> 1 - a[i]]
RotateLeft(a, n) == [i \in 1 .. 64 |-> a[((i - 1 - n) % 64) + 1]]

\* MaskRepresentation::convert: the same bits cut into the sizes.
SumOf(sizes) == FoldSeq(LAMBDA a, b : a + b, 0, sizes)
Cut(bits, sizes) ==
    [k \in DOMAIN sizes |-> SubSeq(bits, SumOf(SubSeq(sizes, 1, k - 1)) + 1, SumOf(SubSeq(sizes, 1, k)))]

RC0 == [i \in 1 .. 64 |-> IF i = 1 THEN 1 ELSE 0]
ZeroLane == [i \in 1 .. 64 |-> 0]

\* By y, then x.
ROTATION_CONSTANTS ==
    <<<<0, 1, 62, 28, 27>>, <<36, 44, 6, 55, 20>>, <<3, 10, 43, 25, 39>>, <<41, 45, 15, 21, 8>>, <<18, 2, 61, 56, 14>>>>
OffsetOf(y, x) == ROTATION_CONSTANTS[y + 1][x + 1]
-----------------------------------------------------------------------------
(***************************************************************************)
(* Rotation by cutting: a lane is cut so that some of the last chunks have *)
(* delta bits; putting them first turns the lane.                          *)
(***************************************************************************)
\* The code stops at a half of the lane (size < 32).
Splits(delta) == delta % 64 # 32

Halves(delta) ==
    IF delta < 32 THEN <<32 - delta, delta, 32 - delta, delta>> ELSE <<64 - delta, delta - 32, 64 - delta, delta - 32>>

SplitSizes(delta) ==
    IF delta % 64 = 0
    THEN <<32, 32>>
    ELSE FlattenSeq([k \in 1 .. 4 |->
             LET size == Halves(delta % 64)[k] IN IF size <= 16 THEN <<size>> ELSE <<16, size - 16>>])

\* How many of the last chunks are turned.
SplitSuffix(delta) ==
    LET sizes == SplitSizes(delta)
    IN  IF delta % 64 = 0 THEN 0
        ELSE CHOOSE i \in 1 .. Len(sizes) : SumOf(SubSeq(sizes, Len(sizes) + 1 - i, Len(sizes))) = delta % 64

\* rotate_right
TurnedChunks(chunks, n) == SubSeq(chunks, Len(chunks) + 1 - n, Len(chunks)) \o SubSeq(chunks, 1, Len(chunks) - n)

\* Each half of the chunks is the half of the lane, as numbers of 32 bits.
SameHalves(lane, chunks) ==
    LET half == Len(chunks) \div 2
    IN  \A h \in 0 .. 1 :
            SubSeq(lane, 32 * h + 1, 32 * h + 32) = FlattenSeq(SubSeq(chunks, half * h + 1, half * h + half))

\* constrain_left_rotation64
LeftRotation(lane, chunks, rotated, delta) ==
    /\ SameHalves(lane, chunks)
    /\ SameHalves(rotated, TurnedChunks(chunks, SplitSuffix(delta)))

\* lookup_range: one lookup for 16 bits, two for less, none for 32.
RangeLookups(sizes) == SumOf([k \in DOMAIN sizes |-> IF sizes[k] = 32 THEN 0 ELSE IF sizes[k] = 16 THEN 1 ELSE 2])
-----------------------------------------------------------------------------
(***************************************************************************)
(* The row of a round (phase1_witness_group).                              *)
(***************************************************************************)
\* The steps of theta up to D.
ThetaOf(state) ==
    LET aux[i \in I5, j \in I5] == IF j = 0 THEN state[0][i] ELSE Xor(state[j][i], aux[i, j - 1])
        c == [x \in I5 |-> aux[x, 4]]
    IN  [c_aux |-> [i \in I5 |-> [j \in I5 |-> aux[i, j]]],
         c_temp |-> [x \in I5 |-> Cut(c[x], SplitSizes(1))],
         c_rot |-> [x \in I5 |-> RotateLeft(c[x], 1)],
         d |-> [x \in I5 |-> Xor(c[(x + 4) % 5], RotateLeft(c[(x + 1) % 5], 1))]]

\* The lane that pi brings to [a][b].
SourceX(a, b) == CHOOSE x \in I5 : (2 * x + 3 * b) % 5 = a
RhoPiOf(theta) == Lanes5(LAMBDA a, b : RotateLeft(theta[b][SourceX(a, b)], OffsetOf(b, SourceX(a, b))))

NonlinearOf(b) == Lanes5(LAMBDA y, x : And(Not(b[y][(x + 1) % 5]), b[y][(x + 2) % 5]))

\* The constant of the first round in every round, as the source has it.
IotaOf(chi) == [chi EXCEPT ![0][0] = Xor(@, RC0)]

RowFrom(state, first, theta, rhopi, nonlinear, chi) ==
    [input |-> state, c_aux |-> first.c_aux, c_temp |-> first.c_temp, c_rot |-> first.c_rot, d |-> first.d,
     theta |-> theta,
     chunks |-> [x \in I5 |-> [y \in I5 |-> Cut(theta[y][x], SplitSizes(OffsetOf(y, x)))]],
     rhopi |-> rhopi, nonlinear |-> nonlinear, chi |-> chi[0][0], iota |-> IotaOf(chi)]

RoundRow(state) ==
    LET first == ThetaOf(state)
        theta == Lanes5(LAMBDA y, x : Xor(state[y][x], first.d[x]))
        rhopi == RhoPiOf(theta)
        nonlinear == NonlinearOf(rhopi)
    IN  RowFrom(state, first, theta, rhopi, nonlinear, Lanes5(LAMBDA y, x : Xor(nonlinear[y][x], rhopi[y][x])))

\* The row of no round.
PaddingRow == LET zeros == Lanes5(LAMBDA y, x : ZeroLane) IN [RoundRow(zeros) EXCEPT !.iota = zeros]

\* Cells of a row.
NumColumns(row) ==
    8 * (6 * 25 + 2 * 5 + 1)
      + SumOf([i \in 1 .. 5 |-> Len(row.c_temp[i - 1])])
      + SumOf([n \in 1 .. 25 |-> Len(row.chunks[(n - 1) % 5][(n - 1) \div 5])])
-----------------------------------------------------------------------------
(***************************************************************************)
(* What the circuit states of a row (build_gkr_phase).                     *)
(***************************************************************************)
\* After chi a lane is in the output, but for the one iota changes.
ChiLane(row, y, x) == IF y = 0 /\ x = 0 THEN row.chi ELSE row.iota[y][x]

Lookup(of, a, b, c) == [of |-> of, a |-> a, b |-> b, c |-> c]

XorLookups(row) ==
    {Lookup(<<"c_aux", i, j>>, row.c_aux[i][j - 1], row.input[j][i], row.c_aux[i][j]) : i \in I5, j \in 1 .. 4}
    \cup {Lookup(<<"d", i, 0>>, row.c_aux[(i + 4) % 5][4], row.c_rot[(i + 1) % 5], row.d[i]) : i \in I5}
    \cup {Lookup(<<"theta", j, i>>, row.input[j][i], row.d[i], row.theta[j][i]) : i \in I5, j \in I5}
    \cup {Lookup(<<"chi", j, i>>, row.rhopi[j][i], row.nonlinear[j][i], ChiLane(row, j, i)) : i \in I5, j \in I5}
    \cup {Lookup(<<"iota", 0, 0>>, row.chi, RC0, row.iota[0][0])}

AndLookups(row) ==
    {Lookup(<<"nonlinear", j, i>>, Not(row.rhopi[j][(i + 1) % 5]), row.rhopi[j][(i + 2) % 5], row.nonlinear[j][i]) :
        i \in I5, j \in I5}

LookupsHold(row) ==
    /\ \A l \in XorLookups(row) : l.c = Xor(l.a, l.b)
    /\ \A l \in AndLookups(row) : l.c = And(l.a, l.b)

\* The constraints that are to be zero.
EquationsHold(row) ==
    /\ \A i \in I5 : row.c_aux[i][0] = row.input[0][i]
    /\ \A i \in I5 : LeftRotation(row.c_aux[i][4], row.c_temp[i], row.c_rot[i], 1)
    /\ \A i \in I5, j \in I5 :
            LeftRotation(row.theta[j][i], row.chunks[i][j], row.rhopi[(2 * i + 3 * j) % 5][j], OffsetOf(j, i))

RangeLookupsOf(row) ==
    5 * RangeLookups(SplitSizes(1))
      + SumOf([n \in 1 .. 25 |-> RangeLookups(SplitSizes(OffsetOf((n - 1) % 5, (n - 1) \div 5)))])

\* rotation: the state after a round is the state before the next.
Follows(row, next) == next.input = row.iota
===============================================================================
