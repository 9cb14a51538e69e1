------------------------------ MODULE BitwiseKeccak ------------------------------
(***************************************************************************)
(* The layered circuit of keccak on bits                                   *)
(* (gkr_iop/src/precompiles/bitwise_keccakf.rs).  A row is a state, a      *)
(* column a bit of it.  Each round has five layers, the last round first:  *)
(* iota; chi after rho and pi; the output of theta; its D; its C.          *)
(*                                                                         *)
(* Z, the bits of a lane, is 64 in the code, and ROUNDS is 24.             *)
(***************************************************************************)
EXTENDS GkrCircuit

CONSTANTS Z, ROUNDS

ASSUME KeccakSizes == Z \in {1, 2, 4, 8, 16, 32, 64} /\ ROUNDS \in 1 .. 24

STATE_SIZE == 25 * Z
C_SIZE == 5 * Z
D_SIZE == 5 * Z

XOf(i) == (i \div Z) % 5
YOf(i) == (i \div Z) \div 5
ZOf(i) == i % Z
FromXYZ(x, y, z) == Z * (5 * y + x) + z
FromXZ(x, z) == x * Z + z

\* The bits of the round constants that are set.
RC ==
    <<{0}, {1, 7, 15}, {1, 3, 7, 15, 63}, {15, 31, 63}, {0, 1, 3, 7, 15}, {0, 31}, {0, 7, 15, 31, 63}, {0, 3, 15, 63},
      {1, 3, 7}, {3, 7}, {0, 3, 15, 31}, {1, 3, 31}, {0, 1, 3, 7, 15, 31}, {0, 1, 3, 7, 63}, {0, 3, 7, 15, 63},
      {0, 1, 15, 63}, {1, 15, 63}, {7, 63}, {1, 3, 15}, {1, 3, 31, 63}, {0, 7, 15, 31, 63}, {7, 15, 63}, {0, 31},
      {3, 15, 31, 63}>>
-----------------------------------------------------------------------------
(***************************************************************************)
(* Expressions.                                                            *)
(***************************************************************************)
NotExpr(a) == Sub(One, a)
XorExpr(a, b) == Sub(Add(a, b), Mul(Mul(Constant(2), a), b))

CExpr(x, z) ==
    LET xor[n \in 0 .. 5] == IF n = 0 THEN Zero ELSE XorExpr(xor[n - 1], WitIn(FromXYZ(x, n - 1, z)))
    IN  xor[5]

DExpr(x, z) == XorExpr(WitIn(FromXZ((x + 4) % 5, z)), WitIn(FromXZ((x + 1) % 5, (z + Z - 1) % Z)))

\* D is before the state among the columns.
ThetaExpr(i) == XorExpr(WitIn(D_SIZE + i), WitIn(FromXZ(XOf(i), ZOf(i))))

\* The lanes in the order rho walks them, from (1, 0); (0, 0) stays.
Walk ==
    LET lane[t \in 0 .. 23] ==
            IF t = 0 THEN <<1, 0>> ELSE LET was == lane[t - 1] IN <<was[2], (2 * was[1] + 3 * was[2]) % 5>>
    IN  [t \in 1 .. 24 |-> lane[t - 1]]

Triangular(t) == (t * (t + 1)) \div 2

StepOf(i) == CHOOSE t \in 1 .. 24 : Walk[t] = <<XOf(i), YOf(i)>>

\* Where each bit comes from: a lane is turned by a triangular number.
Rho ==
    [i \in 0 .. STATE_SIZE - 1 |-> IF i < Z THEN i ELSE FromXYZ(XOf(i), YOf(i), (1000 * Z + ZOf(i) - Triangular(StepOf(i))) % Z)]

Pi == [i \in 0 .. STATE_SIZE - 1 |-> FromXYZ((XOf(i) + 3 * YOf(i)) % 5, XOf(i), ZOf(i))]

RhoAndPi == [i \in 0 .. STATE_SIZE - 1 |-> Rho[Pi[i]]]

\* chi on the permuted columns.
ChiExpr(i) ==
    LET Bit(x) == WitIn(RhoAndPi[FromXYZ((XOf(i) + x) % 5, YOf(i), ZOf(i))])
    IN  XorExpr(Bit(0), Mul(NotExpr(Bit(1)), Bit(2)))

IotaExpr(i, round) ==
    IF i < Z THEN XorExpr(WitIn(i), Constant(IF i \in RC[round] THEN 1 ELSE 0)) ELSE WitIn(i)

ExprsOf(n, Expr(_)) == [i \in 1 .. n |-> Expr(i - 1)]
StateExprs(Expr(_)) == ExprsOf(STATE_SIZE, Expr)
-----------------------------------------------------------------------------
(***************************************************************************)
(* The circuit.  A step adds a layer of n columns and as many eqs as it    *)
(* has groups of outputs; below it, its columns are the outputs.           *)
(***************************************************************************)
StepLayer(step, n, exprs, outs) ==
    [chip |-> AddLayer(AllocateWits(step.chip, n, Len(outs)),
                  NewLayer("Zerocheck", exprs, <<>>, NextEvals(step.chip, n),
                           [g \in DOMAIN outs |-> [eq |-> n + g - 1, outs |-> outs[g]]], NoRotation)),
     outs |-> NextEvals(step.chip, n)]

IotaLayer(step, round) == StepLayer(step, STATE_SIZE, StateExprs(LAMBDA i : IotaExpr(i, round)), <<step.outs>>)
ChiLayer(step) == StepLayer(step, STATE_SIZE, StateExprs(ChiExpr), <<step.outs>>)
OutputLayer(step) == StepLayer(step, D_SIZE + STATE_SIZE, StateExprs(ThetaExpr), <<step.outs>>)

\* D is made from C, and the state is copied past it.
DLayer(step) ==
    StepLayer(step, C_SIZE, ExprsOf(D_SIZE, LAMBDA i : DExpr(i \div Z, i % Z)), <<SubSeq(step.outs, 1, D_SIZE)>>)
CLayer(step, copied) ==
    StepLayer(step, STATE_SIZE, ExprsOf(C_SIZE, LAMBDA i : CExpr(i \div Z, i % Z)) \o StateExprs(WitIn), <<step.outs, copied>>)

RoundLayers(step, round) ==
    LET theta == OutputLayer(ChiLayer(IotaLayer(step, round)))
    IN  CLayer(DLayer(theta), SubSeq(theta.outs, D_SIZE + 1, D_SIZE + STATE_SIZE))

KeccakCircuit ==
    LET committed == AllocateCommitted(EmptyChip, STATE_SIZE)
        start     == [chip |-> AllocateOutputEvals(committed, STATE_SIZE), outs |-> NextEvals(committed, STATE_SIZE)]
        step[r \in 0 .. ROUNDS] == IF r = 0 THEN start ELSE RoundLayers(step[r - 1], ROUNDS + 1 - r)
        opened[i \in 0 .. STATE_SIZE] ==
            IF i = 0 THEN step[ROUNDS].chip ELSE AllocateOpening(opened[i - 1], i - 1, step[ROUNDS].outs[i])
    IN  opened[STATE_SIZE]

\* keccak_witness: one column for each bit, one row for each state.
KeccakWitness(states) == [i \in 1 .. STATE_SIZE |-> [s \in DOMAIN states |-> states[s][i]]]
===============================================================================
