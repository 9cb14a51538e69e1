------------------------------ MODULE MCExpressions ------------------------------
(***************************************************************************)
(* Expressions built one operation at a time out of a witness, a fixed     *)
(* column, a constant and two powers of a challenge, beside the value they *)
(* are to have.                                                            *)
(***************************************************************************)
EXTENDS Expressions

CONSTANT MaxOperations

VARIABLES expr, value, operations

vars == <<expr, value, operations>>

Env == [wit |-> <<3>>, struct |-> <<>>, fixed |-> <<5>>, inst |-> <<>>, chal |-> <<7>>]

Leaves == {WitIn(0), Fixed(0), Constant(2), Challenge(0, 1, 1, 0), Challenge(0, 2, 3, 4)}

Init ==
    /\ expr \in Leaves
    /\ value = Eval(expr, Env)
    /\ operations = 0

Becomes(e, v) == expr' = e /\ value' = v % Prime /\ operations' = operations + 1

Negate == operations < MaxOperations /\ Becomes(Neg(expr), -value)

Combined ==
    /\ operations < MaxOperations
    /\ \E leaf \in Leaves :
          LET other == Eval(leaf, Env)
          IN  \/ Becomes(Add(expr, leaf), value + other)
              \/ Becomes(Add(leaf, expr), value + other)
              \/ Becomes(Mul(expr, leaf), value * other)
              \/ Becomes(Mul(leaf, expr), value * other)
              \/ Becomes(Sub(expr, leaf), value - other)
              \/ Becomes(Sub(leaf, expr), other - value)

Next == Negate \/ Combined

Spec == Init /\ [][Next]_vars
-----------------------------------------------------------------------------
\* An expression has the value its operations give, however they simplify it;
\* the arms of Sub are headed by the difference they are to build, the one at
\* expression.rs:565 by "constant - challenge".
OperationsKeepValue == Eval(expr, Env) = value
=================================================================================
