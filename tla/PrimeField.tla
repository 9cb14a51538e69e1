------------------------------ MODULE PrimeField ------------------------------
(***************************************************************************)
(* The field of the proof system, scaled down to the integers modulo       *)
(* Prime.  The code works over a base field and an extension of it; here   *)
(* both are the same field.  The arithmetic itself is that of p3::field;   *)
(* what is modelled from the source are the helpers built on it.           *)
(***************************************************************************)
EXTENDS Integers, Sequences

CONSTANT Prime

ASSUME PrimeAssumption ==
    Prime \in Nat /\ Prime > 2 /\ \A d \in 2 .. Prime - 1 : Prime % d # 0

Field == 0 .. Prime - 1

InverseOf == [x \in 1 .. Prime - 1 |-> CHOOSE y \in 1 .. Prime - 1 : (x * y) % Prime = 1]

PowerOf ==
    [x \in Field |->
        LET power[e \in 0 .. Prime - 2] ==
                IF e = 0 THEN 1
                ELSE LET half == power[e \div 2]
                         square == (half * half) % Prime
                     IN  IF e % 2 = 0 THEN square ELSE (square * x) % Prime
        IN  [e \in 0 .. Prime - 2 |-> power[e]]]

\* x to the power e, for x # 0 or e < Prime - 1.
Power(x, e) == PowerOf[x][e % (Prime - 1)]

PrimitiveRoot == CHOOSE x \in 1 .. Prime - 1 : \A e \in 1 .. Prime - 2 : Power(x, e) # 1

\* An element of order 2 ^ k, when 2 ^ k divides Prime - 1.
TwoAdicGenerator(k) == Power(PrimitiveRoot, (Prime - 1) \div 2 ^ k)

Total(s) ==
    LET sum[i \in 0 .. Len(s)] == IF i = 0 THEN 0 ELSE (sum[i - 1] + s[i]) % Prime
    IN  sum[Len(s)]

Product(s) ==
    LET prod[i \in 0 .. Len(s)] == IF i = 0 THEN 1 ELSE (prod[i - 1] * s[i]) % Prime
    IN  prod[Len(s)]

\* dot_product stops at the end of the shorter of its two iterators.
Dot(a, b) ==
    Total([i \in 1 .. (IF Len(a) < Len(b) THEN Len(a) ELSE Len(b)) |-> a[i] * b[i]])

\* 1, alpha, alpha ^ 2, ..., size of them.
ChallengePows(alpha, size) == [i \in 1 .. size |-> Power(alpha, i - 1)]
-----------------------------------------------------------------------------
\* The least k with 2 ^ k >= x.
CeilLog2(x) == CHOOSE k \in 0 .. x : 2 ^ k >= x /\ \A l \in 0 .. k - 1 : 2 ^ l < x

\* The n bits of i in the opposite order.
ReverseBits(i, n) ==
    LET rev[k \in 0 .. n] ==
            IF k = 0 THEN 0 ELSE 2 * rev[k - 1] + ((i \div 2 ^ (k - 1)) % 2)
    IN  rev[n]
===============================================================================
