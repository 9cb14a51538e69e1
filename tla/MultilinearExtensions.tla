------------------------- MODULE MultilinearExtensions -------------------------
(***************************************************************************)
(* Multilinear polynomials and virtual polynomials over them               *)
(* (multilinear_extensions/src).  A multilinear polynomial is the sequence *)
(* of its evaluations over the hypercube; the first variable is the lowest *)
(* bit of the position.  A virtual polynomial is a sum of scaled products  *)
(* of polynomials with the same number of variables each; its polynomials  *)
(* are cut among the threads of the sum check.                             *)
(***************************************************************************)
EXTENDS PrimeField, FiniteSets

NumVars(mle) == CeilLog2(Len(mle))

\* The first variable bound to r (fix_variables with a point of one element).
FixVariable(mle, r) ==
    [i \in 1 .. Len(mle) \div 2 |->
        (mle[2 * i - 1] + r * (mle[2 * i] - mle[2 * i - 1])) % Prime]

\* The variables bound from the first one on.
FixVariables(mle, point) ==
    LET bound[i \in 0 .. Len(point)] ==
            IF i = 0 THEN mle ELSE FixVariable(bound[i - 1], point[i])
    IN  bound[Len(point)]

Evaluate(mle, point) == FixVariables(mle, point)[1]
-----------------------------------------------------------------------------
\* eq(x, y), the product of x_i y_i + (1 - x_i)(1 - y_i).
EqEval(x, y) ==
    Product([i \in DOMAIN x |-> 2 * x[i] * y[i] - x[i] - y[i] + 1])

\* The evaluations of scalar * eq(., r), doubled from the last coordinate on.
BuildEqSequential(r, scalar) ==
    LET buf[i \in 1 .. Len(r) + 1] ==
            IF i = Len(r) + 1
            THEN <<scalar>>
            ELSE LET prev == buf[i + 1]
                 IN  [k \in 1 .. 2 * Len(prev) |->
                         LET low == prev[(k + 1) \div 2]
                             tmp == (r[i] * low) % Prime
                         IN  IF k % 2 = 0 THEN tmp ELSE (low - tmp) % Prime]
    IN  buf[1]

\* build_eq_x_r_vec: the last coordinates choose the chunk of a thread.
BuildEq(r, threads) ==
    LET nbits == CeilLog2(threads)
        low   == Len(r) - nbits
        eqTs  == BuildEqSequential(SubSeq(r, low + 1, Len(r)), 1)
        chunk == [t \in 1 .. threads |-> BuildEqSequential(SubSeq(r, 1, low), eqTs[t])]
    IN  IF Len(r) < nbits
        THEN BuildEqSequential(r, 1)
        ELSE [i \in 1 .. 2 ^ Len(r) |-> chunk[(i - 1) \div 2 ^ low + 1][((i - 1) % 2 ^ low) + 1]]
-----------------------------------------------------------------------------
(***************************************************************************)
(* Virtual polynomials.  A term is [scalar, product], its product the      *)
(* positions of its factors among the registered polynomials.              *)
(***************************************************************************)
\* The largest power of two that fits the threads of the pool.
MaxUsableThreads(pool) == CHOOSE t \in {2 ^ k : k \in 0 .. pool} : t <= pool /\ pool < 2 * t

PolyMeta(mle, threads) == IF NumVars(mle) > CeilLog2(threads) THEN "Normal" ELSE "Phase2Only"

\* The t-th slice of a large polynomial, the whole of a small one.
ViewOf(mle, threads, t) ==
    LET size == Len(mle) \div threads
    IN  IF PolyMeta(mle, threads) = "Normal"
        THEN SubSeq(mle, size * (t - 1) + 1, size * t)
        ELSE mle

\* add_monomial_terms asserts that a product is not empty and is of one size.
WellFormed(mles, terms) ==
    \A k \in DOMAIN terms :
        /\ terms[k].product # <<>>
        /\ Cardinality({NumVars(mles[i]) : i \in {terms[k].product[j] : j \in DOMAIN terms[k].product}}) = 1

MaxDegree(terms) ==
    CHOOSE d \in {Len(terms[k].product) : k \in DOMAIN terms} :
        \A k \in DOMAIN terms : Len(terms[k].product) <= d

\* The virtual polynomial of each thread.
VirtualPolys(threads, maxVars, mles, terms) ==
    [t \in 1 .. threads |->
        [mles    |-> [i \in DOMAIN mles |-> ViewOf(mles[i], threads, t)],
         meta    |-> [i \in DOMAIN mles |-> PolyMeta(mles[i], threads)],
         terms   |-> terms,
         maxVars |-> maxVars - CeilLog2(threads)]]

\* The value at a point of which each polynomial reads the last coordinates
\* (evaluate_slow).
EvaluateSlow(mles, terms, point) ==
    LET evals == [i \in DOMAIN mles |->
                     Evaluate(mles[i], SubSeq(point, Len(point) - NumVars(mles[i]) + 1, Len(point)))]
    IN  Total([k \in DOMAIN terms |->
                  terms[k].scalar * Product([j \in DOMAIN terms[k].product |->
                                                evals[terms[k].product[j]]])])
===============================================================================
