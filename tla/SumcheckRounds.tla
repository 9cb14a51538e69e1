---------------------------- MODULE SumcheckRounds ----------------------------
(***************************************************************************)
(* The arithmetic of the sum check (sumcheck/src, sumcheck_macro/src): the *)
(* round message of a prover, the binding of a variable, the merging of    *)
(* the provers of the threads, and the check of a proof.  When they run    *)
(* and how the threads meet is DistributedSumcheck.                        *)
(*                                                                         *)
(* A prover is [main, round, maxVars, phase2, mles, meta, terms]: whether  *)
(* it is the main worker, the rounds it has begun, the variables it binds, *)
(* those left to the merged prover, and its virtual polynomial.            *)
(***************************************************************************)
EXTENDS MultilinearExtensions

Monus(a, b) == IF a > b THEN a - b ELSE 0

LargestEvenBelow(n) == IF n % 2 = 0 THEN n ELSE Monus(n, 1)

\* One thread for each MinVarsPerThread variables of the claim, up to the pool.
OptimalSumcheckThreads(numVars, minVarsPerThread, pool) ==
    IF numVars <= minVarsPerThread
    THEN 1
    ELSE LET wanted == 2 ^ (numVars - minVarsPerThread)
             usable == MaxUsableThreads(pool)
         IN  IF wanted < usable THEN wanted ELSE usable
-----------------------------------------------------------------------------
(***************************************************************************)
(* Univariate polynomials, given by their values at 0, 1, ..., degree.     *)
(***************************************************************************)
BaryWeight(j, d) ==
    InverseOf[Product([i \in 1 .. d |-> IF i - 1 < j THEN j - (i - 1) ELSE j - i])]

\* The coefficients of the values at 0 .. d in the value at z > d, the second
\* barycentric form (ExtrapolationTable).
TableWeights(d, z) ==
    LET t   == [j \in 1 .. d + 1 |-> (BaryWeight(j - 1, d) * InverseOf[(z - (j - 1)) % Prime]) % Prime]
        den == Total(t)
    IN  [j \in 1 .. d + 1 |-> (t[j] * InverseOf[den]) % Prime]

\* The values up to size - 1 of a polynomial known at 0 .. Len(known) - 1.
ExtrapolateFromTable(known, size) ==
    [i \in 1 .. size |->
        IF i <= Len(known) THEN known[i] ELSE Dot(TableWeights(Len(known) - 1, i - 1), known)]

\* The value at r, the first barycentric form: r must not be a node.
ExtrapolateUniPoly(p, r) ==
    LET l == Product([j \in 1 .. Len(p) |-> r - (j - 1)])
    IN  (l * Total([j \in 1 .. Len(p) |->
                      BaryWeight(j - 1, Len(p) - 1) * p[j] * InverseOf[(r - (j - 1)) % Prime]])) % Prime
-----------------------------------------------------------------------------
ProverInit(main, poly, phase2) ==
    [main |-> main, round |-> 0, maxVars |-> poly.maxVars, phase2 |-> phase2,
     mles |-> poly.mles, meta |-> poly.meta, terms |-> poly.terms]

ExpectedNumvarsAtRound(p) == p.maxVars + 1 - p.round

\* A mutant of FixVar: a polynomial is bound as soon as there is a challenge.
FixVarAlways(p, r) ==
    [p EXCEPT !.mles =
        [i \in DOMAIN @ |->
            IF NumVars(@[i]) > 0 /\ p.meta[i] = "Normal" THEN FixVariable(@[i], r) ELSE @[i]]]

\* Binds the polynomials that have reached the size of the round; a smaller
\* one waits until the last variables, which are its own, are bound.
FixVar(p, r) ==
    [p EXCEPT !.mles =
        [i \in DOMAIN @ |->
            IF NumVars(@[i]) = ExpectedNumvarsAtRound(p) /\ p.meta[i] = "Normal"
            THEN FixVariable(@[i], r)
            ELSE @[i]]]

\* The factors of a term; the code sorts them by the field they are over,
\* which changes nothing in their product.
Factors(p, term) == [j \in DOMAIN term.product |-> p.mles[term.product[j]]]

\* The product at x on the line through the rows b and b + 1.
ProductAt(v, b, x) ==
    Product([j \in DOMAIN v |->
        IF x = 0 THEN v[j][b] ELSE v[j][b + 1] + (x - 1) * (v[j][b + 1] - v[j][b])])

\* What the factors v of a term add to the round message at 0 .. its degree.
\* A polynomial the round does not reach is summed whole, once for each value
\* of the variables it does not have.
FactorsMessage(p, meta, v, numVar, expected) ==
    LET Whole(m) == (2 ^ m * Total([b \in 1 .. LargestEvenBelow(Len(v[1])) |-> ProductAt(v, b, 0)])) % Prime
        Flat(s)  == [x \in 1 .. Len(v) + 1 |-> s]
    IN  IF meta = "Phase2Only"
        THEN Flat(IF p.main THEN Whole(Monus(Monus(expected + p.phase2, 1), numVar)) ELSE 0)
        ELSE IF numVar < expected
        THEN Flat(Whole(Monus(Monus(expected, 1), numVar)))
        ELSE IF Len(v[1]) = 1
        THEN Flat(ProductAt(v, 1, 0))
        ELSE [x \in 1 .. Len(v) + 1 |->
                 Total([k \in 1 .. LargestEvenBelow(Len(v[1])) \div 2 |->
                           ProductAt(v, 2 * k - 1, x - 1)])]

TermMessage(p, term) ==
    FactorsMessage(p, p.meta[term.product[1]], Factors(p, term),
                   NumVars(p.mles[term.product[1]]), ExpectedNumvarsAtRound(p))

\* A message of a term under its scalar, at 0 .. size - 1.
ScaledMessage(message, scalar, size) ==
    ExtrapolateFromTable([x \in DOMAIN message |-> (scalar * message[x]) % Prime], size)

AddMessages(messages, size) == [x \in 1 .. size |-> Total([k \in DOMAIN messages |-> messages[k][x]])]

RoundMessage(p) ==
    AddMessages([k \in DOMAIN p.terms |->
                    ScaledMessage(TermMessage(p, p.terms[k]), p.terms[k].scalar, MaxDegree(p.terms) + 1)],
                MaxDegree(p.terms) + 1)

\* prove_round_and_update_state, with no challenge in the first round.
ProveRound(p, challenge) ==
    [(IF p.round > 0 THEN FixVar(p, challenge[1]) ELSE p) EXCEPT !.round = @ + 1]

\* The message of all the threads.
SumOfMessages(provers, size) == AddMessages([t \in DOMAIN provers |-> RoundMessage(provers[t])], size)

\* merge_sumcheck_prover_state: the slices of a large polynomial follow one
\* another, each value of a small one is repeated for the variables it lacks.
MergeProvers(provers) ==
    LET first  == provers[1]
        logLen == CeilLog2(Len(provers))
        normal == {i \in DOMAIN first.mles : first.meta[i] = "Normal"}
        merged == IF normal # {}
                  THEN NumVars(first.mles[CHOOSE i \in normal : \A j \in normal : i <= j]) + logLen
                  ELSE CHOOSE n \in {NumVars(first.mles[i]) : i \in DOMAIN first.mles} :
                           \A i \in DOMAIN first.mles : NumVars(first.mles[i]) <= n
        Slices(i) == LET size == Len(first.mles[i])
                     IN  [k \in 1 .. size * Len(provers) |->
                             provers[(k - 1) \div size + 1].mles[i][((k - 1) % size) + 1]]
        Blown(i)  == LET factor == 2 ^ (merged - NumVars(first.mles[i]))
                     IN  [k \in 1 .. 2 ^ merged |-> first.mles[i][(k - 1) \div factor + 1]]
    IN  [mles    |-> [i \in DOMAIN first.mles |-> IF i \in normal THEN Slices(i) ELSE Blown(i)],
         meta    |-> [i \in DOMAIN first.mles |-> "Normal"],
         terms   |-> first.terms,
         maxVars |-> merged]
-----------------------------------------------------------------------------
\* check_and_generate_subclaim: the messages sum to what the one before
\* evaluates to, the first one to the claim; a claim without a variable is
\* its own subclaim.
ExpectedVec(claim, msgs, point) ==
    [i \in 1 .. Len(msgs) + 1 |->
        IF i = 1 THEN claim ELSE ExtrapolateUniPoly(msgs[i - 1], point[i - 1])]

MessagesConsistent(claim, msgs, point, degree) ==
    \A i \in DOMAIN msgs :
        /\ Len(msgs[i]) = degree + 1
        /\ (msgs[i][1] + msgs[i][2]) % Prime = ExpectedVec(claim, msgs, point)[i]

Subclaim(claim, msgs, point) == ExpectedVec(claim, msgs, point)[Len(msgs) + 1]
===============================================================================
