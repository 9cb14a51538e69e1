-------------------------------- MODULE Basefold --------------------------------
(***************************************************************************)
(* The polynomial commitment of the zkVM (mpcs/src/basefold): matrices of  *)
(* several circuits are encoded and committed together, and opened each at *)
(* a point of its own.  A circuit has witness columns and maybe fixed ones *)
(* committed apart.  The opening is a sum check of the batched polynomials *)
(* interleaved with the folding of their codewords; codewords of smaller   *)
(* circuits join the folding when it has come down to their size.          *)
(*                                                                         *)
(* A Merkle tree is the sequence of its matrices and its digest stands for *)
(* them: hashing is taken as injective.  A codeword is the sequence of its *)
(* positions in bit-reversed order; two neighbours share a leaf.  The      *)
(* transcript is the sequence of what was absorbed and sampled; a sample   *)
(* depends on nothing but what came before it.                             *)
(***************************************************************************)
EXTENDS SumcheckRounds

CONSTANTS
    RateLog,            \* get_rate_log
    BasecodeMsgSizeLog, \* get_basecode_msg_size_log, 7 in RSCodeDefaultSpec
    MinVarsPerThread,   \* 4 in optimal_sumcheck_threads
    NumQueries,         \* get_number_queries, 100 in RSCodeDefaultSpec
    Challenges,         \* bound: the values a challenge takes
    Instances           \* bound: the committed circuits, pools and points

ASSUME BasefoldAssumption ==
    /\ RateLog \in Nat \ {0} /\ BasecodeMsgSizeLog \in Nat /\ NumQueries \in Nat \ {0}
    /\ Challenges \subseteq 3 .. Prime - 1

VARIABLES
    pc,          \* the step of the opening, then of its verification
    inst,        \* [circuits, pool]; a circuit is [witin, fixed, point]
    comms,       \* [witin, fixed], the two commitments with their data
    transcript,  \* of the prover
    open,        \* the running state of batch_commit_phase
    proof,       \* BasefoldProof
    verifier     \* the verifier's transcript and the challenges it holds

vars == <<pc, inst, comms, transcript, open, proof, verifier>>
-----------------------------------------------------------------------------
(***************************************************************************)
(* The Reed-Solomon code.                                                  *)
(***************************************************************************)
BitReversed(word) ==
    LET n == CeilLog2(Len(word))
    IN  [i \in DOMAIN word |-> word[ReverseBits(i - 1, n) + 1]]

\* The message, padded with zeros, read as coefficients and evaluated at the
\* powers of a root of unity.
Encode(msg) ==
    LET size == Len(msg) * 2 ^ RateLog
        g    == TwoAdicGenerator(CeilLog2(size))
    IN  BitReversed([i \in 1 .. size |->
            Total([j \in DOMAIN msg |-> msg[j] * Power(g, (i - 1) * (j - 1))])])

\* t_inv_halves[level], 1 / 2 g^i in bit-reversed order; none below the base code.
ProverFoldingCoeffsLevel(level) ==
    IF level < BasecodeMsgSizeLog
    THEN <<>>
    ELSE LET g == TwoAdicGenerator(level + 1)
         IN  BitReversed([i \in 1 .. 2 ^ level |-> InverseOf[(2 * Power(g, i - 1)) % Prime]])

VerifierFoldingCoeffs(level, index) ==
    LET gInv == InverseOf[TwoAdicGenerator(level + 1)]
    IN  (Power(gInv, ReverseBits(index, level)) * InverseOf[2]) % Prime

CodewordFold(left, right, r, coeff) ==
    LET lo == (left + right) * InverseOf[2]
        hi == (left - right) * coeff
    IN  (lo + r * (hi - lo)) % Prime
-----------------------------------------------------------------------------
(***************************************************************************)
(* Trees.  A matrix is the sequence of its positions, each the tuple of    *)
(* the columns' values there; row k of a codeword is the pair of positions *)
(* 2k and 2k + 1.                                                          *)
(***************************************************************************)
Height(matrix) == Len(matrix) \div 2
MaxHeight(tree) == CHOOSE h \in {Height(tree[m]) : m \in DOMAIN tree} :
                      \A m \in DOMAIN tree : Height(tree[m]) <= h

\* open_batch: the row of each matrix, the index cut down to its height.
OpenBatch(tree, index) ==
    [m \in DOMAIN tree |->
        LET row == index \div (MaxHeight(tree) \div Height(tree[m]))
        IN  <<tree[m][2 * row + 1], tree[m][2 * row + 2]>>]

Dimensions(tree) == [m \in DOMAIN tree |-> <<Len(tree[m][1]) * 2, Height(tree[m])>>]

VerifyBatch(tree, dims, index, rows) ==
    /\ dims = Dimensions(tree)
    /\ index < MaxHeight(tree)
    /\ rows = OpenBatch(tree, index)
-----------------------------------------------------------------------------
(***************************************************************************)
(* Commitment.  columns[i] is the matrix of circuit i, the sequence of its *)
(* columns, <<>> for a circuit that has none.                              *)
(***************************************************************************)
Circuits == inst.circuits
NumVarsOf(i) == NumVars(Circuits[i].witin[1])
Trivial(i) == NumVarsOf(i) <= BasecodeMsgSizeLog
Selected(Test(_)) == SelectSeq([i \in DOMAIN Circuits |-> i], Test)

CodewordMatrix(columns) ==
    LET words == [k \in DOMAIN columns |-> Encode(columns[k])]
    IN  [j \in DOMAIN words[1] |-> [k \in DOMAIN words |-> words[k][j]]]

\* batch_commit: small matrices on their own, the others encoded into one tree.
BatchCommit(columns) ==
    LET big   == Selected(LAMBDA i : columns[i] # <<>> /\ ~Trivial(i))
        small == Selected(LAMBDA i : columns[i] # <<>> /\ Trivial(i))
        tree  == [m \in DOMAIN big |-> CodewordMatrix(columns[big[m]])]
    IN  [tree    |-> tree,
         index   |-> [i \in {big[m] : m \in DOMAIN big} |-> CHOOSE m \in DOMAIN big : big[m] = i],
         trivial |-> [i \in {small[m] : m \in DOMAIN small} |-> columns[i]],
         order   |-> small,
         log2_max_codeword_size |-> IF big = <<>> THEN 0 ELSE CeilLog2(2 * MaxHeight(tree))]

WitinOf == [i \in DOMAIN Circuits |-> Circuits[i].witin]
FixedOf == [i \in DOMAIN Circuits |-> Circuits[i].fixed]
HasFixed == \E i \in DOMAIN Circuits : FixedOf[i] # <<>>

\* All the matrices of a commitment are small: not supported.
AllTrivial(columns) ==
    ~\E i \in DOMAIN Circuits : columns[i] # <<>> /\ ~Trivial(i)

\* write_commitment
CommitmentMessage(comm) ==
    <<comm.tree, [k \in DOMAIN comm.order |-> comm.trivial[comm.order[k]]],
      comm.log2_max_codeword_size>>
-----------------------------------------------------------------------------
Absorb(log, message) == Append(log, [absorbed |-> message])
Sample(log, value) == Append(log, [sampled |-> value])

NoCommit == [tree |-> <<>>, index |-> <<>>, trivial |-> <<>>, order |-> <<>>,
             log2_max_codeword_size |-> 0]
NoProof == [commits |-> <<>>, final_message |-> <<>>, messages |-> <<>>,
            trivial |-> <<>>, openings |-> <<>>]
NoOpen == [coeffs |-> <<>>, rlc |-> <<>>, codewords |-> <<>>, trees |-> <<>>, provers |-> <<>>,
           pending |-> <<>>, messages |-> <<>>, folds |-> <<>>]
NoVerifier == [log |-> <<>>, coeffs |-> <<>>, folds |-> <<>>]

Init ==
    /\ inst \in Instances
    /\ pc = "commit"
    /\ comms = [witin |-> NoCommit, fixed |-> NoCommit]
    /\ transcript = <<>>
    /\ open = NoOpen
    /\ proof = NoProof
    /\ verifier = NoVerifier

\* The fixed matrices at key generation, the witness ones in create_proof.
Commit ==
    /\ pc = "commit"
    /\ IF AllTrivial(WitinOf) \/ (HasFixed /\ AllTrivial(FixedOf))
       THEN /\ pc' = "panicked"
            /\ UNCHANGED <<comms, transcript>>
       ELSE LET fixed == IF HasFixed THEN BatchCommit(FixedOf) ELSE NoCommit
                witin == BatchCommit(WitinOf)
                start == IF HasFixed THEN Absorb(<<>>, CommitmentMessage(fixed)) ELSE <<>>
            IN  /\ comms' = [witin |-> witin, fixed |-> fixed]
                /\ transcript' = Absorb(start, CommitmentMessage(witin))
                /\ pc' = "batch"
    /\ UNCHANGED <<inst, open, proof, verifier>>
-----------------------------------------------------------------------------
(***************************************************************************)
(* Opening.                                                                *)
(***************************************************************************)
Opened == Selected(LAMBDA i : ~Trivial(i))
MaxNumVars == CHOOSE n \in {NumVarsOf(i) : i \in DOMAIN Circuits} :
                 \A i \in DOMAIN Circuits : NumVarsOf(i) <= n
NumRounds == MaxNumVars - BasecodeMsgSizeLog
NumThreads == OptimalSumcheckThreads(MaxNumVars, MinVarsPerThread, inst.pool)
Phase1Rounds ==
    LET sliced == MaxNumVars - CeilLog2(NumThreads)
    IN  IF NumRounds < sliced THEN NumRounds ELSE sliced

\* The columns of the k-th opened circuit, witness then fixed, and where their
\* coefficients start (split_by_sizes).
Columns(k) == WitinOf[Opened[k]] \o FixedOf[Opened[k]]
PolysOfFirst(k) ==
    LET polys[l \in 0 .. k] == IF l = 0 THEN 0 ELSE polys[l - 1] + Len(Columns(l))
    IN  polys[k]
TotalNumPolys == PolysOfFirst(Len(Opened))
CoeffsOf(coeffs, k) == SubSeq(coeffs, PolysOfFirst(k - 1) + 1, PolysOfFirst(k))

\* The columns of a circuit combined into one polynomial, and the rows of its
\* matrices, looked up in the trees, into one codeword.
RlcEvals(coeffs, k) ==
    [j \in DOMAIN Columns(k)[1] |->
        Dot(CoeffsOf(coeffs, k), [c \in DOMAIN Columns(k) |-> Columns(k)[c][j]])]

BatchedCodeword(coeffs, k) ==
    LET i     == Opened[k]
        witin == comms.witin.tree[k]
        fixed == IF i \in DOMAIN comms.fixed.index
                 THEN comms.fixed.tree[comms.fixed.index[i]]
                 ELSE [j \in DOMAIN witin |-> <<>>]
    IN  [j \in DOMAIN witin |-> Dot(CoeffsOf(coeffs, k), witin[j] \o fixed[j])]

\* Stable, the longest first (sorted_by_key with Reverse).
LongestFirst(words) ==
    LET rank(k) == Cardinality({l \in DOMAIN words :
                      Len(words[l]) > Len(words[k]) \/ (Len(words[l]) = Len(words[k]) /\ l <= k)})
    IN  [n \in DOMAIN words |-> words[CHOOSE k \in DOMAIN words : rank(k) = n]]

\* The sum over the circuits of eq(point, .) times the combined polynomial.
StartProvers(rlc) ==
    LET eqs   == [k \in DOMAIN Opened |-> BuildEq(Circuits[Opened[k]].point, MaxUsableThreads(inst.pool))]
        n     == Len(Opened)
        terms == [k \in 1 .. n |-> [scalar |-> 1, product |-> <<k, n + k>>]]
        polys == VirtualPolys(NumThreads, MaxNumVars, eqs \o rlc, terms)
    IN  [t \in DOMAIN polys |-> ProverInit(t = 1, polys[t], CeilLog2(NumThreads))]

\* Samples the batching coefficients and prepares codewords and provers.
StartOpen ==
    /\ pc = "batch"
    /\ \E alpha \in Challenges :
        LET coeffs == ChallengePows(alpha, TotalNumPolys)
            rlc    == [k \in DOMAIN Opened |-> RlcEvals(coeffs, k)]
        IN  /\ transcript' = Sample(transcript, alpha)
            /\ open' = [NoOpen EXCEPT
                  !.coeffs = coeffs, !.rlc = rlc,
                  !.codewords = LongestFirst([k \in DOMAIN Opened |-> BatchedCodeword(coeffs, k)]),
                  !.provers = StartProvers(rlc)]
            /\ pc' = "rounds"
    /\ UNCHANGED <<inst, comms, proof, verifier>>

\* How many codewords at the front have the given size (pop_front_while).
AtFront(words, size) ==
    CHOOSE n \in 0 .. Len(words) :
        /\ \A l \in 1 .. n : Len(words[l]) = size
        /\ n < Len(words) => Len(words[n + 1]) # size

\* A mutant of FriRound: the committed codeword lacks those of its own size,
\* which join only when it is folded in its turn.
FriRoundDropsNext(codewords, trees, r) ==
    LET running == IF trees = <<>> THEN <<>> ELSE <<trees[Len(trees)]>>
        target  == IF running = <<>> THEN Len(codewords[1]) ELSE Len(running[1])
        m       == AtFront(codewords, target)
        matched == running \o SubSeq(codewords, 1, m)
        coeffs  == ProverFoldingCoeffsLevel(CeilLog2(target) - 1)
        At(j)   == Total([w \in DOMAIN matched |-> matched[w][j]])
    IN  [folded    |-> [j \in 1 .. target \div 2 |->
                          CodewordFold(At(2 * j - 1), At(2 * j), r, coeffs[j])],
         codewords |-> SubSeq(codewords, m + 1, Len(codewords))]

\* basefold_fri_round: the running codeword and those of its size are summed
\* and folded, those of half the size are added to the result.
FriRound(codewords, trees, r) ==
    LET running == IF trees = <<>> THEN <<>> ELSE <<trees[Len(trees)]>>
        target  == IF running = <<>> THEN Len(codewords[1]) ELSE Len(running[1])
        m       == AtFront(codewords, target)
        rest    == SubSeq(codewords, m + 1, Len(codewords))
        n       == AtFront(rest, target \div 2)
        matched == running \o SubSeq(codewords, 1, m)
        next    == SubSeq(rest, 1, n)
        coeffs  == ProverFoldingCoeffsLevel(CeilLog2(target) - 1)
        At(words, j) == Total([w \in DOMAIN words |-> words[w][j]])
    IN  [folded    |-> [j \in 1 .. target \div 2 |->
                          (CodewordFold(At(matched, 2 * j - 1), At(matched, 2 * j), r, coeffs[j])
                             + At(next, j)) % Prime],
         codewords |-> SubSeq(rest, n + 1, Len(rest))]

RoundsDone == Len(open.messages)

\* The provers of the threads become one after the first phase, whose last
\* challenge they bind first.
AfterRound(provers, r) ==
    IF RoundsDone + 1 = Phase1Rounds
    THEN LET bound == [t \in DOMAIN provers |-> FixVar(provers[t], r)]
         IN  [provers |-> <<ProverInit(TRUE, MergeProvers(bound), 0)>>, pending |-> <<>>]
    ELSE [provers |-> provers, pending |-> <<r>>]

\* basefold_one_round: the round message, a challenge, the folding; every
\* codeword but the last is committed.
OneRound ==
    /\ pc = "rounds"
    /\ RoundsDone < NumRounds
    /\ \E r \in Challenges :
        LET proved == [t \in DOMAIN open.provers |-> ProveRound(open.provers[t], open.pending)]
            msg    == SumOfMessages(proved, 3)
            fri    == FriRound(open.codewords, open.trees, r)
            after  == AfterRound(proved, r)
            last   == RoundsDone + 1 = NumRounds
            asked  == Sample(Absorb(transcript, msg), r)
        IN  /\ transcript' = IF last THEN asked ELSE Absorb(asked, fri.folded)
            /\ open' = [open EXCEPT
                  !.provers = after.provers, !.pending = after.pending,
                  !.messages = Append(@, msg), !.folds = Append(@, r),
                  !.codewords = fri.codewords,
                  !.trees = IF last THEN @ ELSE Append(@, fri.folded)]
    /\ UNCHANGED <<pc, inst, comms, proof, verifier>>

\* The combined polynomials after the last challenge, without the eq ones.
FinalMessage ==
    LET p    == open.provers[1]
        mles == (IF open.pending = <<>> THEN p ELSE FixVar(p, open.pending[1])).mles
    IN  SubSeq(mles, Len(Opened) + 1, Len(mles))

\* For each small circuit its matrix, then its fixed one if there is any.
TrivialProof ==
    LET small == Selected(Trivial)
    IN  [k \in DOMAIN small |->
            <<comms.witin.trivial[small[k]]>>
              \o (IF small[k] \in DOMAIN comms.fixed.trivial
                  THEN <<comms.fixed.trivial[small[k]]>> ELSE <<>>)]

\* The shift of an index of the witness tree to one of the fixed tree.
Shifted(index, shift) == IF shift > 0 THEN index \div 2 ^ shift ELSE index * 2 ^ (-shift)

\* A mutant of OpenQuery: the value folded so far in place of its sibling.
OpenQuerySameSide(index) ==
    LET shift == comms.witin.log2_max_codeword_size - comms.fixed.log2_max_codeword_size
        at(n) == index \div 2 ^ n
    IN  [witin |-> OpenBatch(comms.witin.tree, at(1)),
         fixed |-> IF HasFixed
                   THEN OpenBatch(comms.fixed.tree, Shifted(index, shift) \div 2) ELSE <<>>,
         steps |-> [n \in DOMAIN open.trees |-> open.trees[n][at(n) + 1]]]

\* batch_query_phase for one index: a row of each base tree, then the sibling
\* of the folded value in every tree of the opening.
OpenQuery(index) ==
    LET shift == comms.witin.log2_max_codeword_size - comms.fixed.log2_max_codeword_size
        at(n) == index \div 2 ^ n
    IN  [witin |-> OpenBatch(comms.witin.tree, at(1)),
         fixed |-> IF HasFixed
                   THEN OpenBatch(comms.fixed.tree, Shifted(index, shift) \div 2) ELSE <<>>,
         steps |-> [n \in DOMAIN open.trees |->
                      LET leaf == 2 * (at(n) \div 2)
                      IN  open.trees[n][leaf + (IF at(n) % 2 = 1 THEN 1 ELSE 2)]]]

\* The final message, the proof of work, the queries and their openings.
FinishOpen ==
    /\ pc = "rounds"
    /\ RoundsDone = NumRounds
    /\ \E queries \in [1 .. NumQueries -> 0 .. 2 ^ comms.witin.log2_max_codeword_size - 1] :
        /\ transcript' = Sample(Absorb(Absorb(transcript, FinalMessage), "pow"), queries)
        /\ proof' = [commits       |-> open.trees,
                     final_message |-> FinalMessage,
                     messages      |-> open.messages,
                     trivial       |-> TrivialProof,
                     openings      |-> [q \in 1 .. NumQueries |-> OpenQuery(queries[q])]]
    /\ pc' = "verify"
    /\ UNCHANGED <<inst, comms, open, verifier>>
-----------------------------------------------------------------------------
(***************************************************************************)
(* Verification.  The verifier is given the sizes and numbers of columns,  *)
(* the points, the digests, the claimed evaluations and the proof.         *)
(***************************************************************************)
\* What a sample gives after log: the prover's if nothing absorbed or sampled
\* before it differs, any value otherwise.
Sampled(log, any) ==
    LET n == Len(log)
    IN  IF n < Len(transcript) /\ log = SubSeq(transcript, 1, n)
             /\ "sampled" \in DOMAIN transcript[n + 1]
        THEN {transcript[n + 1].sampled}
        ELSE any

Evals(columns, point) == [c \in DOMAIN columns |-> Evaluate(columns[c], point)]

\* The small circuits: digests of the matrices sent, and their evaluations.
\* The digests of fixed matrices are taken in turn.
TrivialAccepted ==
    LET small    == Selected(Trivial)
        withFixed(k) == Cardinality({l \in 1 .. k : FixedOf[small[l]] # <<>>})
        sentFixed(k) == proof.trivial[k][2]
    IN  /\ Len(proof.trivial) = Len(small) /\ Len(comms.witin.order) = Len(small)
        /\ \A k \in DOMAIN small :
             /\ proof.trivial[k][1] = comms.witin.trivial[comms.witin.order[k]]
             /\ FixedOf[small[k]] # <<>> =>
                  sentFixed(k) = comms.fixed.trivial[comms.fixed.order[withFixed(k)]]
             /\ LET sent  == proof.trivial[k][1]
                             \o (IF FixedOf[small[k]] # <<>> THEN sentFixed(k) ELSE <<>>)
                    point == Circuits[small[k]].point
                IN  Evals(sent, point)
                      = Evals(WitinOf[small[k]] \o FixedOf[small[k]], point)

Accept(ok, next) == pc' = IF ok THEN next ELSE "rejected"

VerifyTrivial ==
    /\ pc = "verify"
    /\ Accept(TrivialAccepted
                /\ \A k \in DOMAIN proof.final_message :
                     Len(proof.final_message[k]) = 2 ^ BasecodeMsgSizeLog,
              "replay")
    /\ \E alpha \in Sampled(SubSeq(transcript, 1, IF HasFixed THEN 2 ELSE 1), Challenges) :
        verifier' = [log    |-> Sample(SubSeq(transcript, 1, IF HasFixed THEN 2 ELSE 1), alpha),
                     coeffs |-> ChallengePows(alpha, TotalNumPolys),
                     folds  |-> <<>>]
    /\ UNCHANGED <<inst, comms, transcript, open, proof>>

\* A round of the transcript again: the message, the challenge, the digest.
VerifyRound ==
    /\ pc = "replay"
    /\ Len(verifier.folds) < NumRounds
    /\ LET n     == Len(verifier.folds) + 1
           asked == Absorb(verifier.log, proof.messages[n])
       IN  \E r \in Sampled(asked, Challenges) :
             verifier' = [verifier EXCEPT
                 !.log = IF n < NumRounds
                         THEN Absorb(Sample(asked, r), proof.commits[n])
                         ELSE Sample(asked, r),
                 !.folds = Append(@, r)]
    /\ UNCHANGED <<pc, inst, comms, transcript, open, proof>>

\* The dimensions a tree of the circuits' sizes has.
DimensionsOf(columns) ==
    LET big == Selected(LAMBDA i : ~Trivial(i) /\ columns[i] # <<>>)
    IN  [m \in DOMAIN big |->
            <<Len(columns[big[m]]) * 2, 2 ^ (NumVarsOf(big[m]) + RateLog - 1)>>]

\* The two values of the k-th circuit in the rows opened, its columns batched
\* with the coefficients taken in turn.
LoHi(opening, k) ==
    LET fixedBefore == Cardinality({l \in 1 .. k : FixedOf[Opened[l]] # <<>>})
        row(side)   == opening.witin[k][side]
                         \o (IF FixedOf[Opened[k]] # <<>>
                             THEN opening.fixed[fixedBefore][side] ELSE <<>>)
    IN  [side \in 1 .. 2 |-> Dot(CoeffsOf(verifier.coeffs, k), row(side))]

\* One query: the base rows, then round by round the fold of the value so far
\* with its sibling, circuits joining at their size, down to the encoding of
\* the final message.
QueryAccepted(index, opening) ==
    LET base    == index \div 2
        shift   == MaxNumVars + RateLog - comms.fixed.log2_max_codeword_size
        At(n)   == base \div 2 ^ n
        Joining(n, side) ==
            Total([k \in DOMAIN Opened |->
                     IF NumVarsOf(Opened[k]) = MaxNumVars - n THEN LoHi(opening, k)[side] ELSE 0])
        \* The pair of leaves of tree n, given the value folded so far.
        Leaves(n, folded) ==
            LET right == At(n - 1) % 2 = 1
                mine  == (folded + Joining(n, IF right THEN 2 ELSE 1)) % Prime
            IN  IF right THEN <<opening.steps[n], mine>> ELSE <<mine, opening.steps[n]>>
        folded[n \in 0 .. NumRounds - 1] ==
            LET pair == IF n = 0 THEN <<Joining(0, 1), Joining(0, 2)>>
                                 ELSE Leaves(n, folded[n - 1])
            IN  CodewordFold(pair[1], pair[2], verifier.folds[n + 1],
                    VerifierFoldingCoeffs(MaxNumVars + RateLog - 1 - n, At(n)))
        finalCodeword ==
            Encode([j \in DOMAIN proof.final_message[1] |->
                      Total([k \in DOMAIN proof.final_message |-> proof.final_message[k][j]])])
    IN  /\ VerifyBatch(comms.witin.tree, DimensionsOf(WitinOf), base, opening.witin)
        /\ HasFixed => VerifyBatch(comms.fixed.tree, DimensionsOf(FixedOf),
                                   Shifted(base, shift), opening.fixed)
        /\ Len(proof.commits) = NumRounds - 1 /\ Len(opening.steps) = NumRounds - 1
        /\ \A n \in 1 .. NumRounds - 1 :
             LET pair == Leaves(n, folded[n - 1])
                 tree == proof.commits[n]
             IN  /\ Len(tree) = 2 ^ (MaxNumVars + RateLog - n)
                 /\ \A side \in 1 .. 2 : tree[2 * At(n) + side] = pair[side]
        /\ finalCodeword[At(NumRounds - 1) + 1] = folded[NumRounds - 1]

\* The queries are sampled after the final message and the proof of work.
VerifyQueries ==
    /\ pc = "replay"
    /\ Len(verifier.folds) = NumRounds
    /\ LET asked == Absorb(Absorb(verifier.log, proof.final_message), "pow")
       IN  \E queries \in Sampled(asked, [1 .. NumQueries -> 0 .. 2 ^ (MaxNumVars + RateLog) - 1]) :
             /\ verifier' = [verifier EXCEPT !.log = Sample(asked, queries)]
             /\ Accept(\A q \in 1 .. NumQueries : QueryAccepted(queries[q], proof.openings[q]),
                       "claims")
    /\ UNCHANGED <<inst, comms, transcript, open, proof>>

\* What the claims of the circuits sum to, each scaled by the variables its
\* circuit lacks.
BatchedClaim ==
    Total([k \in DOMAIN Opened |->
        2 ^ (MaxNumVars - NumVarsOf(Opened[k]))
          * Dot(CoeffsOf(verifier.coeffs, k), Evals(Columns(k), Circuits[Opened[k]].point))])

\* What the last round must evaluate to: eq at the challenges bound times the
\* final message summed against eq of the rest of the point.
FinalEvaluation ==
    Total([k \in DOMAIN Opened |->
        LET point == Circuits[Opened[k]].point
            n     == Len(point) - BasecodeMsgSizeLog
            coeff == EqEval(SubSeq(point, 1, n),
                            SubSeq(verifier.folds, NumRounds - n + 1, NumRounds))
            eq    == BuildEq(SubSeq(point, n + 1, Len(point)), MaxUsableThreads(inst.pool))
        IN  coeff * Dot(proof.final_message[k], eq)])

VerifyClaims ==
    /\ pc = "claims"
    /\ Accept(MessagesConsistent(BatchedClaim, proof.messages, verifier.folds, 2)
                /\ Subclaim(BatchedClaim, proof.messages, verifier.folds) = FinalEvaluation,
              "accepted")
    /\ UNCHANGED <<inst, comms, transcript, open, proof, verifier>>

Stopped == pc \in {"accepted", "rejected", "panicked"} /\ UNCHANGED vars

Next ==
    \/ Commit \/ StartOpen \/ OneRound \/ FinishOpen
    \/ VerifyTrivial \/ VerifyRound \/ VerifyQueries \/ VerifyClaims
    \/ Stopped

Spec == Init /\ [][Next]_vars
-----------------------------------------------------------------------------
(***************************************************************************)
(* Properties.                                                             *)
(***************************************************************************)
\* Every codeword committed while opening is the encoding of the combined
\* polynomials with the challenges bound, those reached so far summed: folding
\* codewords (basefold_fri_round) is binding variables (fix_var), whatever the
\* sizes, and a codeword joins at the round where its size comes up.
OracleEncodesFold ==
    pc = "rounds" /\ open.trees # <<>> =>
        LET n    == Len(open.trees)
            reached == {k \in DOMAIN open.rlc : NumVars(open.rlc[k]) >= MaxNumVars - n}
            bound == [k \in reached |->
                        LET joined == NumVars(open.rlc[k]) - (MaxNumVars - n)
                        IN  FixVariables(open.rlc[k], SubSeq(open.folds, n - joined + 1, n))]
        IN  open.trees[n]
              = Encode([j \in 1 .. 2 ^ (MaxNumVars - n) |->
                          Total([k \in DOMAIN open.rlc |-> IF k \in reached THEN bound[k][j] ELSE 0])])

\* The last round message is the univariate restriction, summed over the rest
\* of the hypercube, of the sum of eq(point, .) times the combined polynomial
\* of each circuit, aligned on the last coordinates: slicing among threads,
\* the circuits a round does not reach yet, the merging and the extrapolation
\* change nothing.
MessageIsRestriction ==
    pc = "rounds" /\ open.messages # <<>> =>
        LET n    == Len(open.rlc)
            eqs  == [k \in 1 .. n |-> BuildEqSequential(Circuits[Opened[k]].point, 1)]
            terms == [k \in 1 .. n |-> [scalar |-> 1, product |-> <<k, n + k>>]]
            rest == MaxNumVars - RoundsDone
            At(x, b) == SubSeq(open.folds, 1, RoundsDone - 1) \o <<x>>
                          \o [i \in 1 .. rest |-> (b \div 2 ^ (i - 1)) % 2]
        IN  \A x \in 0 .. 2 :
              open.messages[RoundsDone][x + 1]
                = Total([b \in 1 .. 2 ^ rest |-> EvaluateSlow(eqs \o open.rlc, terms, At(x, b - 1))])

\* The proof batch_open makes is accepted by batch_verify, which draws the
\* challenges of the prover; only a commitment of small matrices alone, which
\* is not supported, stops the prover.
OpeningVerifies ==
    /\ pc # "rejected"
    /\ pc = "panicked" => AllTrivial(WitinOf) \/ AllTrivial(FixedOf)
    /\ verifier.log = SubSeq(transcript, 1, Len(verifier.log))
===============================================================================
