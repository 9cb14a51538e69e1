-------------------- MODULE DistributedSumcheckRefinement --------------------
(***************************************************************************)
(* The rest of the safety of DistributedSumcheck for every number of       *)
(* threads and variables, on top of the invariant IInv of                  *)
(* DistributedSumcheckProofs: what the channels hold, that no send blocks, *)
(* and that the threads together implement the one sequential prover of    *)
(* SequentialSumcheck.                                                     *)
(***************************************************************************)
EXTENDS DistributedSumcheckProofs

USE DEF Threads, Main, Workers, NumWorkers, Slots, NoChallenge

\* A sequence without repetition is no longer than the set it draws from.
LEMMA DistinctSeq ==
    ASSUME NEW S, IsFiniteSet(S), NEW q \in Seq(S),
           \A i, j \in DOMAIN q : q[i] = q[j] => i = j
    PROVE  Len(q) <= Cardinality(S)
<1>1. /\ Len(q) \in Nat /\ q \in [1 .. Len(q) -> S] /\ DOMAIN q = 1 .. Len(q)
  BY LenProperties
<1>2. q \in Injection(1 .. Len(q), S) BY <1>1 DEF Injection, IsInjective
<1>3. Cardinality(1 .. Len(q)) <= Cardinality(S) BY <1>2, FS_Injection
<1>4. Cardinality(1 .. Len(q)) = Len(q)
  <2>1. Cardinality(1 .. Len(q)) = IF 1 > Len(q) THEN 0 ELSE Len(q) - 1 + 1
    BY <1>1, FS_Interval
  <2> QED BY <1>1, <2>1
<1> QED BY <1>3, <1>4

\* Sets of threads, and what one message or one pair is made of per thread.
LEMMA ThreadSets ==
    ASSUME NEW T, T \subseteq Threads
    PROVE  /\ IsFiniteSet(T) /\ Cardinality(T) \in Nat
           /\ \A n : LET S == {MessageOf(t, n) : t \in T}
                     IN  IsFiniteSet(S) /\ Cardinality(S) \in Nat /\ Cardinality(S) <= Cardinality(T)
           /\ LET S == {<<t, FinalState(t)>> : t \in T}
              IN  IsFiniteSet(S) /\ Cardinality(S) \in Nat /\ Cardinality(S) <= Cardinality(T)
<1>1. IsFiniteSet(T) /\ Cardinality(T) \in Nat BY FiniteThreads, FS_CardinalityType
<1>2. ASSUME NEW n
      PROVE  LET S == {MessageOf(t, n) : t \in T}
             IN  IsFiniteSet(S) /\ Cardinality(S) \in Nat /\ Cardinality(S) <= Cardinality(T)
  <2> DEFINE S == {MessageOf(t, n) : t \in T}
             f == [t \in T |-> MessageOf(t, n)]
  <2>1. f \in Surjection(T, S) BY DEF Surjection
  <2> HIDE DEF S, f
  <2>2. IsFiniteSet(S) /\ Cardinality(S) <= Cardinality(T) BY <1>1, <2>1, FS_Surjection
  <2>3. Cardinality(S) \in Nat BY <2>2, FS_CardinalityType
  <2> QED BY <2>2, <2>3 DEF S
<1>3. LET S == {<<t, FinalState(t)>> : t \in T}
      IN  IsFiniteSet(S) /\ Cardinality(S) \in Nat /\ Cardinality(S) <= Cardinality(T)
  <2> DEFINE S == {<<t, FinalState(t)>> : t \in T}
             f == [t \in T |-> <<t, FinalState(t)>>]
  <2>1. f \in Surjection(T, S) BY DEF Surjection
  <2> HIDE DEF S, f
  <2>2. IsFiniteSet(S) /\ Cardinality(S) <= Cardinality(T) BY <1>1, <2>1, FS_Surjection
  <2>3. Cardinality(S) \in Nat BY <2>2, FS_CardinalityType
  <2> QED BY <2>2, <2>3 DEF S
<1> QED BY <1>1, <1>2, <1>3

\* The smaller set of threads has the smaller cardinality.
LEMMA ThreadSubsets ==
    ASSUME NEW T, T \subseteq Threads, NEW t \in Threads, t \notin T
    PROVE  Cardinality(T) < NumThreads
<1>1. T \subseteq Threads \ {t} OBVIOUS
<1>2. IsFiniteSet(Threads \ {t}) /\ Cardinality(Threads \ {t}) = NumThreads - 1
  BY FiniteThreads, FS_RemoveElement
<1>3. T \in SUBSET (Threads \ {t}) BY <1>1
<1>4. Cardinality(T) <= Cardinality(Threads \ {t}) BY <1>2, <1>3, FS_Subset
<1>5. Cardinality(T) \in Nat BY ThreadSets
<1>6. NumThreads \in Nat BY ThreadFacts
<1> QED BY <1>2, <1>4, <1>5, <1>6

\* A sequence of length zero is the empty one.
LEMMA NoneLeft == ASSUME NEW S, NEW q \in Seq(S), \A i \in DOMAIN q : FALSE PROVE q = <<>>
<1>1. Len(q) \in Nat /\ DOMAIN q = 1 .. Len(q) BY LenProperties
<1>2. ASSUME Len(q) > 0 PROVE FALSE
  <2>1. 1 \in DOMAIN q BY <1>1, <1>2
  <2> QED BY <2>1
<1> QED BY <1>1, <1>2, EmptySeq
-----------------------------------------------------------------------------
(***************************************************************************)
(* Sends.                                                                  *)
(***************************************************************************)
\* While the first phase lasts there are fewer messages under way than threads,
\* fewer copies of a challenge, and fewer final states while one is to be sent.
LEMMA ChannelLengths ==
    ASSUME IInv, Phase1
    PROVE  /\ \A b \in Slots : Len(efAppend[b]) < NumThreads /\ Len(chalChan[b]) + Unsent < NumThreads
           /\ \A t \in Threads \ Ended : Len(stateChan) < NumThreads
<1> USE ThreadFacts
<1> DEFINE K == Sampled
<1>0. K \in Nat BY SampledNat DEF IInv
<1>1. FirstPhase BY DEF IInv
<1>2. Len(efAppend[Parity(K)]) < NumThreads
  <2> DEFINE S == {MessageOf(t, K + 1) : t \in Ahead}
             q == efAppend[Parity(K)]
  <2>1. q \in Seq(Messages) BY <1>0, ParityFacts DEF IInv, TypeOK
  <2>2. q \in Seq(S)
    <3>1. \A i \in DOMAIN q : q[i] \in S BY <1>1 DEF FirstPhase, MessageInv
    <3>2. Len(q) \in Nat /\ DOMAIN q = 1 .. Len(q) /\ q \in [1 .. Len(q) -> Messages]
      BY <2>1, LenProperties
    <3>3. q \in [1 .. Len(q) -> S] BY <3>1, <3>2
    <3> QED BY <3>2, <3>3, SeqDef
  <2>3. Ahead \subseteq Threads /\ Main \notin Ahead BY DEF Ahead
  <2>4. IsFiniteSet(S) /\ Cardinality(S) \in Nat /\ Cardinality(S) <= Cardinality(Ahead)
        /\ Cardinality(Ahead) \in Nat
    BY <2>3, ThreadSets
  <2>5. Cardinality(Ahead) < NumThreads BY <2>3, ThreadSubsets
  <2>6. \A i, j \in DOMAIN q : q[i] = q[j] => i = j BY <1>1 DEF FirstPhase, MessageInv
  <2>7. Len(q) \in Nat BY <2>1, LenProperties
  <2> HIDE DEF S, q
  <2>8. Len(q) <= Cardinality(S) BY <2>2, <2>4, <2>6, DistinctSeq
  <2> QED BY <2>4, <2>5, <2>7, <2>8 DEF q
<1>3. Len(efAppend[Parity(K + 1)]) < NumThreads
  BY <1>1 DEF FirstPhase, MessageInv
<1>4. Len(chalChan[Parity(K + 1)]) + Unsent < NumThreads
  <2>1. Waiting \subseteq Threads /\ Main \notin Waiting BY DEF Waiting
  <2>2. Cardinality(Waiting) < NumThreads BY <2>1, ThreadSubsets
  <2> QED BY <1>1, <2>2 DEF FirstPhase, CopyInv
<1>5. Len(chalChan[Parity(K)]) + Unsent < NumThreads
  <2>1. Len(chalChan[Parity(K)]) = 0 BY <1>1 DEF FirstPhase, CopyInv
  <2>2. Unsent \in Nat /\ Unsent <= NumWorkers BY DEF Unsent, IInv, TypeOK
  <2> QED BY <2>1, <2>2
<1>6. ASSUME NEW t \in Threads \ Ended PROVE Len(stateChan) < NumThreads
  <2> DEFINE T == Ended \ Filled
             S == {<<u, FinalState(u)>> : u \in T}
  <2>1. stateChan \in Seq(Threads \X States) BY DEF IInv, TypeOK
  <2>2. stateChan \in Seq(S)
    <3>1. \A i \in DOMAIN stateChan : stateChan[i] \in S BY <1>1 DEF FirstPhase, CollectInv
    <3>2. Len(stateChan) \in Nat /\ DOMAIN stateChan = 1 .. Len(stateChan)
          /\ stateChan \in [1 .. Len(stateChan) -> Threads \X States]
      BY <2>1, LenProperties
    <3>3. stateChan \in [1 .. Len(stateChan) -> S] BY <3>1, <3>2
    <3> QED BY <3>2, <3>3, SeqDef
  <2>3. T \subseteq Threads /\ t \notin T BY DEF Ended
  <2>4. IsFiniteSet(S) /\ Cardinality(S) \in Nat /\ Cardinality(S) <= Cardinality(T)
        /\ Cardinality(T) \in Nat
    BY <2>3, ThreadSets
  <2>5. Cardinality(T) < NumThreads BY <2>3, ThreadSubsets
  <2>6. \A i, j \in DOMAIN stateChan : stateChan[i] = stateChan[j] => i = j
    BY <1>1 DEF FirstPhase, CollectInv
  <2>7. Len(stateChan) \in Nat BY <2>1, LenProperties
  <2> HIDE DEF S, T
  <2>8. Len(stateChan) <= Cardinality(S) BY <2>2, <2>4, <2>6, DistinctSeq
  <2> QED BY <2>4, <2>5, <2>7, <2>8
<1> QED BY <1>0, <1>2, <1>3, <1>4, <1>5, <1>6, ParityFacts

\* A thread about to send finds room, whatever the number of threads: capacity
\* max_thread_id is enough for every channel (TranscriptSyncronized::new).
THEOREM SendsFindRoom == Spec => []SendsNeverBlock
<1>1. IInv => SendsNeverBlock
  <2> USE ThreadFacts
  <2> SUFFICES ASSUME IInv PROVE SendsNeverBlock
    OBVIOUS
  <2>1. ASSUME NEW w \in Workers, pc[w] = "append" PROVE Len(efAppend[rolling[w]]) < Capacity
    <3>1. Phase1 BY <2>1 DEF IInv, QuietInv
    <3>2. rolling[w] \in Slots BY DEF IInv, TypeOK
    <3> QED BY <3>1, <3>2, ChannelLengths DEF Capacity
  <2>2. ASSUME pc[Main] = "send", sends < NumWorkers
        PROVE  Len(chalChan[rolling[Main]]) < Capacity
    <3>1. Phase1 BY <2>2 DEF Phase1
    <3>2. rolling[Main] \in Slots BY DEF IInv, TypeOK
    <3>3. Unsent \in Nat /\ chalChan[rolling[Main]] \in Seq(Nat)
      BY <2>2, <3>2 DEF Unsent, IInv, TypeOK
    <3>4. Len(chalChan[rolling[Main]]) \in Nat BY <3>3, LenProperties
    <3>5. Len(chalChan[rolling[Main]]) + Unsent < NumThreads BY <3>1, <3>2, ChannelLengths
    <3> QED BY <3>3, <3>4, <3>5 DEF Capacity
  <2>3. ASSUME NEW t \in Threads, pc[t] = "finish" PROVE Len(stateChan) < Capacity
    <3>1. Phase1
      <4>1. CASE t = Main BY <2>3, <4>1 DEF Phase1
      <4>2. CASE t \in Workers BY <2>3, <4>2 DEF IInv, QuietInv
      <4> QED BY <4>1, <4>2
    <3>2. t \notin Ended BY <2>3 DEF Ended
    <3> QED BY <3>1, <3>2, ChannelLengths DEF Capacity
  <2> QED BY <2>1, <2>2, <2>3 DEF SendsNeverBlock
<1> QED BY <1>1, Invariant, PTL
-----------------------------------------------------------------------------
(***************************************************************************)
(* The end of the first phase, and the proof that is returned.             *)
(***************************************************************************)
Empty ==
    /\ \A b \in Slots : efAppend[b] = <<>> /\ chalChan[b] = <<>>
    /\ stateChan = <<>>

\* The proof lags behind the transcript only while the challenges are sent.
ProofInv ==
    IF pc[Main] = "send" THEN Tail(transcript) = Append(proverMsgs, evaluations)
                         ELSE Tail(transcript) = proverMsgs

\* What IInv does not say: of the time outside the first phase and of the result.
EndInv ==
    /\ ~Phase1 => Empty
    /\ ProofInv
    /\ pc[Main] = "send" => Cardinality(evaluations) = reads + 1
    /\ pc[Main] = "phase2" => Log2Threads > 0
    /\ pc[Main] # "done" => result = Sequential!Pending

\* Once every thread's final state is stored nothing is left in a channel: this
\* is where the receives are balanced against the sends (phase1_sumcheck).
LEMMA AllCollected ==
    ASSUME IInv, pc[Main] = "collect", reads = NumThreads
    PROVE  /\ Empty
           /\ Sampled = NumVars
           /\ proverStates[0].point = Sequential!Point(NumVars)
<1> USE ThreadFacts
<1> DEFINE K == Sampled
<1>0. K \in Nat BY SampledNat DEF IInv
<1>1. FirstPhase BY DEF IInv, Phase1
<1>2. Filled = Threads
  <2>1. Cardinality(Filled) = Cardinality(Threads) /\ Filled \subseteq Threads
    BY <1>1, FiniteThreads DEF FirstPhase, CollectInv, Filled
  <2> QED BY <2>1, FiniteThreads, FS_Subset
<1>3. \A t \in Threads : t \in Ended /\ proverStates[t] = FinalState(t)
  BY <1>1, <1>2 DEF FirstPhase, CollectInv
<1>4. Ahead = {} /\ Waiting = {} /\ Unsent = 0
  BY <1>3 DEF Ended, Ahead, Waiting, Unsent
<1>5. efAppend[Parity(K)] = <<>> /\ efAppend[Parity(K + 1)] = <<>>
  <2>1. efAppend[Parity(K)] \in Seq(Messages) BY <1>0, ParityFacts DEF IInv, TypeOK
  <2>2. \A i \in DOMAIN efAppend[Parity(K)] : FALSE
    BY <1>1, <1>4 DEF FirstPhase, MessageInv
  <2>3. efAppend[Parity(K)] = <<>> BY <2>1, <2>2, NoneLeft
  <2> QED BY <1>1, <2>3 DEF FirstPhase, MessageInv
<1>6. chalChan[Parity(K)] = <<>> /\ chalChan[Parity(K + 1)] = <<>>
  <2>1. chalChan[Parity(K + 1)] \in Seq(Nat) BY <1>0, ParityFacts DEF IInv, TypeOK
  <2>2. Cardinality(Waiting) = 0 BY <1>4, FS_EmptySet
  <2>3. Len(chalChan[Parity(K + 1)]) + 0 = 0 BY <1>1, <1>4, <2>2 DEF FirstPhase, CopyInv
  <2>4. Len(chalChan[Parity(K + 1)]) \in Nat BY <2>1, LenProperties
  <2>5. chalChan[Parity(K + 1)] = <<>> BY <2>1, <2>3, <2>4, EmptySeq
  <2> QED BY <1>1, <2>5 DEF FirstPhase, CopyInv
<1>7. stateChan = <<>>
  <2>1. stateChan \in Seq(Threads \X States) BY DEF IInv, TypeOK
  <2>2. \A i \in DOMAIN stateChan : FALSE
    BY <1>1, <1>2 DEF FirstPhase, CollectInv, Ended
  <2> QED BY <2>1, <2>2, NoneLeft
<1>8. Empty BY <1>0, <1>5, <1>6, <1>7, ParityFacts DEF Empty
<1>9. K = NumVars BY <1>1 DEF FirstPhase, MainInv
<1>10. proverStates[0].point = Sequential!Point(NumVars) BY <1>3, FinalStateFacts
<1> QED BY <1>8, <1>9, <1>10

\* Initially there is neither proof nor result.
LEMMA EndInit == Init => EndInv
<1> SUFFICES ASSUME Init PROVE EndInv
  OBVIOUS
<1>1. pc[Main] = "spawn" BY ThreadFacts DEF Init
<1>2. Empty BY DEF Init, Empty
<1>3. transcript = <<{Sequential!Header}>> /\ proverMsgs = <<>> /\ result = Sequential!Pending
  BY DEF Init
<1>4. Tail(<<{Sequential!Header}>>) = <<>> OBVIOUS
<1> QED BY <1>1, <1>2, <1>3, <1>4 DEF EndInv, ProofInv

\* A worker's step happens in the first phase and leaves the main thread's
\* variables alone.
LEMMA WorkerFacts ==
    ASSUME IInv, NEW w \in Workers, WorkerStep(w)
    PROVE  /\ pc'[Main] = pc[Main]
           /\ Phase1 /\ Phase1'
           /\ UNCHANGED mainVars
<1> USE ThreadFacts
<1>1. UNCHANGED mainVars BY DEF WorkerStep, Start, AppendExts, Sample, Finish
<1>2. pc[w] \in {"spawned", "append", "sample", "finish"}
  BY DEF WorkerStep, Start, AppendExts, Sample, Finish
<1>3. Phase1 BY <1>2 DEF IInv, QuietInv
<1>4. pc'[Main] = pc[Main]
  BY DEF WorkerStep, Start, AppendExts, Sample, Finish, Goto, IInv, TypeOK
<1> QED BY <1>1, <1>3, <1>4 DEF Phase1

\* Absorbing a message adds it to the transcript without its header.
LEMMA TailAppend ==
    ASSUME TypeOK, NEW m \in SUBSET Messages
    PROVE  /\ Tail(transcript) \in Seq(SUBSET (Messages \union {Sequential!Header}))
           /\ Tail(Append(transcript, m)) = Append(Tail(transcript), m)
<1> DEFINE T == SUBSET (Messages \union {Sequential!Header})
<1>1. transcript \in Seq(T) /\ transcript # <<>> /\ m \in T BY DEF TypeOK
<1> HIDE DEF T
<1> QED BY <1>1, HeadTailProperties, HeadTailAppend DEF T

\* A round of the first phase: the sum is absorbed before it is recorded, and it
\* is the message of the sequential prover's next round.
LEMMA MainAbsorbEnd ==
    ASSUME IInv, EndInv, MainAbsorb
    PROVE  EndInv' /\ Sequential!Round
<1> USE ThreadFacts
<1> DEFINE K == Sampled
<1>0. K \in Nat /\ Len(transcript) = K + 1 BY SampledNat DEF IInv
<1>1. /\ pc[Main] = "read" /\ pc'[Main] = "send" /\ Phase1 /\ Phase1'
      /\ transcript' = Append(transcript, evaluations)
      /\ UNCHANGED <<evaluations, reads, proverMsgs, result>>
  BY DEF MainAbsorb, Goto, IInv, TypeOK, Phase1
<1>2. FirstPhase BY <1>1 DEF IInv
<1>3. evaluations \in SUBSET Messages /\ TypeOK BY DEF IInv, TypeOK
<1>4. ProofInv'
  <2>1. Tail(transcript') = Append(Tail(transcript), evaluations) BY <1>1, <1>3, TailAppend
  <2>2. Tail(transcript) = proverMsgs BY <1>1 DEF EndInv, ProofInv
  <2> QED BY <1>1, <2>1, <2>2 DEF ProofInv
<1>5. Cardinality(evaluations') = reads' + 1 BY <1>1, <1>2 DEF FirstPhase, SumInv
<1>6. EndInv' BY <1>1, <1>4, <1>5 DEF EndInv
<1>7. Sequential!Round
  <2>1. K < NumVars BY <1>1, <1>2 DEF FirstPhase, MainInv
  <2>2. evaluations = Sequential!RoundMessage(K + 1)
    <3>1. RoundSums' BY InvNext DEF Next, MainStep, IInv
    <3>2. Len(transcript') = K + 2 /\ transcript'[K + 2] = evaluations
      BY <1>0, <1>1, <1>3, AppendProperties DEF IInv, TypeOK
    <3>3. transcript'[(K + 1) + 1] = Sequential!RoundMessage(K + 1)
      BY <1>0, <3>1, <3>2 DEF RoundSums
    <3> QED BY <1>0, <3>2, <3>3
  <2>3. Sequential!RoundsDone = K BY DEF Sequential!RoundsDone, Sampled
  <2>4. Log2Threads \in Nat BY ThreadsAssumption
  <2> QED BY <1>0, <1>1, <2>1, <2>2, <2>3, <2>4 DEF Sequential!Round, Sequential!TotalRounds
<1> QED BY <1>6, <1>7

\* A round of the second phase is one of the sequential prover, too.
LEMMA Phase2RoundEnd ==
    ASSUME IInv, EndInv, Phase2Round
    PROVE  EndInv' /\ Sequential!Round
<1> USE ThreadFacts
<1> DEFINE K == Sampled
           m == {Message(ProveRound(merged, Phase2Challenge))}
<1>0. K \in Nat /\ Len(transcript) = K + 1 BY SampledNat DEF IInv
<1>1. m \in SUBSET Messages
  <2>1. merged \in States BY DEF IInv, TypeOK
  <2>2. Phase2Challenge \in Nat BY <1>0 DEF Phase2Challenge
  <2> QED BY <2>1, <2>2, ProveRoundIs, MessageType
<1> HIDE DEF m
<1>2. /\ pc[Main] = "phase2" /\ pc'[Main] = "phase2" /\ ~Phase1 /\ ~Phase1'
      /\ transcript' = Append(transcript, m)
      /\ proverMsgs' = Append(proverMsgs, m)
      /\ UNCHANGED <<efAppend, chalChan, stateChan, result>>
      /\ merged.round < Log2Threads
  BY DEF Phase2Round, Phase1, m
<1>3. ProofInv'
  <2>1. Tail(transcript') = Append(Tail(transcript), m)
    BY <1>1, <1>2, TailAppend DEF IInv
  <2> QED BY <1>2, <2>1 DEF EndInv, ProofInv
<1>4. EndInv' BY <1>2, <1>3 DEF EndInv, Empty
<1>5. Sequential!Round
  <2>1. K = NumVars + merged.round BY <1>2 DEF IInv, Phase2Inv
  <2>2. m = Sequential!RoundMessage(K + 1)
    <3>1. RoundSums' BY InvNext DEF Next, MainStep, IInv
    <3>2. Len(transcript') = K + 2 /\ transcript'[K + 2] = m
      <4>1. transcript \in Seq(SUBSET (Messages \union {Sequential!Header})) BY DEF IInv, TypeOK
      <4>2. m \in SUBSET (Messages \union {Sequential!Header}) BY <1>1
      <4> QED BY <1>0, <1>2, <4>1, <4>2, AppendProperties
    <3>3. transcript'[(K + 1) + 1] = Sequential!RoundMessage(K + 1)
      BY <1>0, <3>1, <3>2 DEF RoundSums
    <3> QED BY <1>0, <3>2, <3>3
  <2>3. Sequential!RoundsDone = K BY DEF Sequential!RoundsDone, Sampled
  <2>4. Log2Threads \in Nat /\ merged.round \in Nat
    BY ThreadsAssumption DEF IInv, TypeOK, States
  <2> QED BY <1>2, <2>1, <2>2, <2>3, <2>4 DEF Sequential!Round, Sequential!TotalRounds
<1> QED BY <1>4, <1>5

\* A single thread returns its own state; otherwise the second phase begins.
LEMMA MainMergeEnd ==
    ASSUME IInv, EndInv, MainMerge
    PROVE  EndInv' /\ (Sequential!Return \/ UNCHANGED <<transcript, result>>)
<1> USE ThreadFacts
<1>1. Empty /\ Sampled = NumVars /\ proverStates[0].point = Sequential!Point(NumVars)
  BY AllCollected DEF MainMerge
<1>2. /\ pc[Main] = "collect"
      /\ UNCHANGED <<efAppend, chalChan, stateChan, transcript, proverMsgs, evaluations, reads>>
  BY DEF MainMerge
<1>3. Tail(transcript) = proverMsgs /\ result = Sequential!Pending
  BY <1>2 DEF EndInv, ProofInv
<1>4. CASE /\ Log2Threads = 0
           /\ result' = Returned(proverStates[0])
           /\ Goto(Main, "done")
  <2>1. pc'[Main] = "done" BY <1>4 DEF Goto, IInv, TypeOK
  <2>2. EndInv' BY <1>1, <1>2, <1>3, <2>1 DEF EndInv, ProofInv, Phase1, Empty
  <2>3. Sequential!TotalRounds = NumVars BY <1>4 DEF Sequential!TotalRounds
  <2>4. Sequential!RoundsDone = NumVars BY <1>1 DEF Sequential!RoundsDone, Sampled
  <2>5. Sequential!Return
    BY <1>1, <1>2, <1>3, <1>4, <2>3, <2>4 DEF Sequential!Return, Sequential!Pending, Returned
  <2> QED BY <2>2, <2>5
<1>5. CASE Log2Threads > 0 /\ Goto(Main, "phase2") /\ UNCHANGED result
  <2>1. pc'[Main] = "phase2" BY <1>5 DEF Goto, IInv, TypeOK
  <2>2. EndInv' BY <1>1, <1>2, <1>3, <1>5, <2>1 DEF EndInv, ProofInv, Phase1, Empty
  <2> QED BY <1>2, <1>5, <2>2
<1> QED BY <1>4, <1>5 DEF MainMerge

\* The second phase returns the point of all rounds.
LEMMA Phase2ReturnEnd ==
    ASSUME IInv, EndInv, Phase2Return
    PROVE  EndInv' /\ Sequential!Return
<1> USE ThreadFacts
<1> DEFINE K == Sampled
<1>0. K \in Nat /\ Len(transcript) = K + 1 BY SampledNat DEF IInv
<1>1. /\ pc[Main] = "phase2" /\ pc'[Main] = "done" /\ ~Phase1 /\ ~Phase1'
      /\ merged.round = Log2Threads /\ Log2Threads \in Nat \ {0}
      /\ result' = Returned(PushAndFix(merged, Phase2Challenge))
      /\ UNCHANGED <<efAppend, chalChan, stateChan, transcript, proverMsgs>>
  BY ThreadsAssumption DEF Phase2Return, Phase1, Goto, IInv, TypeOK, EndInv
<1>2. Tail(transcript) = proverMsgs /\ result = Sequential!Pending /\ Empty
  BY <1>1 DEF EndInv, ProofInv
<1>3. EndInv' BY <1>1, <1>2 DEF EndInv, ProofInv, Empty
<1>4. K = Sequential!TotalRounds /\ merged.point = Sequential!Point(K - 1) /\ merged \in States
  BY <1>1 DEF IInv, Phase2Inv, TypeOK, Sequential!TotalRounds
<1>5. Phase2Challenge = K BY <1>0, <1>1 DEF Phase2Challenge
<1>6. PushAndFix(merged, K).point = Sequential!Point(K)
  <2>1. PICK n \in Nat : K = n + 1 BY <1>0, <1>1, <1>4 DEF Sequential!TotalRounds
  <2>2. Append(Sequential!Point(n), n + 1) = Sequential!Point(n + 1) BY PointFacts
  <2>3. PushAndFix(merged, K) = [poly  |-> merged.poly,
                                 point |-> Append(merged.point, K),
                                 round |-> merged.round]
    <3> HIDE DEF K
    <3> QED BY <1>0, <1>4, PushAndFixIs
  <2> QED BY <1>4, <2>1, <2>2, <2>3
<1>7. Sequential!RoundsDone = K BY DEF Sequential!RoundsDone, Sampled
<1>8. Sequential!Return
  BY <1>1, <1>2, <1>4, <1>5, <1>6, <1>7 DEF Sequential!Return, Sequential!Pending, Returned
<1> QED BY <1>3, <1>8

\* Every other step keeps transcript and result, and EndInv with them.
LEMMA OtherEnd ==
    ASSUME IInv, EndInv,
           \/ Spawn \/ MainProve \/ MainRead \/ MainSend \/ MainCommit \/ MainFinish \/ MainCollect
           \/ \E w \in Workers : WorkerStep(w)
           \/ UNCHANGED vars
    PROVE  EndInv' /\ UNCHANGED <<transcript, result>>
<1> USE ThreadFacts
<1>1. CASE Spawn
  <2>1. pc[Main] = "spawn" /\ ~Phase1 BY <1>1 DEF Spawn, Phase1
  <2>2. UNCHANGED <<efAppend, chalChan, stateChan, transcript, proverMsgs, evaluations, result>>
    BY <1>1 DEF Spawn
  <2>3. Empty' BY <2>1, <2>2 DEF EndInv, Empty
  <2>4. pc'[Main] \in {"prove", "panicked", "phase2"} /\ (pc'[Main] = "phase2" => NumVars = 0)
    BY <1>1 DEF Spawn, Goto, IInv, TypeOK
  <2>5. NumVars = 0 => Log2Threads > 0 BY SizeAssumption, ThreadsAssumption
  <2> QED BY <2>1, <2>2, <2>3, <2>4, <2>5 DEF EndInv, ProofInv
<1>2. CASE MainProve
  <2>1. pc[Main] = "prove" /\ pc'[Main] = "read" /\ UNCHANGED <<transcript, proverMsgs, result>>
    BY <1>2 DEF MainProve, Goto, IInv, TypeOK
  <2> QED BY <2>1 DEF EndInv, ProofInv, Phase1
<1>3. CASE MainRead
  <2>1. pc[Main] = "read" /\ pc' = pc /\ UNCHANGED <<transcript, proverMsgs, result>>
    BY <1>3 DEF MainRead
  <2> QED BY <2>1 DEF EndInv, ProofInv, Phase1
<1>4. CASE MainSend
  <2>1. /\ pc[Main] = "send" /\ pc' = pc
        /\ UNCHANGED <<transcript, proverMsgs, result, evaluations, reads>>
    BY <1>4 DEF MainSend
  <2> QED BY <2>1 DEF EndInv, ProofInv, Phase1
<1>5. CASE MainCommit
  <2>1. /\ pc[Main] = "send" /\ pc'[Main] \in {"finish", "prove"}
        /\ proverMsgs' = Append(proverMsgs, evaluations)
        /\ UNCHANGED <<transcript, result>>
    BY <1>5 DEF MainCommit, Goto, IInv, TypeOK
  <2> QED BY <2>1 DEF EndInv, ProofInv, Phase1
<1>6. CASE MainFinish
  <2>1. pc[Main] = "finish" /\ pc'[Main] = "collect" /\ UNCHANGED <<transcript, proverMsgs, result>>
    BY <1>6 DEF MainFinish, Goto, IInv, TypeOK
  <2> QED BY <2>1 DEF EndInv, ProofInv, Phase1
<1>7. CASE MainCollect
  <2>1. pc[Main] = "collect" /\ pc' = pc /\ UNCHANGED <<transcript, proverMsgs, result>>
    BY <1>7 DEF MainCollect
  <2> QED BY <2>1 DEF EndInv, ProofInv, Phase1
<1>8. ASSUME NEW w \in Workers, WorkerStep(w) PROVE EndInv' /\ UNCHANGED <<transcript, result>>
  <2>1. pc'[Main] = pc[Main] /\ Phase1' /\ UNCHANGED mainVars BY <1>8, WorkerFacts
  <2> QED BY <2>1 DEF EndInv, ProofInv, mainVars
<1>9. CASE UNCHANGED vars
  <2>1. Phase1' = Phase1 /\ Empty' = Empty /\ ProofInv' = ProofInv
    BY <1>9 DEF Phase1, Empty, ProofInv, vars, mainVars
  <2> QED BY <1>9, <2>1 DEF EndInv, vars, mainVars
<1> QED BY <1>1, <1>2, <1>3, <1>4, <1>5, <1>6, <1>7, <1>8, <1>9

\* Every step of the threads is one of the sequential prover, or none.
LEMMA EndNext ==
    ASSUME IInv, EndInv, [Next]_vars
    PROVE  EndInv' /\ [Sequential!Next]_(Sequential!vars)
<1>1. CASE MainAbsorb BY <1>1, MainAbsorbEnd DEF Sequential!Next
<1>2. CASE Phase2Round BY <1>2, Phase2RoundEnd DEF Sequential!Next
<1>3. CASE MainMerge BY <1>3, MainMergeEnd DEF Sequential!Next, Sequential!vars
<1>4. CASE Phase2Return BY <1>4, Phase2ReturnEnd DEF Sequential!Next
<1>5. CASE \/ Spawn \/ MainProve \/ MainRead \/ MainSend \/ MainCommit \/ MainFinish \/ MainCollect
           \/ \E w \in Workers : WorkerStep(w)
           \/ UNCHANGED vars
  BY <1>5, OtherEnd DEF Sequential!vars
<1> QED BY <1>1, <1>2, <1>3, <1>4, <1>5 DEF Next, MainStep, Terminating

\* Both invariants together.
LEMMA BothInvariants == Spec => [](IInv /\ EndInv)
  BY InvInit, InvNext, EndInit, EndNext, PTL DEF Spec
-----------------------------------------------------------------------------
(***************************************************************************)
(* The theorems.                                                           *)
(***************************************************************************)
\* Whatever the number of threads, a message is added up once: the size of the
\* sum is the number of additions done (the loop of phase1_sumcheck that reads).
THEOREM SummandsOnce == Spec => []NoSummandTwice
<1>1. IInv /\ EndInv => NoSummandTwice
  BY DEF IInv, EndInv, FirstPhase, SumInv, Phase1, NoSummandTwice
<1> QED BY <1>1, BothInvariants, PTL

\* Two channels in turn are enough for any number of threads and rounds: a channel
\* never holds messages, or challenges, of two rounds (rolling_index).
THEOREM ChannelsOfOneRound == Spec => []OneRoundPerChannel
<1>1. IInv /\ EndInv => OneRoundPerChannel
  <2> SUFFICES ASSUME IInv, EndInv, NEW b \in Slots
               PROVE  /\ \A i, j \in DOMAIN efAppend[b] :
                            Len(efAppend[b][i].point) = Len(efAppend[b][j].point)
                      /\ \A i, j \in DOMAIN chalChan[b] : chalChan[b][i] = chalChan[b][j]
    BY DEF OneRoundPerChannel
  <2>1. CASE ~Phase1
    <3>1. efAppend[b] = <<>> /\ chalChan[b] = <<>> BY <2>1 DEF EndInv, Empty
    <3> QED BY <3>1
  <2>2. CASE Phase1
    <3> DEFINE K == Sampled
    <3>0. K \in Nat BY SampledNat DEF IInv
    <3>1. FirstPhase BY <2>2 DEF IInv
    <3>2. ASSUME NEW i \in DOMAIN efAppend[Parity(K)]
          PROVE  efAppend[Parity(K)][i].point = Sequential!Point((K + 1) - 1)
      <4>1. PICK w \in Ahead : efAppend[Parity(K)][i] = MessageOf(w, K + 1)
        BY <3>1, <3>2 DEF FirstPhase, MessageInv
      <4>2. MessageOf(w, K + 1).point = Sequential!Point((K + 1) - 1) BY DEF MessageOf, Summand
      <4> QED BY <4>1, <4>2
    <3>3. b = Parity(K) \/ b = Parity(K + 1) BY <3>0, ParityFacts
    <3>4. CASE b = Parity(K)
      BY <3>1, <3>2, <3>4 DEF FirstPhase, CopyInv
    <3>5. CASE b = Parity(K + 1)
      BY <3>1, <3>5 DEF FirstPhase, MessageInv, CopyInv
    <3> QED BY <3>3, <3>4, <3>5
  <2> QED BY <2>1, <2>2
<1> QED BY <1>1, BothInvariants, PTL

\* When prove returns no message, challenge or state is left in a channel and no
\* worker is still running.
THEOREM NothingLeftBehind == Spec => []DrainedAtReturn
<1>1. IInv /\ EndInv => DrainedAtReturn
  <2> SUFFICES ASSUME IInv, EndInv, result.done PROVE DrainedAtReturn
    BY DEF DrainedAtReturn
  <2>1. pc[Main] = "done" BY DEF EndInv, Sequential!Pending
  <2>2. ~Phase1 BY <2>1 DEF Phase1
  <2> QED BY <2>2 DEF IInv, QuietInv, EndInv, Empty, DrainedAtReturn
<1> QED BY <1>1, BothInvariants, PTL

\* The threads, their channels and the second phase implement one sequential
\* prover: same messages absorbed in the same order, same proof, same point.
THEOREM ImplementsSequential == Spec => Refinement
<1>1. Init => Sequential!Init BY DEF Init, Sequential!Init
<1>2. IInv /\ EndInv /\ [Next]_vars => [Sequential!Next]_(Sequential!vars) BY EndNext
<1> QED BY <1>1, <1>2, BothInvariants, PTL DEF Spec, Refinement, Sequential!Spec
=============================================================================
