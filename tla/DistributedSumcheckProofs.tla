---------------------- MODULE DistributedSumcheckProofs ----------------------
(***************************************************************************)
(* ChallengeAgreement and RoundSums for every number of threads and        *)
(* variables.  The argument is the inductive invariant IInv: where every   *)
(* thread stands relative to the round being sampled (MainInv, WorkerInv), *)
(* what that leaves in the channels (MessageInv, CopyInv) and in the final *)
(* hand-over (CollectInv).                                                 *)
(***************************************************************************)
EXTENDS DistributedSumcheck, SequenceTheorems, FiniteSetTheorems, TLAPS

\* The number of challenges sampled so far.
Sampled == Len(transcript) - 1

Phase1 == pc[Main] \in {"prove", "read", "send", "finish", "collect"}

\* A thread's message of round n, and its state when it has bound everything.
MessageOf(t, n) == Summand(<<t>>, Sequential!Point(n - 1))
FinalState(t) == [poly |-> <<t>>, point |-> Sequential!Point(NumVars), round |-> NumVars]

\* The state of a thread that entered round r and bound n challenges.
Bound(t, r, n) ==
    state[t] = [poly |-> <<t>>, point |-> Sequential!Point(n), round |-> r]

Pred(n) == IF n = 0 THEN 0 ELSE n - 1
Parity(n) == n % 2

MainInv ==
    /\ Sampled <= NumVars
    /\ pc[Main] = "prove" =>
          /\ Sampled < NumVars
          /\ Bound(Main, Sampled, Pred(Sampled))
          /\ challenge[Main] = Sampled
          /\ rolling[Main] = Parity(Sampled)
    /\ pc[Main] = "read" =>
          /\ Sampled < NumVars
          /\ Bound(Main, Sampled + 1, Sampled)
          /\ rolling[Main] = Parity(Sampled)
    /\ pc[Main] = "send" =>
          /\ Sampled > 0
          /\ Bound(Main, Sampled, Sampled - 1)
          /\ challenge[Main] = Sampled
          /\ rolling[Main] = Parity(Sampled + 1)
    /\ pc[Main] = "finish" =>
          /\ Sampled = NumVars
          /\ Sampled > 0
          /\ Bound(Main, NumVars, NumVars - 1)
          /\ challenge[Main] = NumVars
    /\ pc[Main] = "collect" =>
          /\ Sampled = NumVars
          /\ state[Main] = FinalState(Main)

\* A worker has sent the message of the round being read, or waits for the
\* challenge sampled last, or is about to send.
WorkerInv(w) ==
    /\ pc[w] \in {"spawned", "append", "sample", "finish", "done"}
    /\ pc[w] \in {"spawned", "append"} =>
          /\ Sampled < NumVars
          /\ Bound(w, Sampled, Pred(Sampled))
          /\ challenge[w] = Sampled
          /\ rolling[w] = Parity(Sampled)
    /\ pc[w] = "spawned" => Sampled = 0
    /\ pc[w] = "sample" =>
          \/ /\ Sampled > 0
             /\ Bound(w, Sampled, Sampled - 1)
             /\ rolling[w] = Parity(Sampled + 1)
          \/ /\ Sampled < NumVars
             /\ Bound(w, Sampled + 1, Sampled)
             /\ rolling[w] = Parity(Sampled)
    /\ pc[w] = "finish" =>
          /\ Sampled = NumVars
          /\ Sampled > 0
          /\ Bound(w, NumVars, NumVars - 1)
          /\ challenge[w] = NumVars
    /\ pc[w] = "done" =>
          /\ Sampled = NumVars
          /\ state[w] = FinalState(w)

\* The workers whose message of the next round is on its way or added up,
\* and the workers that still wait for the challenge sampled last.
Ahead   == {w \in Workers : pc[w] = "sample" /\ state[w].round = Sampled + 1}
Waiting == {w \in Workers : pc[w] = "sample" /\ state[w].round = Sampled}

\* One channel carries the messages of the next round, each once and none
\* that main has added already; the other channel is empty.
MessageInv ==
    /\ efAppend[Parity(Sampled + 1)] = <<>>
    /\ \A i \in DOMAIN efAppend[Parity(Sampled)] :
          \E w \in Ahead : efAppend[Parity(Sampled)][i] = MessageOf(w, Sampled + 1)
    /\ \A i, j \in DOMAIN efAppend[Parity(Sampled)] :
          efAppend[Parity(Sampled)][i] = efAppend[Parity(Sampled)][j] => i = j

SumInv ==
    pc[Main] = "read" =>
        /\ evaluations \subseteq {MessageOf(t, Sampled + 1) : t \in Ahead \union {Main}}
        /\ IsFiniteSet(evaluations)
        /\ Cardinality(evaluations) = reads + 1
        /\ \A i \in DOMAIN efAppend[Parity(Sampled)] :
              efAppend[Parity(Sampled)][i] \notin evaluations

\* One channel carries copies of the challenge sampled last, one for each
\* worker that waits for it and is not still to be sent; the other is empty.
Unsent == IF pc[Main] = "send" THEN NumWorkers - sends ELSE 0
CopyInv ==
    /\ chalChan[Parity(Sampled)] = <<>>
    /\ \A i \in DOMAIN chalChan[Parity(Sampled + 1)] :
          chalChan[Parity(Sampled + 1)][i] = Sampled
    /\ Len(chalChan[Parity(Sampled + 1)]) + Unsent = Cardinality(Waiting)

\* The threads that sent their final state, and those whose state was stored.
Ended  == {w \in Workers : pc[w] = "done"} \union (IF pc[Main] = "collect" THEN {Main} ELSE {})
Filled == {t \in Threads : proverStates[t] # DefaultState}

CollectInv ==
    /\ \A i \in DOMAIN stateChan :
          \E t \in Ended \ Filled : stateChan[i] = <<t, FinalState(t)>>
    /\ \A i, j \in DOMAIN stateChan : stateChan[i] = stateChan[j] => i = j
    /\ \A t \in Filled : t \in Ended /\ proverStates[t] = FinalState(t)
    /\ IF pc[Main] = "collect" THEN Cardinality(Filled) = reads ELSE Filled = {}

\* Before the threads are spawned.
FreshInv ==
    pc[Main] = "spawn" =>
        /\ Sampled = 0
        /\ \A t \in Threads : Bound(t, 0, 0) /\ challenge[t] = NoChallenge /\ rolling[t] = 0
        /\ \A b \in Slots : efAppend[b] = <<>> /\ chalChan[b] = <<>>
        /\ stateChan = <<>>
        /\ \A t \in Threads : proverStates[t] = DefaultState

\* Outside the first phase no worker runs, and the second one goes on where
\* the first one stopped.
QuietInv == ~Phase1 => \A w \in Workers : pc[w] \in {"idle", "done"}
Phase2Inv ==
    pc[Main] = "phase2" =>
        /\ merged.poly = Sequential!WholePoly
        /\ Sampled = NumVars + merged.round
        /\ merged.point = Sequential!Point(IF merged.round = 0 THEN NumVars ELSE Sampled - 1)

\* What every thread has bound is an initial part of what was sampled.
BoundInv == \A t \in Threads : \E n \in 0 .. Sampled : state[t].point = Sequential!Point(n)

FirstPhase ==
    /\ MainInv
    /\ \A w \in Workers : WorkerInv(w)
    /\ MessageInv
    /\ SumInv
    /\ CopyInv
    /\ CollectInv

IInv ==
    /\ TypeOK
    /\ FreshInv
    /\ QuietInv
    /\ Phase2Inv
    /\ BoundInv
    /\ RoundSums
    /\ Phase1 => FirstPhase
-----------------------------------------------------------------------------
(***************************************************************************)
(* Type correctness.                                                       *)
(***************************************************************************)
USE DEF Threads, Main, Workers, NumWorkers, Slots, NoChallenge

\* The operations on a prover state, as records (push_challenges and fix_var,
\* prove_round_and_update_state).
LEMMA PushAndFixIs ==
    ASSUME NEW s \in States, NEW c \in Nat
    PROVE  /\ PushAndFix(s, c) = [poly |-> s.poly, point |-> Append(s.point, c), round |-> s.round]
           /\ PushAndFix(s, c) \in States
<1>1. PushAndFix(s, c) = [poly |-> s.poly, point |-> Append(s.point, c), round |-> s.round]
  BY DEF PushAndFix, States
<1>2. Append(s.point, c) \in Seq(Nat) BY DEF States
<1> QED BY <1>1, <1>2 DEF States

\* Entering a round binds the last challenge unless there is none yet, and
\* counts the round (prove_round_and_update_state).
LEMMA ProveRoundIs ==
    ASSUME NEW s \in States, NEW c \in Nat
    PROVE  /\ ProveRound(s, c) = [poly |-> s.poly,
                                  point |-> IF s.round > 0 THEN Append(s.point, c) ELSE s.point,
                                  round |-> s.round + 1]
           /\ ProveRound(s, c) \in States
<1>1. CASE s.round > 0
  <2>1. ProveRound(s, c) = [PushAndFix(s, c) EXCEPT !.round = @ + 1] BY <1>1 DEF ProveRound
  <2> DEFINE q == [poly |-> s.poly, point |-> Append(s.point, c), round |-> s.round]
  <2>2. PushAndFix(s, c) = q /\ q \in States BY PushAndFixIs
  <2>3. ProveRound(s, c) = [q EXCEPT !.round = q.round + 1] BY <2>1, <2>2
  <2>4. ProveRound(s, c) =
          [poly |-> s.poly, point |-> Append(s.point, c), round |-> s.round + 1]
    BY <2>3
  <2>5. s.round + 1 \in Nat BY DEF States
  <2>6. ProveRound(s, c) \in States BY <2>2, <2>4, <2>5 DEF States
  <2> QED BY <1>1, <2>4, <2>6
<1>2. CASE ~(s.round > 0)
  <2>1. ProveRound(s, c) = [s EXCEPT !.round = @ + 1] BY <1>2 DEF ProveRound
  <2> QED BY <1>2, <2>1 DEF States
<1> QED BY <1>1, <1>2

\* A state's round message is a message.
LEMMA MessageType == ASSUME NEW s \in States PROVE Message(s) \in Messages
  BY DEF Message, Summand, Messages, States

\* Merging states gives a state (merge_sumcheck_prover_state).
LEMMA MergeType ==
    ASSUME NEW states \in [Threads -> States]
    PROVE  MergeStates(states) \in States
<1> DEFINE piece(i) == IF states[i - 1].poly = <<>> THEN NoSlice ELSE Head(states[i - 1].poly)
<1>1. ASSUME NEW i \in 1 .. NumThreads PROVE piece(i) \in Threads \union {NoSlice}
  <2>1. i - 1 \in Threads BY <1>1, ThreadsAssumption
  <2>2. states[i - 1].poly \in Seq(Threads \union {NoSlice})
    BY <2>1 DEF States, Polys
  <2> QED BY <2>2
<1>2. [i \in 1 .. NumThreads |-> piece(i)] \in Seq(Threads \union {NoSlice})
  BY <1>1, ThreadsAssumption
<1>3. 0 \in Threads BY ThreadsAssumption
<1>4. states[0].point \in Seq(Nat) BY <1>3 DEF States
<1> QED BY <1>2, <1>4 DEF MergeStates, States, Polys
-----------------------------------------------------------------------------
\* What the assumptions on the sizes give: thread 0 and the main thread exist,
\* and there is one worker less than threads.
LEMMA ThreadFacts ==
    /\ NumThreads \in Nat \ {0}
    /\ NumVars \in Nat
    /\ 0 \in Threads
    /\ Main \in Threads
    /\ NumWorkers \in Nat
    /\ NumWorkers < NumThreads
    /\ Workers \subseteq Threads
    /\ Main \notin Workers
  BY ThreadsAssumption, SizeAssumption

\* commit_rolling stays within the two channels of a pair.
LEMMA Flip == \A b \in Slots : (b + 1) % 2 \in Slots
  OBVIOUS

\* The initial values have their types.
LEMMA TypeInit == Init => TypeOK
<1> SUFFICES ASSUME Init PROVE TypeOK
  OBVIOUS
<1>1. \A t \in Threads : ProverInit(<<t>>) \in States
  BY DEF ProverInit, States, Polys
<1>2. DefaultState \in States
  BY DEF DefaultState, ProverInit, States, Polys
<1>3. pool \in Nat \ {0} /\ free \in Nat
  BY SizeAssumption DEF Init
<1>4. transcript \in Seq(SUBSET (Messages \union {Sequential!Header})) \ {<<>>}
  BY DEF Init
<1> QED
  BY <1>1, <1>2, <1>3, <1>4, ThreadFacts DEF Init, TypeOK, Labels, Polys

\* Every action of main and of a worker keeps the types.
LEMMA TypeNext == TypeOK /\ [Next]_vars => TypeOK'
<1> SUFFICES ASSUME TypeOK, [Next]_vars PROVE TypeOK'
  OBVIOUS
<1> USE ThreadFacts
<1>1. ASSUME NEW w \in Workers, Start(w) PROVE TypeOK'
  BY <1>1 DEF Start, Goto, TypeOK, Labels, mainVars
<1>2. ASSUME NEW w \in Workers, AppendExts(w) PROVE TypeOK'
  <2> DEFINE s == ProveRound(state[w], challenge[w])
  <2>1. s \in States BY ProveRoundIs DEF TypeOK
  <2>2. Message(s) \in Messages BY <2>1, MessageType
  <2>3. state' \in [Threads -> States] BY <1>2, <2>1 DEF AppendExts, TypeOK
  <2>4. efAppend[rolling[w]] \in Seq(Messages) BY DEF TypeOK
  <2>5. Append(efAppend[rolling[w]], Message(s)) \in Seq(Messages)
    BY <2>2, <2>4, AppendProperties
  <2>6. efAppend' \in [Slots -> Seq(Messages)] BY <1>2, <2>5 DEF AppendExts, TypeOK
  <2> QED BY <1>2, <2>3, <2>6 DEF AppendExts, Goto, TypeOK, Labels, mainVars
<1>3. ASSUME NEW w \in Workers, Sample(w) PROVE TypeOK'
  <2> DEFINE chan == chalChan[rolling[w]]
  <2>1. chan \in Seq(Nat) /\ chan # <<>> BY <1>3 DEF Sample, TypeOK
  <2>2. Head(chan) \in Nat /\ Tail(chan) \in Seq(Nat) BY <2>1
  <2>3. challenge' \in [Threads -> Nat] BY <1>3, <2>2 DEF Sample, TypeOK
  <2>4. chalChan' \in [Slots -> Seq(Nat)] BY <1>3, <2>2 DEF Sample, TypeOK
  <2>5. rolling' \in [Threads -> Slots]
    <3>1. rolling' = [rolling EXCEPT ![w] = (rolling[w] + 1) % 2]
      BY <1>3 DEF Sample, CommitRolling
    <3>2. rolling \in [Threads -> Slots] /\ w \in Threads BY DEF TypeOK
    <3>3. (rolling[w] + 1) % 2 \in Slots BY <3>2, Flip
    <3> QED BY <3>1, <3>2, <3>3
  <2>6. pc' \in [Threads -> Labels] BY <1>3 DEF Sample, Goto, TypeOK, Labels
  <2> QED BY <1>3, <2>3, <2>4, <2>5, <2>6 DEF Sample, TypeOK, mainVars
<1>4. ASSUME NEW w \in Workers, Finish(w) PROVE TypeOK'
  <2> DEFINE s == PushAndFix(state[w], challenge[w])
  <2>1. s \in States BY PushAndFixIs DEF TypeOK
  <2>2. state' \in [Threads -> States] BY <1>4, <2>1 DEF Finish, TypeOK
  <2>3. stateChan' \in Seq(Threads \X States) BY <1>4, <2>1 DEF Finish, TypeOK
  <2> QED BY <1>4, <2>2, <2>3 DEF Finish, Goto, TypeOK, Labels, mainVars
<1>5. ASSUME Spawn PROVE TypeOK'
  <2>1. pc' \in [Threads -> Labels] BY <1>5 DEF Spawn, Goto, TypeOK, Labels
  <2>2. merged' \in States BY <1>5, MergeType DEF Spawn, TypeOK
  <2> QED BY <1>5, <2>1, <2>2 DEF Spawn, TypeOK
<1>6. ASSUME MainProve PROVE TypeOK'
  <2> DEFINE s == ProveRound(state[Main], challenge[Main])
  <2>1. s \in States BY ProveRoundIs DEF TypeOK
  <2>2. Message(s) \in Messages BY <2>1, MessageType
  <2>3. state' \in [Threads -> States] BY <1>6, <2>1 DEF MainProve, TypeOK
  <2>4. evaluations' \subseteq Messages BY <1>6, <2>2 DEF MainProve
  <2> QED BY <1>6, <2>3, <2>4 DEF MainProve, Goto, TypeOK, Labels
<1>7. ASSUME MainRead PROVE TypeOK'
  <2> DEFINE chan == efAppend[rolling[Main]]
  <2>1. chan \in Seq(Messages) /\ chan # <<>> BY <1>7 DEF MainRead, TypeOK
  <2>2. Head(chan) \in Messages /\ Tail(chan) \in Seq(Messages) BY <2>1
  <2>3. efAppend' \in [Slots -> Seq(Messages)] BY <1>7, <2>2 DEF MainRead, TypeOK
  <2>4. evaluations' \subseteq Messages BY <1>7, <2>2 DEF MainRead, TypeOK
  <2>5. reads' \in 0 .. NumThreads BY <1>7 DEF MainRead, TypeOK
  <2> QED BY <1>7, <2>3, <2>4, <2>5 DEF MainRead, TypeOK
<1>8. ASSUME MainAbsorb PROVE TypeOK'
  <2> DEFINE Items == SUBSET (Messages \union {Sequential!Header})
  <2>1. evaluations \in Items BY DEF TypeOK
  <2>2. transcript \in Seq(Items) BY DEF TypeOK
  <2>3. Append(transcript, evaluations) \in Seq(Items) \ {<<>>}
    BY <2>1, <2>2, AppendProperties
  <2>4. transcript' \in Seq(Items) \ {<<>>} BY <1>8, <2>3 DEF MainAbsorb
  <2>5. NextChallenge \in Nat BY <2>2, LenProperties DEF NextChallenge
  <2>6. challenge' \in [Threads -> Nat] BY <1>8, <2>5 DEF MainAbsorb, TypeOK
  <2> QED BY <1>8, <2>4, <2>6 DEF MainAbsorb, Goto, TypeOK, Labels
<1>9. ASSUME MainSend PROVE TypeOK'
  <2>1. chalChan' \in [Slots -> Seq(Nat)] BY <1>9 DEF MainSend, TypeOK
  <2>2. sends' \in 0 .. NumWorkers BY <1>9 DEF MainSend, TypeOK
  <2> QED BY <1>9, <2>1, <2>2 DEF MainSend, TypeOK
<1>10. ASSUME MainCommit PROVE TypeOK'
  <2>1. rolling' \in [Threads -> Slots]
    BY <1>10, Flip DEF MainCommit, CommitRolling, TypeOK
  <2>2. pc' \in [Threads -> Labels] BY <1>10 DEF MainCommit, Goto, TypeOK, Labels
  <2>3. proverMsgs' \in Seq(SUBSET Messages) BY <1>10 DEF MainCommit, TypeOK
  <2> QED BY <1>10, <2>1, <2>2, <2>3 DEF MainCommit, TypeOK
<1>11. ASSUME MainFinish PROVE TypeOK'
  <2> DEFINE s == PushAndFix(state[Main], challenge[Main])
  <2>1. s \in States BY PushAndFixIs DEF TypeOK
  <2>2. state' \in [Threads -> States] BY <1>11, <2>1 DEF MainFinish, TypeOK
  <2>3. stateChan' \in Seq(Threads \X States) BY <1>11, <2>1 DEF MainFinish, TypeOK
  <2>4. pc' \in [Threads -> Labels] BY <1>11 DEF MainFinish, Goto, TypeOK, Labels
  <2>5. reads' \in 0 .. NumThreads BY <1>11, ThreadFacts DEF MainFinish
  <2> HIDE DEF s
  <2> QED BY <1>11, <2>2, <2>3, <2>4, <2>5 DEF MainFinish, TypeOK
<1>12. ASSUME MainCollect PROVE TypeOK'
  <2> DEFINE msg == Head(stateChan)
  <2>1. stateChan \in Seq(Threads \X States) /\ stateChan # <<>>
    BY <1>12 DEF MainCollect, TypeOK
  <2>2. msg \in Threads \X States /\ Tail(stateChan) \in Seq(Threads \X States) BY <2>1
  <2>3. msg[1] \in Threads /\ msg[2] \in States BY <2>2
  <2>4. proverStates' \in [Threads -> States] BY <1>12, <2>3 DEF MainCollect, TypeOK
  <2>5. reads' \in 0 .. NumThreads BY <1>12 DEF MainCollect, TypeOK
  <2> QED BY <1>12, <2>2, <2>4, <2>5 DEF MainCollect, TypeOK
<1>13. ASSUME MainMerge PROVE TypeOK'
  <2>1. merged' \in States BY <1>13, MergeType DEF MainMerge, TypeOK
  <2>2. pc' \in [Threads -> Labels] BY <1>13 DEF MainMerge, Goto, TypeOK, Labels
  <2> QED BY <1>13, <2>1, <2>2 DEF MainMerge, TypeOK
<1>14. ASSUME Phase2Round PROVE TypeOK'
  <2> DEFINE s == ProveRound(merged, Phase2Challenge)
             Items == SUBSET (Messages \union {Sequential!Header})
  <2>1. transcript \in Seq(Items) /\ transcript # <<>> BY DEF TypeOK
  <2>2. Len(transcript) \in Nat \ {0} BY <2>1, EmptySeq, LenProperties
  <2>3. Phase2Challenge \in Nat BY <2>2 DEF Phase2Challenge
  <2>4. s \in States BY <2>3, ProveRoundIs DEF TypeOK
  <2>5. Message(s) \in Messages BY <2>4, MessageType
  <2>6. {Message(s)} \in Items /\ {Message(s)} \in SUBSET Messages BY <2>5
  <2>7. Append(transcript, {Message(s)}) \in Seq(Items) \ {<<>>}
    BY <2>1, <2>6, AppendProperties
  <2>8. proverMsgs' \in Seq(SUBSET Messages)
    BY <1>14, <2>6, AppendProperties DEF Phase2Round, TypeOK
  <2> HIDE DEF s, Items
  <2>9. merged' = s /\ transcript' = Append(transcript, {Message(s)})
    BY <1>14 DEF Phase2Round, s
  <2> QED BY <1>14, <2>4, <2>7, <2>8, <2>9 DEF Phase2Round, TypeOK, Items
<1>15. ASSUME Phase2Return PROVE TypeOK'
  <2> DEFINE s == PushAndFix(merged, Phase2Challenge)
  <2>1. transcript # <<>> /\ transcript \in Seq(SUBSET (Messages \union {Sequential!Header}))
    BY DEF TypeOK
  <2>2. Phase2Challenge \in Nat BY <2>1, EmptySeq, LenProperties DEF Phase2Challenge
  <2>3. s \in States BY <2>2, PushAndFixIs DEF TypeOK
  <2> QED BY <1>15, <2>3 DEF Phase2Return, Goto, TypeOK, Labels
<1>16. ASSUME UNCHANGED vars PROVE TypeOK'
  BY <1>16 DEF TypeOK, vars, mainVars
<1> QED
  BY <1>1, <1>2, <1>3, <1>4, <1>5, <1>6, <1>7, <1>8, <1>9, <1>10, <1>11, <1>12, <1>13,
     <1>14, <1>15, <1>16
  DEF Next, MainStep, WorkerStep, Terminating

\* Every variable stays in its range, for every number of threads and rounds.
THEOREM TypeCorrect == Spec => []TypeOK
  BY TypeInit, TypeNext, PTL DEF Spec
-----------------------------------------------------------------------------
(***************************************************************************)
(* Facts about points, messages and parities.                              *)
(***************************************************************************)
\* The point of n rounds has n coordinates, the k-th one being k, and sampling
\* one more gives the point of n + 1 rounds.
LEMMA PointFacts ==
    ASSUME NEW n \in Nat
    PROVE  /\ Sequential!Point(n) \in Seq(Nat)
           /\ Len(Sequential!Point(n)) = n
           /\ \A k \in 1 .. n : Sequential!Point(n)[k] = k
           /\ Append(Sequential!Point(n), n + 1) = Sequential!Point(n + 1)
  BY DEF Sequential!Point

\* The threads and the workers are finite sets of the expected sizes.
LEMMA FiniteThreads ==
    /\ IsFiniteSet(Threads) /\ Cardinality(Threads) = NumThreads
    /\ IsFiniteSet(Workers) /\ Cardinality(Workers) = NumWorkers
    /\ \A S : S \subseteq Threads => IsFiniteSet(S) /\ Cardinality(S) <= NumThreads
<1>1. IsFiniteSet(Threads) /\ Cardinality(Threads) = NumThreads
  <2>1. IsFiniteSet(0 .. NumThreads - 1)
        /\ Cardinality(0 .. NumThreads - 1) =
             IF 0 > NumThreads - 1 THEN 0 ELSE (NumThreads - 1) - 0 + 1
    BY ThreadFacts, FS_Interval
  <2> QED BY <2>1, ThreadFacts
<1>2. IsFiniteSet(Workers) /\ Cardinality(Workers) = NumThreads - 1
  <2>1. /\ IsFiniteSet(Threads \ {Main})
        /\ Cardinality(Threads \ {Main}) = Cardinality(Threads) - 1
    BY <1>1, ThreadFacts, FS_RemoveElement
  <2> QED BY <1>1, <2>1
<1>3. \A S : S \subseteq Threads => IsFiniteSet(S) /\ Cardinality(S) <= NumThreads
  BY <1>1, FS_Subset
<1> QED BY <1>1, <1>2, <1>3

\* Before the first round nothing is bound.
LEMMA PointZero == Sequential!Point(0) = <<>>
  BY DEF Sequential!Point

\* The number of challenges sampled is the transcript's length without the header.
LEMMA SampledNat == TypeOK => Sampled \in Nat /\ Len(transcript) = Sampled + 1
<1> SUFFICES ASSUME TypeOK PROVE Sampled \in Nat /\ Len(transcript) = Sampled + 1
  OBVIOUS
<1>1. transcript # <<>> /\ transcript \in Seq(SUBSET (Messages \union {Sequential!Header}))
  BY DEF TypeOK
<1> QED BY <1>1, EmptySeq, LenProperties DEF Sampled

\* Consecutive rounds use different channels, rounds two apart the same one
\* (rolling_index).
LEMMA ParityFacts ==
    ASSUME NEW n \in Nat
    PROVE  /\ Parity(n) \in Slots
           /\ Parity(n + 1) \in Slots
           /\ Parity(n) # Parity(n + 1)
           /\ Parity(n + 2) = Parity(n)
           /\ (Parity(n) + 1) % 2 = Parity(n + 1)
           /\ (Parity(n + 1) + 1) % 2 = Parity(n)
           /\ \A b \in Slots : b = Parity(n) \/ b = Parity(n + 1)
  BY DEF Parity

\* Messages of different threads for one round differ.
LEMMA MessageInjective ==
    ASSUME NEW n, NEW t \in Threads, NEW u \in Threads, MessageOf(t, n) = MessageOf(u, n)
    PROVE  t = u
<1>1. MessageOf(t, n).poly = <<t>> /\ MessageOf(u, n).poly = <<u>>
  BY DEF MessageOf, Summand
<1>2. <<t>>[1] = <<u>>[1] BY <1>1
<1> QED BY <1>2

\* How a state that is Bound moves on.
LEMMA BoundPush ==
    ASSUME NEW t \in Threads, NEW r \in Nat, NEW n \in Nat, Bound(t, r, n)
    PROVE  PushAndFix(state[t], n + 1)
             = [poly |-> <<t>>, point |-> Sequential!Point(n + 1), round |-> r]
<1>1. state[t] \in States
  BY PointFacts DEF Bound, States, Polys
<1>2. /\ state[t].poly = <<t>>
      /\ state[t].point = Sequential!Point(n)
      /\ state[t].round = r
  BY DEF Bound
<1>3. n + 1 \in Nat OBVIOUS
<1>4. PushAndFix(state[t], n + 1) = [poly  |-> state[t].poly,
                                     point |-> Append(state[t].point, n + 1),
                                     round |-> state[t].round]
  BY <1>1, <1>3, PushAndFixIs
<1>5. Append(Sequential!Point(n), n + 1) = Sequential!Point(n + 1) BY PointFacts
<1> QED BY <1>2, <1>4, <1>5

\* A state bound up to the last challenge but one enters the next round bound to
\* all of them (prove_round_and_update_state).
LEMMA BoundProve ==
    ASSUME NEW t \in Threads, NEW n \in Nat, Bound(t, n, Pred(n))
    PROVE  ProveRound(state[t], n)
             = [poly |-> <<t>>, point |-> Sequential!Point(n), round |-> n + 1]
<1>1. Pred(n) \in Nat BY DEF Pred
<1>2. state[t] \in States
  BY <1>1, PointFacts DEF Bound, States, Polys
<1>3. CASE n = 0
  <2>1. /\ state[t].poly = <<t>>
        /\ state[t].point = Sequential!Point(0)
        /\ state[t].round = 0
    BY <1>3 DEF Bound, Pred
  <2>2. n \in Nat /\ ~(state[t].round > 0) BY <2>1
  <2>3. ProveRound(state[t], n) = [poly  |-> state[t].poly,
                                   point |-> state[t].point,
                                   round |-> state[t].round + 1]
    BY <1>2, <2>2, ProveRoundIs
  <2> QED BY <1>3, <2>1, <2>3
<1>4. CASE n > 0
  <2>1. PICK m \in Nat : n = m + 1 /\ Pred(n) = m BY <1>4 DEF Pred
  <2>2. Append(Sequential!Point(m), m + 1) = Sequential!Point(m + 1) BY PointFacts
  <2>3. /\ state[t].poly = <<t>>
        /\ state[t].point = Sequential!Point(m)
        /\ state[t].round = n
    BY <2>1 DEF Bound
  <2>4. ProveRound(state[t], n) = [poly  |-> state[t].poly,
                                   point |-> Append(state[t].point, n),
                                   round |-> state[t].round + 1]
    BY <1>2, <1>4, <2>3, ProveRoundIs
  <2> QED BY <2>1, <2>2, <2>3, <2>4
<1> QED BY <1>3, <1>4
-----------------------------------------------------------------------------
(***************************************************************************)
(* The inductive step, one lemma per action.                               *)
(***************************************************************************)
\* A pool thread that takes a worker's closure keeps the invariant (rayon::spawn).
LEMMA StartStep ==
    ASSUME IInv, NEW w \in Workers, Start(w)
    PROVE  IInv'
<1> USE ThreadFacts
<1>1. TypeOK' BY TypeNext DEF IInv, Next, WorkerStep
<1>2. Phase1 /\ FirstPhase /\ pc[Main] # "spawn" /\ pc[Main] # "phase2"
  BY DEF IInv, QuietInv, Start, Phase1
<1>3. /\ pc' = [pc EXCEPT ![w] = "append"] /\ pc[w] = "spawned" /\ pc \in [Threads -> Labels]
      /\ UNCHANGED <<challenge, rolling, state, efAppend, chalChan, stateChan, mainVars>>
  BY DEF Start, Goto, IInv, TypeOK
<1>4. Sampled' = Sampled /\ pc'[Main] = pc[Main] /\ Phase1'
  BY <1>2, <1>3 DEF Sampled, mainVars, Phase1
<1>5. Ahead' = Ahead /\ Waiting' = Waiting /\ Ended' = Ended /\ Filled' = Filled
  BY <1>3, <1>4 DEF Ahead, Waiting, Ended, Filled, mainVars
<1>6. MainInv' BY <1>2, <1>3, <1>4 DEF FirstPhase, MainInv, Bound, FinalState
<1>7. \A v \in Workers : WorkerInv(v)'
  BY <1>2, <1>3, <1>4 DEF FirstPhase, WorkerInv, Bound, FinalState
<1>8. MessageInv' /\ SumInv' /\ CopyInv' /\ CollectInv'
  BY <1>2, <1>3, <1>4, <1>5 DEF FirstPhase, MessageInv, SumInv, CopyInv, CollectInv, Unsent, mainVars
<1>9. BoundInv' /\ RoundSums'
  BY <1>3, <1>4 DEF IInv, BoundInv, RoundSums, mainVars
<1> QED
  BY <1>1, <1>2, <1>4, <1>6, <1>7, <1>8, <1>9
  DEF IInv, FirstPhase, FreshInv, QuietInv, Phase2Inv

\* Sending a round message keeps the invariant: it is the worker's own message of
\* the next round, new to the channel and to the sum (append_field_element_exts).
LEMMA AppendStep ==
    ASSUME IInv, NEW w \in Workers, AppendExts(w)
    PROVE  IInv'
<1> USE ThreadFacts
<1> DEFINE K == Sampled
           s == ProveRound(state[w], challenge[w])
           chan == efAppend[Parity(K)]
<1>0. K \in Nat BY SampledNat DEF IInv
<1>1. TypeOK' BY TypeNext DEF IInv, Next, WorkerStep
<1>2. Phase1 /\ FirstPhase /\ pc[Main] # "spawn" /\ pc[Main] # "phase2"
  BY DEF IInv, QuietInv, AppendExts, Phase1
<1>3. /\ K < NumVars
      /\ Bound(w, K, Pred(K))
      /\ challenge[w] = K
      /\ rolling[w] = Parity(K)
  BY <1>2 DEF FirstPhase, WorkerInv, AppendExts
<1>4. s = [poly |-> <<w>>, point |-> Sequential!Point(K), round |-> K + 1]
  BY <1>0, <1>3, BoundProve
<1>5. Message(s) = MessageOf(w, K + 1)
  BY <1>0, <1>4 DEF Message, MessageOf, Summand
<1> HIDE DEF s
<1>6. /\ pc' = [pc EXCEPT ![w] = "sample"] /\ pc[w] = "append" /\ pc \in [Threads -> Labels]
      /\ state' = [state EXCEPT ![w] = s] /\ state \in [Threads -> States]
      /\ efAppend' = [efAppend EXCEPT ![Parity(K)] = Append(chan, Message(s))]
      /\ efAppend \in [Slots -> Seq(Messages)]
      /\ UNCHANGED <<challenge, rolling, chalChan, stateChan, mainVars>>
  BY <1>3 DEF AppendExts, Goto, IInv, TypeOK, s
<1>7. Sampled' = K /\ pc'[Main] = pc[Main] /\ Phase1'
  BY <1>2, <1>6 DEF Sampled, mainVars, Phase1
<1>8. /\ Ahead' = Ahead \union {w}
      /\ w \notin Ahead
      /\ Waiting' = Waiting
      /\ Ended' = Ended
      /\ Filled' = Filled
  BY <1>0, <1>4, <1>6, <1>7 DEF Ahead, Waiting, Ended, Filled, mainVars
<1>9. MainInv'
  BY <1>2, <1>6, <1>7 DEF FirstPhase, MainInv, Bound, FinalState
<1>10. ASSUME NEW v \in Workers PROVE WorkerInv(v)'
  <2>1. CASE v = w
    <3>1. pc'[w] = "sample" /\ state'[w] = s /\ rolling'[w] = Parity(K)
      BY <1>3, <1>6
    <3> QED BY <1>3, <1>4, <1>7, <2>1, <3>1 DEF WorkerInv, Bound
  <2>2. CASE v # w
    BY <1>2, <1>6, <1>7, <2>2 DEF FirstPhase, WorkerInv, Bound, FinalState
  <2> QED BY <2>1, <2>2
<1>11. /\ chan \in Seq(Messages)
       /\ Message(s) \in Messages
       /\ \A i \in DOMAIN chan : \E v \in Ahead : chan[i] = MessageOf(v, K + 1)
       /\ \A i, j \in DOMAIN chan : chan[i] = chan[j] => i = j
  <2>1. efAppend'[Parity(K)] \in Seq(Messages) BY <1>0, <1>1, ParityFacts DEF TypeOK
  <2>2. Message(s) \in Messages
    BY <1>0, <1>5, PointFacts DEF MessageOf, Summand, Messages, Polys
  <2> QED BY <1>0, <1>2, <1>6, <2>2, ParityFacts DEF FirstPhase, MessageInv
<1>12. \A i \in DOMAIN chan : chan[i] # Message(s)
  BY <1>5, <1>8, <1>11, MessageInjective DEF Ahead
<1>13. /\ efAppend'[Parity(K)] = Append(chan, Message(s))
       /\ efAppend'[Parity(K + 1)] = efAppend[Parity(K + 1)]
  BY <1>0, <1>6, ParityFacts
<1>14. MessageInv'
  <2>1. efAppend'[Parity(K + 1)] = <<>> BY <1>2, <1>13 DEF FirstPhase, MessageInv
  <2>2. \A i \in DOMAIN Append(chan, Message(s)) :
          \E v \in Ahead \union {w} : Append(chan, Message(s))[i] = MessageOf(v, K + 1)
    BY <1>5, <1>11, AppendProperties
  <2>3. \A i, j \in DOMAIN Append(chan, Message(s)) :
          Append(chan, Message(s))[i] = Append(chan, Message(s))[j] => i = j
    BY <1>11, <1>12, AppendProperties
  <2> QED BY <1>7, <1>8, <1>13, <2>1, <2>2, <2>3 DEF MessageInv
<1>15. SumInv'
  <2> SUFFICES ASSUME pc[Main] = "read" PROVE SumInv'
    BY <1>7 DEF SumInv
  <2>1. /\ evaluations \subseteq {MessageOf(t, K + 1) : t \in Ahead \union {Main}}
        /\ IsFiniteSet(evaluations)
        /\ Cardinality(evaluations) = reads + 1
        /\ \A i \in DOMAIN chan : chan[i] \notin evaluations
    BY <1>2 DEF FirstPhase, SumInv
  <2>2. Message(s) \notin evaluations
    BY <1>5, <1>8, <2>1, MessageInjective DEF Ahead
  <2>3. evaluations \subseteq {MessageOf(t, K + 1) : t \in (Ahead \union {w}) \union {Main}}
    BY <2>1
  <2>4. \A i \in DOMAIN Append(chan, Message(s)) : Append(chan, Message(s))[i] \notin evaluations
    BY <1>11, <2>1, <2>2, AppendProperties
  <2> QED BY <1>6, <1>7, <1>8, <1>13, <2>1, <2>3, <2>4 DEF SumInv, mainVars
<1>16. CopyInv' BY <1>2, <1>6, <1>7, <1>8 DEF FirstPhase, CopyInv, Unsent, mainVars
<1>17. CollectInv' BY <1>2, <1>6, <1>7, <1>8 DEF FirstPhase, CollectInv, mainVars
<1>18. BoundInv'
  <2> SUFFICES ASSUME NEW t \in Threads
               PROVE  \E n \in 0 .. K : state'[t].point = Sequential!Point(n)
    BY <1>7 DEF BoundInv
  <2>1. CASE t = w
    <3>1. state'[t].point = Sequential!Point(K) BY <1>4, <1>6, <2>1
    <3> QED BY <1>0, <3>1
  <2>2. CASE t # w
    BY <1>6, <2>2 DEF IInv, BoundInv
  <2> QED BY <2>1, <2>2
<1>19. RoundSums' BY <1>6, <1>7 DEF IInv, RoundSums, mainVars
<1> QED
  BY <1>1, <1>2, <1>7, <1>9, <1>10, <1>14, <1>15, <1>16, <1>17, <1>18, <1>19
  DEF IInv, FirstPhase, FreshInv, QuietInv, Phase2Inv

\* Taking a challenge keeps the invariant: the copy is of the round the worker
\* waits for, whichever worker takes it (sample_and_append_challenge).
LEMMA SampleStep ==
    ASSUME IInv, NEW w \in Workers, Sample(w)
    PROVE  IInv'
<1> USE ThreadFacts
<1> DEFINE K == Sampled
           chan == chalChan[Parity(K + 1)]
<1>0. K \in Nat BY SampledNat DEF IInv
<1>1. TypeOK' BY TypeNext DEF IInv, Next, WorkerStep
<1>2. Phase1 /\ FirstPhase /\ pc[Main] # "spawn" /\ pc[Main] # "phase2"
  BY DEF IInv, QuietInv, Sample, Phase1
<1>3. /\ K > 0
      /\ K <= NumVars
      /\ Bound(w, K, K - 1)
      /\ rolling[w] = Parity(K + 1)
  BY <1>0, <1>2, ParityFacts DEF FirstPhase, WorkerInv, MainInv, CopyInv, Sample
<1>4. /\ chan \in Seq(Nat) /\ chan # <<>>
      /\ Head(chan) = K
      /\ \A i \in DOMAIN chan : chan[i] = K
  <2>1. chan \in Seq(Nat) BY <1>0, ParityFacts DEF IInv, TypeOK
  <2>2. chan # <<>> BY <1>3 DEF Sample
  <2>3. \A i \in DOMAIN chan : chan[i] = K BY <1>2 DEF FirstPhase, CopyInv
  <2> QED BY <2>1, <2>2, <2>3
<1>5. state[w].round = K BY <1>3 DEF Bound
<1>6. /\ pc' = [pc EXCEPT ![w] = IF K = NumVars THEN "finish" ELSE "append"]
      /\ pc[w] = "sample" /\ pc \in [Threads -> Labels]
      /\ challenge' = [challenge EXCEPT ![w] = K] /\ challenge \in [Threads -> Nat]
      /\ chalChan' = [chalChan EXCEPT ![Parity(K + 1)] = Tail(chan)]
      /\ chalChan \in [Slots -> Seq(Nat)]
      /\ rolling' = [rolling EXCEPT ![w] = (@ + 1) % 2] /\ rolling \in [Threads -> Slots]
      /\ UNCHANGED <<state, efAppend, stateChan, mainVars>>
  BY <1>3, <1>4, <1>5 DEF Sample, Goto, CommitRolling, IInv, TypeOK
<1>7. Sampled' = K /\ pc'[Main] = pc[Main] /\ Phase1'
  BY <1>2, <1>6 DEF Sampled, mainVars, Phase1
<1>8. /\ Ahead' = Ahead
      /\ Waiting' = Waiting \ {w}
      /\ w \in Waiting
      /\ Ended' = Ended
      /\ Filled' = Filled
  BY <1>0, <1>5, <1>6, <1>7 DEF Ahead, Waiting, Ended, Filled, mainVars
<1>9. rolling'[w] = Parity(K)
  BY <1>0, <1>3, <1>6, ParityFacts
<1>10. MainInv'
  BY <1>2, <1>6, <1>7 DEF FirstPhase, MainInv, Bound, FinalState
<1>11. ASSUME NEW v \in Workers PROVE WorkerInv(v)'
  <2>1. CASE v = w /\ K = NumVars
    <3>1. pc'[w] = "finish" /\ state'[w] = state[w] /\ challenge'[w] = NumVars
      BY <1>6, <2>1
    <3> QED BY <1>3, <1>7, <2>1, <3>1 DEF WorkerInv, Bound
  <2>2. CASE v = w /\ K # NumVars
    <3>1. /\ pc'[w] = "append" /\ state'[w] = state[w] /\ challenge'[w] = K
          /\ K < NumVars /\ Pred(K) = K - 1
      BY <1>0, <1>3, <1>6, <2>2 DEF Pred
    <3> QED BY <1>3, <1>7, <1>9, <2>2, <3>1 DEF WorkerInv, Bound
  <2>3. CASE v # w
    BY <1>2, <1>6, <1>7, <2>3 DEF FirstPhase, WorkerInv, Bound, FinalState
  <2> QED BY <2>1, <2>2, <2>3
<1>12. MessageInv' /\ SumInv' /\ CollectInv'
  BY <1>2, <1>6, <1>7, <1>8 DEF FirstPhase, MessageInv, SumInv, CollectInv, mainVars
<1>13. CopyInv'
  <2>1. /\ chalChan'[Parity(K)] = chalChan[Parity(K)]
        /\ chalChan'[Parity(K + 1)] = Tail(chan)
    BY <1>0, <1>6, ParityFacts
  <2>2. /\ Len(Tail(chan)) = Len(chan) - 1
        /\ \A i \in DOMAIN Tail(chan) : Tail(chan)[i] = K
    BY <1>4, HeadTailProperties
  <2>3. IsFiniteSet(Waiting) /\ Cardinality(Waiting \ {w}) = Cardinality(Waiting) - 1
    <3>1. Waiting \subseteq Threads BY DEF Waiting
    <3>2. IsFiniteSet(Waiting) BY <3>1, FiniteThreads
    <3> QED BY <1>8, <3>2, FS_RemoveElement
  <2>4. Len(chan) + Unsent = Cardinality(Waiting) /\ chalChan[Parity(K)] = <<>>
    BY <1>2 DEF FirstPhase, CopyInv
  <2>5. Unsent' = Unsent BY <1>6, <1>7 DEF Unsent, mainVars
  <2>6. Unsent \in Int /\ Len(chan) \in Nat
    BY <1>4, LenProperties DEF Unsent, IInv, TypeOK
  <2> QED BY <1>7, <1>8, <2>1, <2>2, <2>3, <2>4, <2>5, <2>6, FS_CardinalityType DEF CopyInv
<1>14. BoundInv' /\ RoundSums'
  BY <1>6, <1>7 DEF IInv, BoundInv, RoundSums, mainVars
<1> QED
  BY <1>1, <1>2, <1>7, <1>10, <1>11, <1>12, <1>13, <1>14
  DEF IInv, FirstPhase, FreshInv, QuietInv, Phase2Inv

\* A final state leaves no doubt whose it is, and is never the default one.
LEMMA FinalStateFacts ==
    ASSUME NEW t \in Threads
    PROVE  /\ FinalState(t) \in States
           /\ FinalState(t) # DefaultState
           /\ FinalState(t).poly = <<t>>
           /\ FinalState(t).point = Sequential!Point(NumVars)
<1>1. FinalState(t) \in States
  BY ThreadFacts, PointFacts DEF FinalState, States, Polys
<1>2. FinalState(t).poly = <<t>> /\ FinalState(t).point = Sequential!Point(NumVars)
  BY DEF FinalState
<1>3. DefaultState.poly = <<>> BY DEF DefaultState, ProverInit
<1>4. <<t>> # <<>> OBVIOUS
<1> QED BY <1>1, <1>2, <1>3, <1>4

\* A worker's final state is in its channel once (the end of the spawned closure).
LEMMA FinishStep ==
    ASSUME IInv, NEW w \in Workers, Finish(w)
    PROVE  IInv'
<1> USE ThreadFacts
<1> DEFINE K == Sampled
           s == PushAndFix(state[w], challenge[w])
<1>0. K \in Nat BY SampledNat DEF IInv
<1>1. TypeOK' BY TypeNext DEF IInv, Next, WorkerStep
<1>2. Phase1 /\ FirstPhase /\ pc[Main] # "spawn" /\ pc[Main] # "phase2"
  BY DEF IInv, QuietInv, Finish, Phase1
<1>3. /\ K = NumVars /\ K > 0
      /\ Bound(w, NumVars, NumVars - 1)
      /\ challenge[w] = NumVars
  BY <1>2 DEF FirstPhase, WorkerInv, Finish
<1>4. s = FinalState(w)
  <2>1. NumVars - 1 \in Nat /\ (NumVars - 1) + 1 = NumVars BY <1>3
  <2> QED BY <1>3, <2>1, BoundPush DEF FinalState
<1> HIDE DEF s
<1>5. /\ pc' = [pc EXCEPT ![w] = "done"] /\ pc[w] = "finish" /\ pc \in [Threads -> Labels]
      /\ state' = [state EXCEPT ![w] = FinalState(w)] /\ state \in [Threads -> States]
      /\ stateChan' = Append(stateChan, <<w, FinalState(w)>>)
      /\ stateChan \in Seq(Threads \X States)
      /\ UNCHANGED <<challenge, rolling, efAppend, chalChan, mainVars>>
  BY <1>4 DEF Finish, Goto, IInv, TypeOK, s
<1>6. Sampled' = K /\ pc'[Main] = pc[Main] /\ Phase1'
  BY <1>2, <1>5 DEF Sampled, mainVars, Phase1
<1>7. /\ Ahead' = Ahead
      /\ Waiting' = Waiting
      /\ Ended' = Ended \union {w}
      /\ w \notin Ended
      /\ Filled' = Filled
  BY <1>5, <1>6 DEF Ahead, Waiting, Ended, Filled, mainVars
<1>8. MainInv'
  BY <1>2, <1>5, <1>6 DEF FirstPhase, MainInv, Bound, FinalState
<1>9. ASSUME NEW v \in Workers PROVE WorkerInv(v)'
  <2>1. CASE v = w
    <3>1. pc'[w] = "done" /\ state'[w] = FinalState(w) BY <1>5
    <3> QED BY <1>3, <1>6, <2>1, <3>1 DEF WorkerInv, FinalState
  <2>2. CASE v # w
    BY <1>2, <1>5, <1>6, <2>2 DEF FirstPhase, WorkerInv, Bound, FinalState
  <2> QED BY <2>1, <2>2
<1>10. MessageInv' /\ SumInv' /\ CopyInv'
  BY <1>2, <1>5, <1>6, <1>7 DEF FirstPhase, MessageInv, SumInv, CopyInv, Unsent, mainVars
<1>11. CollectInv'
  <2> DEFINE e == <<w, FinalState(w)>>
  <2>1. /\ \A i \in DOMAIN stateChan :
              \E t \in Ended \ Filled : stateChan[i] = <<t, FinalState(t)>>
        /\ \A i, j \in DOMAIN stateChan : stateChan[i] = stateChan[j] => i = j
        /\ \A t \in Filled : t \in Ended /\ proverStates[t] = FinalState(t)
        /\ IF pc[Main] = "collect" THEN Cardinality(Filled) = reads ELSE Filled = {}
    BY <1>2 DEF FirstPhase, CollectInv
  <2>2. w \notin Filled BY <1>7, <2>1
  <2>3. \A i \in DOMAIN stateChan : stateChan[i] # e BY <1>7, <2>1
  <2>4. e \in Threads \X States BY FinalStateFacts
  <2> HIDE DEF e
  <2>5. \A i \in DOMAIN Append(stateChan, e) :
           \E t \in (Ended \union {w}) \ Filled : Append(stateChan, e)[i] = <<t, FinalState(t)>>
    BY <1>5, <2>1, <2>2, <2>4, AppendProperties DEF e
  <2>6. \A i, j \in DOMAIN Append(stateChan, e) :
           Append(stateChan, e)[i] = Append(stateChan, e)[j] => i = j
    BY <1>5, <2>1, <2>3, <2>4, AppendProperties
  <2>7. stateChan' = Append(stateChan, e) BY <1>5 DEF e
  <2> QED BY <1>5, <1>6, <1>7, <2>1, <2>5, <2>6, <2>7 DEF CollectInv, mainVars
<1>12. BoundInv'
  <2> SUFFICES ASSUME NEW t \in Threads
               PROVE  \E n \in 0 .. K : state'[t].point = Sequential!Point(n)
    BY <1>6 DEF BoundInv
  <2>1. CASE t = w
    <3>1. state'[t].point = Sequential!Point(NumVars) BY <1>5, <2>1, FinalStateFacts
    <3> QED BY <1>0, <1>3, <3>1
  <2>2. CASE t # w
    BY <1>5, <2>2 DEF IInv, BoundInv
  <2> QED BY <2>1, <2>2
<1>13. RoundSums' BY <1>5, <1>6 DEF IInv, RoundSums, mainVars
<1> QED
  BY <1>1, <1>2, <1>6, <1>8, <1>9, <1>10, <1>11, <1>12, <1>13
  DEF IInv, FirstPhase, FreshInv, QuietInv, Phase2Inv

\* What merging gives when every state holds its own slice.
LEMMA MergeIs ==
    ASSUME NEW states \in [Threads -> States], NEW q,
           \A t \in Threads : states[t].poly = <<t>> /\ states[t].point = q
    PROVE  /\ MergeStates(states).poly = Sequential!WholePoly
           /\ MergeStates(states).point = q
           /\ MergeStates(states).round = 0
<1> USE ThreadFacts
<1>1. ASSUME NEW i \in 1 .. NumThreads
      PROVE  (IF states[i - 1].poly = <<>> THEN NoSlice ELSE Head(states[i - 1].poly)) = i - 1
  <2>1. i - 1 \in Threads OBVIOUS
  <2>2. states[i - 1].poly = <<i - 1>> BY <2>1
  <2>3. <<i - 1>> # <<>> /\ Head(<<i - 1>>) = i - 1 OBVIOUS
  <2> QED BY <2>2, <2>3
<1> QED BY <1>1 DEF MergeStates, Sequential!WholePoly

\* Spawning starts the first phase, skips it or panics, with nothing in a channel.
LEMMA SpawnStep ==
    ASSUME IInv, Spawn
    PROVE  IInv'
<1> USE ThreadFacts
<1>0. Sampled \in Nat BY SampledNat DEF IInv
<1>1. TypeOK' BY TypeNext DEF IInv, Next, MainStep
<1>2. /\ Sampled = 0
      /\ \A t \in Threads : Bound(t, 0, 0) /\ challenge[t] = 0 /\ rolling[t] = 0
      /\ \A b \in Slots : efAppend[b] = <<>> /\ chalChan[b] = <<>>
      /\ stateChan = <<>>
      /\ \A t \in Threads : proverStates[t] = DefaultState
  BY DEF IInv, FreshInv, Spawn
<1>3. /\ UNCHANGED <<challenge, rolling, state, efAppend, chalChan, stateChan>>
      /\ UNCHANGED <<evaluations, reads, sends, transcript, proverMsgs, proverStates>>
  BY DEF Spawn
<1>4. Sampled' = 0 BY <1>2, <1>3 DEF Sampled
<1>5. BoundInv' /\ RoundSums'
  BY <1>3, <1>4, <1>2 DEF IInv, BoundInv, RoundSums, Sampled
<1>6. CASE pc' = [t \in Threads |-> IF t = Main THEN "prove" ELSE "spawned"] /\ NumVars > 0
  <2>1. pc'[Main] = "prove" /\ Phase1' BY <1>6 DEF Phase1
  <2>2. \A w \in Workers : pc'[w] = "spawned" BY <1>6
  <2>3. Pred(0) = 0 /\ Parity(0) = 0 BY DEF Pred, Parity
  <2>4. MainInv' BY <1>2, <1>3, <1>4, <1>6, <2>1, <2>3 DEF MainInv, Bound
  <2>5. ASSUME NEW w \in Workers PROVE WorkerInv(w)'
    BY <1>2, <1>3, <1>4, <1>6, <2>2, <2>3 DEF WorkerInv, Bound
  <2>6. /\ Ahead' = {} /\ Waiting' = {} /\ Filled' = {} /\ Unsent' = 0
    BY <1>2, <1>3, <2>1, <2>2 DEF Ahead, Waiting, Filled, Unsent
  <2>6a. /\ efAppend'[Parity(Sampled')] = <<>> /\ efAppend'[Parity(Sampled' + 1)] = <<>>
         /\ chalChan'[Parity(Sampled')] = <<>> /\ chalChan'[Parity(Sampled' + 1)] = <<>>
    BY <1>0, <1>2, <1>3, <1>4, ParityFacts
  <2>7. MessageInv' /\ SumInv'
    BY <2>1, <2>6a DEF MessageInv, SumInv
  <2>8. CopyInv'
    <3>1. Cardinality(Waiting') = 0 BY <2>6, FS_EmptySet
    <3>2. Len(chalChan'[Parity(Sampled' + 1)]) = 0 BY <2>6a
    <3> QED BY <2>6, <2>6a, <3>1, <3>2 DEF CopyInv
  <2>9. CollectInv' BY <1>2, <1>3, <2>1, <2>6 DEF CollectInv
  <2> QED
    BY <1>1, <1>5, <2>1, <2>4, <2>5, <2>7, <2>8, <2>9
    DEF IInv, FirstPhase, FreshInv, QuietInv, Phase2Inv
<1>7. CASE Goto(Main, "panicked")
  <2>1. pc'[Main] = "panicked" /\ \A w \in Workers : pc'[w] = pc[w]
    BY <1>7 DEF Goto, IInv, TypeOK
  <2>2. ~Phase1 /\ ~Phase1' BY <2>1 DEF Phase1, Spawn
  <2> QED
    BY <1>1, <1>5, <2>1, <2>2 DEF IInv, FreshInv, QuietInv, Phase2Inv
<1>8. CASE NumVars = 0 /\ merged' = MergeStates(state) /\ Goto(Main, "phase2")
  <2>1. pc'[Main] = "phase2" /\ \A w \in Workers : pc'[w] = pc[w]
    BY <1>8 DEF Goto, IInv, TypeOK
  <2>2. ~Phase1 /\ ~Phase1' BY <2>1 DEF Phase1, Spawn
  <2>3. ASSUME NEW t \in Threads
        PROVE  state[t].poly = <<t>> /\ state[t].point = Sequential!Point(0)
    <3>1. state[t] = [poly |-> <<t>>, point |-> Sequential!Point(0), round |-> 0]
      BY <1>2 DEF Bound
    <3> QED BY <3>1
  <2>4. /\ merged'.poly = Sequential!WholePoly
        /\ merged'.point = Sequential!Point(0)
        /\ merged'.round = 0
    BY <1>8, <2>3, MergeIs DEF IInv, TypeOK
  <2>5. Phase2Inv' BY <1>4, <1>8, <2>4 DEF Phase2Inv
  <2> QED
    BY <1>1, <1>5, <2>1, <2>2, <2>5 DEF IInv, FreshInv, QuietInv
<1> QED BY <1>6, <1>7, <1>8 DEF Spawn

\* The main thread's own message starts the sum of the next round.
LEMMA MainProveStep ==
    ASSUME IInv, MainProve
    PROVE  IInv'
<1> USE ThreadFacts
<1> DEFINE K == Sampled
           s == ProveRound(state[Main], challenge[Main])
<1>0. K \in Nat BY SampledNat DEF IInv
<1>1. TypeOK' BY TypeNext DEF IInv, Next, MainStep
<1>2. Phase1 /\ FirstPhase /\ pc[Main] = "prove"
  BY DEF IInv, MainProve, Phase1
<1>3. /\ K < NumVars
      /\ Bound(Main, K, Pred(K))
      /\ challenge[Main] = K
      /\ rolling[Main] = Parity(K)
  BY <1>2 DEF FirstPhase, MainInv
<1>4. s = [poly |-> <<Main>>, point |-> Sequential!Point(K), round |-> K + 1]
  BY <1>0, <1>3, BoundProve
<1>5. Message(s) = MessageOf(Main, K + 1)
  BY <1>0, <1>4 DEF Message, MessageOf, Summand
<1> HIDE DEF s
<1>6. /\ pc' = [pc EXCEPT ![Main] = "read"] /\ pc \in [Threads -> Labels]
      /\ state' = [state EXCEPT ![Main] = s] /\ state \in [Threads -> States]
      /\ evaluations' = {MessageOf(Main, K + 1)}
      /\ reads' = 0
      /\ UNCHANGED <<challenge, rolling, efAppend, chalChan, stateChan, sends, transcript,
                     proverMsgs, proverStates, merged, result>>
  BY <1>5 DEF MainProve, Goto, IInv, TypeOK, s
<1>7. Sampled' = K /\ pc'[Main] = "read" /\ Phase1' /\ \A w \in Workers : pc'[w] = pc[w]
  BY <1>6 DEF Sampled, Phase1
<1>8. /\ Ahead' = Ahead /\ Waiting' = Waiting /\ Filled' = Filled /\ Unsent' = Unsent
      /\ Ended' = Ended
  BY <1>2, <1>6, <1>7 DEF Ahead, Waiting, Ended, Filled, Unsent
<1>9. MainInv'
  <2>1. state'[Main] = s BY <1>6
  <2> QED BY <1>0, <1>3, <1>4, <1>6, <1>7, <2>1 DEF MainInv, Bound
<1>10. \A w \in Workers : WorkerInv(w)'
  BY <1>2, <1>6, <1>7 DEF FirstPhase, WorkerInv, Bound, FinalState
<1>11. MessageInv' BY <1>2, <1>6, <1>7, <1>8 DEF FirstPhase, MessageInv
<1>12. SumInv'
  <2>1. evaluations' \subseteq {MessageOf(t, K + 1) : t \in Ahead \union {Main}} BY <1>6
  <2> DEFINE one == MessageOf(Main, K + 1)
  <2> HIDE DEF one
  <2>2. IsFiniteSet({one}) /\ Cardinality({one}) = 0 + 1
    <3>1. \A x : IsFiniteSet({x}) /\ Cardinality({x}) = 1 BY FS_Singleton
    <3>2. IsFiniteSet({one}) /\ Cardinality({one}) = 1 BY <3>1
    <3> QED BY <3>2
  <2>3. \A i \in DOMAIN efAppend[Parity(K)] : efAppend[Parity(K)][i] # MessageOf(Main, K + 1)
    BY <1>2, MessageInjective DEF FirstPhase, MessageInv, Ahead
  <2>4. evaluations' = {one} BY <1>6 DEF one
  <2> QED BY <1>6, <1>7, <1>8, <2>1, <2>2, <2>3, <2>4 DEF SumInv
<1>13. CopyInv' BY <1>2, <1>6, <1>7, <1>8 DEF FirstPhase, CopyInv
<1>14. CollectInv' BY <1>2, <1>6, <1>7, <1>8 DEF FirstPhase, CollectInv
<1>15. BoundInv'
  <2> SUFFICES ASSUME NEW t \in Threads
               PROVE  \E n \in 0 .. K : state'[t].point = Sequential!Point(n)
    BY <1>7 DEF BoundInv
  <2>1. CASE t = Main
    <3>1. state'[t].point = Sequential!Point(K) BY <1>4, <1>6, <2>1
    <3> QED BY <1>0, <3>1
  <2>2. CASE t # Main
    BY <1>6, <2>2 DEF IInv, BoundInv
  <2> QED BY <2>1, <2>2
<1>16. RoundSums' BY <1>6, <1>7 DEF IInv, RoundSums
<1> QED
  BY <1>1, <1>7, <1>9, <1>10, <1>11, <1>12, <1>13, <1>14, <1>15, <1>16
  DEF IInv, FirstPhase, FreshInv, QuietInv, Phase2Inv

\* Reading a message adds a worker's summand that was not there
\* (read_field_element_exts).
LEMMA MainReadStep ==
    ASSUME IInv, MainRead
    PROVE  IInv'
<1> USE ThreadFacts
<1> DEFINE K == Sampled
           chan == efAppend[Parity(K)]
           m == Head(chan)
<1>0. K \in Nat BY SampledNat DEF IInv
<1>1. TypeOK' BY TypeNext DEF IInv, Next, MainStep
<1>2. Phase1 /\ FirstPhase /\ pc[Main] = "read"
  BY DEF IInv, MainRead, Phase1
<1>3. rolling[Main] = Parity(K)
  BY <1>2 DEF FirstPhase, MainInv
<1>4. /\ evaluations' = evaluations \union {m}
      /\ efAppend' = [efAppend EXCEPT ![Parity(K)] = Tail(chan)]
      /\ efAppend \in [Slots -> Seq(Messages)]
      /\ chan # <<>>
      /\ reads < NumWorkers /\ reads' = reads + 1 /\ reads \in Nat
      /\ UNCHANGED <<pc, challenge, rolling, state, chalChan, stateChan,
                     sends, transcript, proverMsgs, proverStates, merged, result>>
  BY <1>3 DEF MainRead, IInv, TypeOK
<1>5. Sampled' = K /\ Phase1'
  BY <1>2, <1>4 DEF Sampled, Phase1
<1>6. /\ Ahead' = Ahead /\ Waiting' = Waiting /\ Filled' = Filled /\ Unsent' = Unsent
      /\ Ended' = Ended
  BY <1>4, <1>5 DEF Ahead, Waiting, Ended, Filled, Unsent
<1>7. /\ efAppend'[Parity(K)] = Tail(chan)
      /\ efAppend'[Parity(K + 1)] = efAppend[Parity(K + 1)]
  BY <1>0, <1>4, ParityFacts
<1>8. /\ \A i \in DOMAIN chan : \E w \in Ahead : chan[i] = MessageOf(w, K + 1)
      /\ \A i, j \in DOMAIN chan : chan[i] = chan[j] => i = j
      /\ evaluations \subseteq {MessageOf(t, K + 1) : t \in Ahead \union {Main}}
      /\ IsFiniteSet(evaluations)
      /\ Cardinality(evaluations) = reads + 1
      /\ \A i \in DOMAIN chan : chan[i] \notin evaluations
  BY <1>2 DEF FirstPhase, MessageInv, SumInv
<1>9. chan \in Seq(Messages) BY <1>0, <1>4, ParityFacts
<1>10. /\ 1 \in DOMAIN chan /\ m = chan[1]
       /\ \A i \in DOMAIN Tail(chan) : i + 1 \in DOMAIN chan /\ Tail(chan)[i] = chan[i + 1]
       /\ \A i \in DOMAIN Tail(chan) : i \in Nat \ {0}
  BY <1>4, <1>9, HeadTailProperties, LenProperties
<1> HIDE DEF m
<1>11. MessageInv'
  <2>1. ASSUME NEW i \in DOMAIN Tail(chan)
        PROVE  \E w \in Ahead : Tail(chan)[i] = MessageOf(w, K + 1)
    <3>1. i + 1 \in DOMAIN chan /\ Tail(chan)[i] = chan[i + 1] BY <1>10
    <3>2. PICK w \in Ahead : chan[i + 1] = MessageOf(w, K + 1) BY <3>1, <1>8
    <3> QED BY <3>1, <3>2
  <2>2. ASSUME NEW i \in DOMAIN Tail(chan), NEW j \in DOMAIN Tail(chan),
               Tail(chan)[i] = Tail(chan)[j]
        PROVE  i = j
    <3>1. /\ i + 1 \in DOMAIN chan /\ Tail(chan)[i] = chan[i + 1]
          /\ j + 1 \in DOMAIN chan /\ Tail(chan)[j] = chan[j + 1]
      BY <1>10
    <3>2. i + 1 = j + 1 BY <2>2, <3>1, <1>8
    <3>3. i \in Nat /\ j \in Nat BY <1>10
    <3> QED BY <3>2, <3>3
  <2> QED BY <1>2, <1>5, <1>6, <1>7, <2>1, <2>2 DEF FirstPhase, MessageInv
<1>12. SumInv'
  <2>1. m \notin evaluations BY <1>8, <1>10
  <2>2. IsFiniteSet(evaluations \union {m}) /\ Cardinality(evaluations \union {m}) = reads' + 1
    BY <1>4, <1>8, <2>1, FS_AddElement
  <2>3. evaluations \union {m} \subseteq {MessageOf(t, K + 1) : t \in Ahead \union {Main}}
    BY <1>8, <1>10
  <2>4. \A i \in DOMAIN Tail(chan) : Tail(chan)[i] \notin evaluations \union {m}
    BY <1>8, <1>10
  <2>5. evaluations' = evaluations \union {m} BY <1>4
  <2> QED BY <1>5, <1>6, <1>7, <2>2, <2>3, <2>4, <2>5 DEF SumInv
<1>13. MainInv' /\ \A w \in Workers : WorkerInv(w)'
  BY <1>2, <1>4, <1>5 DEF FirstPhase, MainInv, WorkerInv, Bound, FinalState
<1>14. CopyInv' /\ CollectInv'
  BY <1>2, <1>4, <1>5, <1>6 DEF FirstPhase, CopyInv, CollectInv
<1>15. BoundInv' /\ RoundSums'
  BY <1>4, <1>5 DEF IInv, BoundInv, RoundSums
<1> QED
  BY <1>1, <1>2, <1>4, <1>5, <1>11, <1>12, <1>13, <1>14, <1>15
  DEF IInv, FirstPhase, FreshInv, QuietInv, Phase2Inv

\* There are no more messages of one round than threads.
LEMMA RoundMessages ==
    ASSUME NEW n
    PROVE  LET S == {MessageOf(t, n) : t \in Threads}
           IN  IsFiniteSet(S) /\ Cardinality(S) <= NumThreads
<1> DEFINE S == {MessageOf(t, n) : t \in Threads}
           f == [t \in Threads |-> MessageOf(t, n)]
<1>1. f \in Surjection(Threads, S) BY DEF Surjection
<1>2. IsFiniteSet(S) /\ Cardinality(S) <= Cardinality(Threads)
  BY <1>1, FiniteThreads, FS_Surjection
<1> QED BY <1>2, FiniteThreads

\* When as many messages as workers are read the sum is complete: this is where
\* counting replaces addressing (phase1_sumcheck).
LEMMA MainAbsorbStep ==
    ASSUME IInv, MainAbsorb
    PROVE  IInv'
<1> USE ThreadFacts
<1> DEFINE K == Sampled
           S == {MessageOf(t, K + 1) : t \in Threads}
<1>0. K \in Nat /\ Len(transcript) = K + 1 BY SampledNat DEF IInv
<1>1. TypeOK' BY TypeNext DEF IInv, Next, MainStep
<1>2. Phase1 /\ FirstPhase /\ pc[Main] = "read" /\ reads = NumWorkers
  BY DEF IInv, MainAbsorb, Phase1
<1>3. /\ K < NumVars
      /\ Bound(Main, K + 1, K)
      /\ rolling[Main] = Parity(K)
  BY <1>2 DEF FirstPhase, MainInv
<1>4. /\ pc' = [pc EXCEPT ![Main] = "send"] /\ pc \in [Threads -> Labels]
      /\ transcript' = Append(transcript, evaluations)
      /\ challenge' = [challenge EXCEPT ![Main] = K + 1] /\ challenge \in [Threads -> Nat]
      /\ sends' = 0
      /\ UNCHANGED <<rolling, state, efAppend, chalChan, stateChan, evaluations, reads,
                     proverMsgs, proverStates, merged, result>>
  BY <1>0 DEF MainAbsorb, Goto, IInv, TypeOK, NextChallenge
<1>5. /\ Sampled' = K + 1
      /\ \A n \in 1 .. K + 1 : transcript'[n] = transcript[n]
      /\ transcript'[K + 2] = evaluations
  <2>1. /\ transcript \in Seq(SUBSET (Messages \union {Sequential!Header}))
        /\ evaluations \in SUBSET (Messages \union {Sequential!Header})
    BY DEF IInv, TypeOK
  <2> QED BY <1>0, <1>4, <2>1, AppendProperties DEF Sampled
<1>6. pc'[Main] = "send" /\ Phase1' /\ \A w \in Workers : pc'[w] = pc[w]
  BY <1>4 DEF Phase1
<1>7. evaluations = S
  <2>1. /\ evaluations \subseteq S
        /\ IsFiniteSet(evaluations)
        /\ Cardinality(evaluations) = NumThreads
    BY <1>2 DEF FirstPhase, SumInv, Ahead
  <2>2. IsFiniteSet(S) /\ Cardinality(S) <= NumThreads BY RoundMessages
  <2>3. Cardinality(evaluations) <= Cardinality(S) BY <2>1, <2>2, FS_Subset
  <2>4. Cardinality(evaluations) = Cardinality(S)
    BY <2>1, <2>2, <2>3, FS_CardinalityType
  <2> QED BY <2>1, <2>2, <2>4, FS_Subset
<1>8. Ahead = Workers
  <2>1. ASSUME NEW w \in Workers PROVE w \in Ahead
    <3>1. MessageOf(w, K + 1) \in {MessageOf(t, K + 1) : t \in Ahead \union {Main}}
      BY <1>2, <1>7 DEF FirstPhase, SumInv
    <3>2. PICK t \in Ahead \union {Main} : MessageOf(w, K + 1) = MessageOf(t, K + 1)
      BY <3>1
    <3>3. t \in Threads BY DEF Ahead
    <3>4. t = w BY <3>2, <3>3, MessageInjective
    <3> QED BY <3>4
  <2> QED BY <2>1 DEF Ahead
<1>9. \A w \in Workers : pc[w] = "sample" /\ state[w].round = K + 1
  BY <1>8 DEF Ahead
<1>10. efAppend[Parity(K)] = <<>> /\ efAppend[Parity(K + 1)] = <<>>
  <2>1. efAppend[Parity(K)] \in Seq(Messages) BY <1>0, ParityFacts DEF IInv, TypeOK
  <2>2. \A i \in DOMAIN efAppend[Parity(K)] : FALSE
    BY <1>2, <1>7 DEF FirstPhase, MessageInv, SumInv, Ahead
  <2>3. efAppend[Parity(K)] = <<>>
    <3>1. DOMAIN efAppend[Parity(K)] = 1 .. Len(efAppend[Parity(K)])
          /\ Len(efAppend[Parity(K)]) \in Nat
      BY <2>1, LenProperties
    <3>2. ASSUME Len(efAppend[Parity(K)]) > 0 PROVE FALSE
      <4>1. 1 \in DOMAIN efAppend[Parity(K)] BY <3>1, <3>2
      <4> QED BY <2>2, <4>1
    <3> QED BY <2>1, <3>1, <3>2, EmptySeq
  <2> QED BY <1>2, <2>3 DEF FirstPhase, MessageInv
<1>11. chalChan[Parity(K)] = <<>> /\ chalChan[Parity(K + 1)] = <<>>
  <2>1. Waiting = {} BY <1>0, <1>9 DEF Waiting
  <2>2. Cardinality(Waiting) = 0 /\ Unsent = 0 BY <1>2, <2>1, FS_EmptySet DEF Unsent
  <2>3. chalChan[Parity(K + 1)] \in Seq(Nat) BY <1>0, ParityFacts DEF IInv, TypeOK
  <2>4. Len(chalChan[Parity(K + 1)]) + 0 = 0 BY <1>2, <2>2 DEF FirstPhase, CopyInv
  <2>5. Len(chalChan[Parity(K + 1)]) \in Nat BY <2>3, LenProperties
  <2>6. chalChan[Parity(K + 1)] = <<>> BY <2>3, <2>4, <2>5, EmptySeq
  <2> QED BY <1>2, <2>6 DEF FirstPhase, CopyInv
<1>12. Parity(Sampled') = Parity(K + 1) /\ Parity(Sampled' + 1) = Parity(K)
  <2>1. (K + 1) + 1 = K + 2 BY <1>0
  <2> QED BY <1>0, <1>5, <2>1, ParityFacts
<1>13. Waiting' = Workers /\ Ended' = Ended /\ Filled' = Filled
  BY <1>2, <1>4, <1>5, <1>6, <1>9 DEF Waiting, Ended, Filled
<1>14. MainInv'
  BY <1>0, <1>3, <1>4, <1>5, <1>6, <1>12 DEF MainInv, Bound
<1>15. ASSUME NEW w \in Workers PROVE WorkerInv(w)'
  <2>1. pc'[w] = "sample" /\ state'[w] = state[w] /\ rolling'[w] = rolling[w]
    BY <1>4, <1>6, <1>9
  <2>2. Bound(w, K + 1, K) /\ rolling[w] = Parity(K)
    <3>1. \/ Bound(w, K, K - 1)
          \/ Bound(w, K + 1, K) /\ rolling[w] = Parity(K)
      BY <1>2, <1>9 DEF FirstPhase, WorkerInv
    <3>2. ~Bound(w, K, K - 1) BY <1>0, <1>9 DEF Bound
    <3> QED BY <3>1, <3>2
  <2>3. Sampled' > 0 /\ Sampled' - 1 = K BY <1>0, <1>5
  <2> QED BY <1>5, <1>12, <2>1, <2>2, <2>3 DEF WorkerInv, Bound
<1>16. MessageInv' /\ SumInv'
  BY <1>4, <1>6, <1>10, <1>12 DEF MessageInv, SumInv
<1>17. CopyInv'
  <2>1. Unsent' = NumWorkers BY <1>4, <1>6 DEF Unsent
  <2>2. Cardinality(Waiting') = NumWorkers BY <1>13, FiniteThreads
  <2>3. Len(chalChan'[Parity(Sampled' + 1)]) = 0 BY <1>4, <1>11, <1>12
  <2>4. /\ chalChan'[Parity(Sampled')] = <<>>
        /\ chalChan'[Parity(Sampled' + 1)] = <<>>
    BY <1>4, <1>11, <1>12
  <2> QED BY <2>1, <2>2, <2>3, <2>4 DEF CopyInv
<1>18. CollectInv' BY <1>2, <1>4, <1>6, <1>13 DEF FirstPhase, CollectInv
<1>19. BoundInv'
  <2>1. ASSUME NEW t \in Threads
        PROVE  \E n \in 0 .. K + 1 : state'[t].point = Sequential!Point(n)
    <3>1. PICK n \in 0 .. K : state[t].point = Sequential!Point(n) BY DEF IInv, BoundInv
    <3>2. n \in 0 .. K + 1 BY <1>0
    <3> QED BY <1>4, <3>1, <3>2
  <2> QED BY <1>5, <2>1 DEF BoundInv
<1>20. RoundSums'
  <2>1. evaluations = Sequential!RoundMessage(K + 1)
    <3>1. Sequential!RoundMessage(K + 1)
            = {Sequential!Summand(Sequential!SliceOf(t), Sequential!Point(K)) : t \in Threads}
      BY <1>0, <1>3 DEF Sequential!RoundMessage, Sequential!Slices
    <3>2. S = {Summand(<<t>>, Sequential!Point(K)) : t \in Threads}
      BY <1>0 DEF MessageOf
    <3> QED BY <1>7, <3>1, <3>2 DEF Summand, Sequential!Summand, Sequential!SliceOf
  <2>2. ASSUME NEW n \in 1 .. K + 1 PROVE transcript'[n + 1] = Sequential!RoundMessage(n)
    <3>1. CASE n = K + 1 BY <1>0, <1>5, <2>1, <3>1
    <3>2. CASE n # K + 1
      <4>1. n \in 1 .. K /\ n + 1 \in 1 .. K + 1 BY <1>0, <3>2
      <4>2. transcript[n + 1] = Sequential!RoundMessage(n)
        BY <1>0, <4>1 DEF IInv, RoundSums
      <4> QED BY <1>5, <4>1, <4>2
    <3> QED BY <3>1, <3>2
  <2>3. Len(transcript') - 1 = K + 1 BY <1>5 DEF Sampled
  <2> QED BY <2>2, <2>3 DEF RoundSums
<1> QED
  BY <1>1, <1>6, <1>14, <1>15, <1>16, <1>17, <1>18, <1>19, <1>20
  DEF IInv, FirstPhase, FreshInv, QuietInv, Phase2Inv

\* A copy of the challenge is sent for a worker that waits (send_challenge).
LEMMA MainSendStep ==
    ASSUME IInv, MainSend
    PROVE  IInv'
<1> USE ThreadFacts
<1> DEFINE K == Sampled
           chan == chalChan[Parity(K + 1)]
<1>0. K \in Nat BY SampledNat DEF IInv
<1>1. TypeOK' BY TypeNext DEF IInv, Next, MainStep
<1>2. Phase1 /\ FirstPhase /\ pc[Main] = "send"
  BY DEF IInv, MainSend, Phase1
<1>3. challenge[Main] = K /\ rolling[Main] = Parity(K + 1)
  BY <1>2 DEF FirstPhase, MainInv
<1>4. /\ chalChan' = [chalChan EXCEPT ![Parity(K + 1)] = Append(chan, K)]
      /\ chalChan \in [Slots -> Seq(Nat)]
      /\ sends' = sends + 1 /\ sends \in Nat
      /\ UNCHANGED <<pc, challenge, rolling, state, efAppend, stateChan, evaluations, reads,
                     transcript, proverMsgs, proverStates, merged, result>>
  BY <1>3 DEF MainSend, IInv, TypeOK
<1>5. Sampled' = K /\ Phase1'
  BY <1>2, <1>4 DEF Sampled, Phase1
<1>6. Ahead' = Ahead /\ Waiting' = Waiting /\ Filled' = Filled /\ Ended' = Ended
  BY <1>4, <1>5 DEF Ahead, Waiting, Ended, Filled
<1>7. MainInv' /\ \A w \in Workers : WorkerInv(w)'
  BY <1>2, <1>4, <1>5 DEF FirstPhase, MainInv, WorkerInv, Bound, FinalState
<1>8. MessageInv' /\ SumInv' /\ CollectInv'
  BY <1>2, <1>4, <1>5, <1>6 DEF FirstPhase, MessageInv, SumInv, CollectInv
<1>9. CopyInv'
  <2>1. /\ chalChan'[Parity(K)] = chalChan[Parity(K)]
        /\ chalChan'[Parity(K + 1)] = Append(chan, K)
    BY <1>0, <1>4, ParityFacts
  <2>2. chan \in Seq(Nat) BY <1>0, <1>4, ParityFacts
  <2>3. /\ \A i \in DOMAIN chan : chan[i] = K
        /\ Len(chan) + Unsent = Cardinality(Waiting)
        /\ chalChan[Parity(K)] = <<>>
    BY <1>2 DEF FirstPhase, CopyInv
  <2>4. /\ \A i \in DOMAIN Append(chan, K) : Append(chan, K)[i] = K
        /\ Len(Append(chan, K)) = Len(chan) + 1 /\ Len(chan) \in Nat
    BY <1>0, <2>2, <2>3, AppendProperties, LenProperties
  <2>5. Unsent' = Unsent - 1 /\ Unsent \in Int
    BY <1>2, <1>4 DEF Unsent
  <2> QED BY <1>5, <1>6, <2>1, <2>3, <2>4, <2>5 DEF CopyInv
<1>10. BoundInv' /\ RoundSums'
  BY <1>4, <1>5 DEF IInv, BoundInv, RoundSums
<1> QED
  BY <1>1, <1>2, <1>4, <1>5, <1>7, <1>8, <1>9, <1>10
  DEF IInv, FirstPhase, FreshInv, QuietInv, Phase2Inv

\* When all copies are sent main moves to the other pair of channels.
LEMMA MainCommitStep ==
    ASSUME IInv, MainCommit
    PROVE  IInv'
<1> USE ThreadFacts
<1> DEFINE K == Sampled
<1>0. K \in Nat BY SampledNat DEF IInv
<1>1. TypeOK' BY TypeNext DEF IInv, Next, MainStep
<1>2. Phase1 /\ FirstPhase /\ pc[Main] = "send" /\ sends = NumWorkers
  BY DEF IInv, MainCommit, Phase1
<1>3. /\ K > 0 /\ K <= NumVars
      /\ Bound(Main, K, K - 1)
      /\ challenge[Main] = K
      /\ rolling[Main] = Parity(K + 1)
  BY <1>2 DEF FirstPhase, MainInv
<1>4. state[Main].round = K BY <1>3 DEF Bound
<1>5. /\ pc' = [pc EXCEPT ![Main] = IF K = NumVars THEN "finish" ELSE "prove"]
      /\ pc \in [Threads -> Labels]
      /\ rolling' = [rolling EXCEPT ![Main] = (@ + 1) % 2] /\ rolling \in [Threads -> Slots]
      /\ UNCHANGED <<challenge, state, efAppend, chalChan, stateChan, evaluations, reads, sends,
                     transcript, proverStates, merged, result>>
  BY <1>4 DEF MainCommit, Goto, CommitRolling, IInv, TypeOK
<1>6. /\ Sampled' = K
      /\ pc'[Main] = IF K = NumVars THEN "finish" ELSE "prove"
      /\ Phase1'
      /\ \A w \in Workers : pc'[w] = pc[w] /\ rolling'[w] = rolling[w]
  BY <1>5 DEF Sampled, Phase1
<1>7. rolling'[Main] = Parity(K) BY <1>0, <1>3, <1>5, ParityFacts
<1>8. /\ Ahead' = Ahead /\ Waiting' = Waiting /\ Filled' = Filled /\ Ended' = Ended
      /\ Unsent' = 0 /\ Unsent = 0
  BY <1>2, <1>5, <1>6 DEF Ahead, Waiting, Ended, Filled, Unsent
<1>9. MainInv'
  <2>1. CASE K = NumVars
    BY <1>3, <1>5, <1>6, <2>1 DEF MainInv, Bound
  <2>2. CASE K # NumVars
    <3>1. Pred(K) = K - 1 /\ K < NumVars BY <1>0, <1>3, <2>2 DEF Pred
    <3> QED BY <1>3, <1>5, <1>6, <1>7, <2>2, <3>1 DEF MainInv, Bound
  <2> QED BY <2>1, <2>2
<1>10. \A w \in Workers : WorkerInv(w)'
  BY <1>2, <1>5, <1>6 DEF FirstPhase, WorkerInv, Bound, FinalState
<1>11. MessageInv' /\ SumInv' /\ CopyInv' /\ CollectInv'
  BY <1>2, <1>5, <1>6, <1>8 DEF FirstPhase, MessageInv, SumInv, CopyInv, CollectInv
<1>12. BoundInv' /\ RoundSums'
  BY <1>5, <1>6 DEF IInv, BoundInv, RoundSums
<1> QED
  BY <1>1, <1>6, <1>9, <1>10, <1>11, <1>12
  DEF IInv, FirstPhase, FreshInv, QuietInv, Phase2Inv

\* The main thread sends its own final state.
LEMMA MainFinishStep ==
    ASSUME IInv, MainFinish
    PROVE  IInv'
<1> USE ThreadFacts
<1> DEFINE K == Sampled
           s == PushAndFix(state[Main], challenge[Main])
           e == <<Main, FinalState(Main)>>
<1>0. K \in Nat BY SampledNat DEF IInv
<1>1. TypeOK' BY TypeNext DEF IInv, Next, MainStep
<1>2. Phase1 /\ FirstPhase /\ pc[Main] = "finish"
  BY DEF IInv, MainFinish, Phase1
<1>3. /\ K = NumVars /\ K > 0
      /\ Bound(Main, NumVars, NumVars - 1)
      /\ challenge[Main] = NumVars
  BY <1>2 DEF FirstPhase, MainInv
<1>4. s = FinalState(Main)
  <2>1. NumVars - 1 \in Nat /\ (NumVars - 1) + 1 = NumVars BY <1>3
  <2> QED BY <1>3, <2>1, BoundPush DEF FinalState
<1> HIDE DEF s
<1>5. /\ pc' = [pc EXCEPT ![Main] = "collect"] /\ pc \in [Threads -> Labels]
      /\ state' = [state EXCEPT ![Main] = FinalState(Main)] /\ state \in [Threads -> States]
      /\ stateChan' = Append(stateChan, e)
      /\ stateChan \in Seq(Threads \X States)
      /\ reads' = 0
      /\ UNCHANGED <<challenge, rolling, efAppend, chalChan, evaluations, sends, transcript,
                     proverMsgs, proverStates, merged, result>>
  BY <1>4 DEF MainFinish, Goto, IInv, TypeOK, s
<1>6. /\ Sampled' = K /\ pc'[Main] = "collect" /\ Phase1'
      /\ \A w \in Workers : pc'[w] = pc[w] /\ state'[w] = state[w]
  BY <1>5 DEF Sampled, Phase1
<1>7. /\ Ahead' = Ahead
      /\ Waiting' = Waiting
      /\ Ended' = Ended \union {Main}
      /\ Main \notin Ended
      /\ Filled' = Filled
      /\ Unsent' = 0 /\ Unsent = 0
  BY <1>2, <1>5, <1>6 DEF Ahead, Waiting, Ended, Filled, Unsent
<1>8. MainInv'
  <2>1. state'[Main] = FinalState(Main) BY <1>5
  <2> QED BY <1>3, <1>6, <2>1 DEF MainInv, FinalState
<1>9. \A w \in Workers : WorkerInv(w)'
  BY <1>2, <1>5, <1>6 DEF FirstPhase, WorkerInv, Bound, FinalState
<1>10. MessageInv' /\ SumInv' /\ CopyInv'
  BY <1>2, <1>5, <1>6, <1>7 DEF FirstPhase, MessageInv, SumInv, CopyInv
<1>11. CollectInv'
  <2>1. /\ \A i \in DOMAIN stateChan :
              \E t \in Ended \ Filled : stateChan[i] = <<t, FinalState(t)>>
        /\ \A i, j \in DOMAIN stateChan : stateChan[i] = stateChan[j] => i = j
        /\ Filled = {}
    BY <1>2 DEF FirstPhase, CollectInv
  <2>2. \A i \in DOMAIN stateChan : stateChan[i] # e BY <1>7, <2>1
  <2>3. e \in Threads \X States BY FinalStateFacts
  <2> HIDE DEF e
  <2>4. \A i \in DOMAIN Append(stateChan, e) :
           \E t \in (Ended \union {Main}) \ Filled :
              Append(stateChan, e)[i] = <<t, FinalState(t)>>
    BY <1>5, <2>1, <2>3, AppendProperties DEF e
  <2>5. \A i, j \in DOMAIN Append(stateChan, e) :
           Append(stateChan, e)[i] = Append(stateChan, e)[j] => i = j
    BY <1>5, <2>1, <2>2, <2>3, AppendProperties
  <2>6. Cardinality(Filled') = 0 BY <1>7, <2>1, FS_EmptySet
  <2> QED BY <1>5, <1>6, <1>7, <2>1, <2>4, <2>5, <2>6 DEF CollectInv
<1>12. BoundInv'
  <2> SUFFICES ASSUME NEW t \in Threads
               PROVE  \E n \in 0 .. K : state'[t].point = Sequential!Point(n)
    BY <1>6 DEF BoundInv
  <2>1. CASE t = Main
    <3>1. state'[t].point = Sequential!Point(NumVars) BY <1>5, <2>1, FinalStateFacts
    <3> QED BY <1>0, <1>3, <3>1
  <2>2. CASE t # Main
    BY <1>5, <2>2 DEF IInv, BoundInv
  <2> QED BY <2>1, <2>2
<1>13. RoundSums' BY <1>5, <1>6 DEF IInv, RoundSums
<1> QED
  BY <1>1, <1>6, <1>8, <1>9, <1>10, <1>11, <1>12, <1>13
  DEF IInv, FirstPhase, FreshInv, QuietInv, Phase2Inv

\* A collected state is stored for its own thread, once.
LEMMA MainCollectStep ==
    ASSUME IInv, MainCollect
    PROVE  IInv'
<1> USE ThreadFacts
<1> DEFINE K == Sampled
           msg == Head(stateChan)
<1>0. K \in Nat BY SampledNat DEF IInv
<1>1. TypeOK' BY TypeNext DEF IInv, Next, MainStep
<1>2. Phase1 /\ FirstPhase /\ pc[Main] = "collect"
  BY DEF IInv, MainCollect, Phase1
<1>3. /\ \A i \in DOMAIN stateChan :
            \E t \in Ended \ Filled : stateChan[i] = <<t, FinalState(t)>>
      /\ \A i, j \in DOMAIN stateChan : stateChan[i] = stateChan[j] => i = j
      /\ \A t \in Filled : t \in Ended /\ proverStates[t] = FinalState(t)
      /\ Cardinality(Filled) = reads
  BY <1>2 DEF FirstPhase, CollectInv
<1>4. /\ stateChan \in Seq(Threads \X States) /\ stateChan # <<>>
      /\ stateChan' = Tail(stateChan)
      /\ proverStates' = [proverStates EXCEPT ![msg[1]] = msg[2]]
      /\ proverStates \in [Threads -> States]
      /\ reads' = reads + 1
      /\ UNCHANGED <<pc, challenge, rolling, state, efAppend, chalChan, evaluations, sends,
                     transcript, proverMsgs, merged, result>>
  BY DEF MainCollect, IInv, TypeOK
<1>5. /\ 1 \in DOMAIN stateChan /\ msg = stateChan[1]
      /\ \A i \in DOMAIN Tail(stateChan) :
            i + 1 \in DOMAIN stateChan /\ Tail(stateChan)[i] = stateChan[i + 1]
      /\ \A i \in DOMAIN Tail(stateChan) : i \in Nat \ {0}
  BY <1>4, HeadTailProperties, LenProperties
<1>6. PICK u \in Ended \ Filled : msg = <<u, FinalState(u)>>
  BY <1>3, <1>5
<1>7. u \in Threads BY DEF Ended
<1>8. proverStates' = [proverStates EXCEPT ![u] = FinalState(u)]
  <2>1. msg[1] = u /\ msg[2] = FinalState(u) BY <1>6
  <2> QED BY <1>4, <2>1
<1>9. Sampled' = K /\ Phase1' /\ pc' = pc
  BY <1>2, <1>4 DEF Sampled, Phase1
<1>10. Filled' = Filled \union {u}
  BY <1>4, <1>7, <1>8, FinalStateFacts DEF Filled
<1>11. Ahead' = Ahead /\ Waiting' = Waiting /\ Ended' = Ended /\ Unsent' = Unsent
  BY <1>4, <1>9 DEF Ahead, Waiting, Ended, Unsent
<1>12. MainInv' /\ \A w \in Workers : WorkerInv(w)'
  BY <1>2, <1>4, <1>9 DEF FirstPhase, MainInv, WorkerInv, Bound, FinalState
<1>13. MessageInv' /\ SumInv' /\ CopyInv'
  BY <1>2, <1>4, <1>9, <1>11 DEF FirstPhase, MessageInv, SumInv, CopyInv
<1>14. CollectInv'
  <2>1. ASSUME NEW i \in DOMAIN Tail(stateChan)
        PROVE  \E t \in Ended \ (Filled \union {u}) : Tail(stateChan)[i] = <<t, FinalState(t)>>
    <3>1. i + 1 \in DOMAIN stateChan /\ Tail(stateChan)[i] = stateChan[i + 1] /\ i + 1 # 1
      BY <1>5
    <3>2. PICK t \in Ended \ Filled : stateChan[i + 1] = <<t, FinalState(t)>>
      BY <1>3, <3>1
    <3>3. stateChan[i + 1] # stateChan[1] BY <1>3, <1>5, <3>1
    <3>4. t # u BY <1>5, <1>6, <3>2, <3>3
    <3> QED BY <3>1, <3>2, <3>4
  <2>2. \A i, j \in DOMAIN Tail(stateChan) : Tail(stateChan)[i] = Tail(stateChan)[j] => i = j
    BY <1>3, <1>5
  <2>3. \A t \in Filled \union {u} : t \in Ended /\ proverStates'[t] = FinalState(t)
    BY <1>3, <1>4, <1>6, <1>7, <1>8 DEF Filled
  <2>4. Cardinality(Filled \union {u}) = reads + 1
    <3>1. IsFiniteSet(Filled) BY FiniteThreads DEF Filled
    <3> QED BY <1>3, <1>6, <3>1, FS_AddElement
  <2> QED BY <1>2, <1>4, <1>9, <1>10, <1>11, <2>1, <2>2, <2>3, <2>4 DEF CollectInv
<1>15. BoundInv' /\ RoundSums'
  BY <1>4, <1>9 DEF IInv, BoundInv, RoundSums
<1> QED
  BY <1>1, <1>2, <1>9, <1>12, <1>13, <1>14, <1>15
  DEF IInv, FirstPhase, FreshInv, QuietInv, Phase2Inv

\* Once all states are collected the merged polynomial is the whole one, bound to
\* the point of the first phase (merge_sumcheck_prover_state).
LEMMA MainMergeStep ==
    ASSUME IInv, MainMerge
    PROVE  IInv'
<1> USE ThreadFacts
<1> DEFINE K == Sampled
<1>0. K \in Nat BY SampledNat DEF IInv
<1>1. TypeOK' BY TypeNext DEF IInv, Next, MainStep
<1>2. Phase1 /\ FirstPhase /\ pc[Main] = "collect" /\ reads = NumThreads
  BY DEF IInv, MainMerge, Phase1
<1>3. K = NumVars BY <1>2 DEF FirstPhase, MainInv
<1>4. Filled = Threads
  <2>1. Cardinality(Filled) = Cardinality(Threads) /\ Filled \subseteq Threads
    BY <1>2, FiniteThreads DEF FirstPhase, CollectInv, Filled
  <2> QED BY <2>1, FiniteThreads, FS_Subset
<1>5. \A t \in Threads : t \in Ended /\ proverStates[t] = FinalState(t)
  BY <1>2, <1>4 DEF FirstPhase, CollectInv
<1>6. \A w \in Workers : pc[w] = "done" BY <1>5 DEF Ended
<1>7. UNCHANGED <<state, transcript>> /\ Sampled' = K
  BY DEF MainMerge, Sampled
<1>8. BoundInv' /\ RoundSums' BY <1>7 DEF IInv, BoundInv, RoundSums
<1>9. CASE Goto(Main, "done")
  <2>1. pc'[Main] = "done" /\ \A w \in Workers : pc'[w] = "done"
    BY <1>6, <1>9 DEF Goto, IInv, TypeOK
  <2>2. ~Phase1' BY <2>1 DEF Phase1
  <2> QED BY <1>1, <1>8, <2>1, <2>2 DEF IInv, FreshInv, QuietInv, Phase2Inv
<1>10. CASE merged' = MergeStates(proverStates) /\ Goto(Main, "phase2")
  <2>1. pc'[Main] = "phase2" /\ \A w \in Workers : pc'[w] = "done"
    BY <1>6, <1>10 DEF Goto, IInv, TypeOK
  <2>2. ~Phase1' BY <2>1 DEF Phase1
  <2>3. /\ merged'.poly = Sequential!WholePoly
        /\ merged'.point = Sequential!Point(NumVars)
        /\ merged'.round = 0
    <3>1. ASSUME NEW t \in Threads
          PROVE  proverStates[t].poly = <<t>> /\ proverStates[t].point = Sequential!Point(NumVars)
      <4>1. proverStates[t] = FinalState(t) BY <1>5
      <4> QED BY <4>1, FinalStateFacts
    <3>2. proverStates \in [Threads -> States] BY DEF IInv, TypeOK
    <3> QED BY <1>10, <3>1, <3>2, MergeIs
  <2>4. Phase2Inv' BY <1>3, <1>7, <2>3 DEF Phase2Inv
  <2> QED BY <1>1, <1>8, <2>1, <2>2, <2>4 DEF IInv, FreshInv, QuietInv
<1> QED BY <1>9, <1>10 DEF MainMerge

\* A round of the second phase absorbs the whole polynomial's message.
LEMMA Phase2RoundStep ==
    ASSUME IInv, Phase2Round
    PROVE  IInv'
<1> USE ThreadFacts
<1> DEFINE K == Sampled
           s == ProveRound(merged, Phase2Challenge)
<1>0. K \in Nat /\ Len(transcript) = K + 1 BY SampledNat DEF IInv
<1>1. TypeOK' BY TypeNext DEF IInv, Next, MainStep
<1>2. /\ merged \in States
      /\ merged.round \in Nat
      /\ merged.poly = Sequential!WholePoly
      /\ K = NumVars + merged.round
      /\ merged.point = Sequential!Point(IF merged.round = 0 THEN NumVars ELSE K - 1)
  BY DEF IInv, Phase2Inv, Phase2Round, TypeOK, States
<1>3. /\ s.poly = Sequential!WholePoly
      /\ s.point = Sequential!Point(K)
      /\ s.round = merged.round + 1
  <2>1. CASE merged.round = 0
    <3>1. Phase2Challenge = 0 BY <2>1 DEF Phase2Challenge
    <3>2. s = [poly |-> merged.poly, point |-> merged.point, round |-> merged.round + 1]
      <4>1. 0 \in Nat /\ ~(merged.round > 0) BY <2>1
      <4> QED BY <1>2, <3>1, <4>1, ProveRoundIs
    <3>3. K = NumVars BY <1>2, <2>1
    <3> QED BY <1>2, <2>1, <3>2, <3>3
  <2>2. CASE merged.round # 0
    <3>1. Phase2Challenge = K /\ merged.round > 0
      BY <1>0, <1>2, <2>2 DEF Phase2Challenge
    <3>2. s = [poly |-> merged.poly, point |-> Append(merged.point, K), round |-> merged.round + 1]
      BY <1>0, <1>2, <3>1, ProveRoundIs
    <3>3. PICK m \in Nat : K = m + 1 BY <1>2, <3>1
    <3>4. Append(Sequential!Point(m), m + 1) = Sequential!Point(m + 1) BY PointFacts
    <3>5. merged.point = Sequential!Point(m) BY <1>2, <2>2, <3>3
    <3>6. Append(merged.point, K) = Sequential!Point(K) BY <3>3, <3>4, <3>5
    <3> QED BY <1>2, <3>2, <3>6
  <2> QED BY <2>1, <2>2
<1>4. Message(s) = Summand(Sequential!WholePoly, Sequential!Point(K))
  BY <1>3 DEF Message
<1>5. Message(s) \in Messages
  <2>1. Phase2Challenge \in Nat BY <1>0 DEF Phase2Challenge
  <2> QED BY <1>2, <2>1, ProveRoundIs, MessageType
<1> HIDE DEF s
<1>6. /\ merged' = s
      /\ transcript' = Append(transcript, {Message(s)})
      /\ UNCHANGED <<pc, state>>
      /\ pc[Main] = "phase2"
  BY DEF Phase2Round, s
<1>7. /\ Sampled' = K + 1
      /\ \A n \in 1 .. K + 1 : transcript'[n] = transcript[n]
      /\ transcript'[K + 2] = {Message(s)}
  <2>1. /\ transcript \in Seq(SUBSET (Messages \union {Sequential!Header}))
        /\ {Message(s)} \in SUBSET (Messages \union {Sequential!Header})
    BY <1>5 DEF IInv, TypeOK
  <2> QED BY <1>0, <1>6, <2>1, AppendProperties DEF Sampled
<1>8. RoundSums'
  <2>1. {Message(s)} = Sequential!RoundMessage(K + 1)
    <3>1. ~(K + 1 <= NumVars) /\ (K + 1) - 1 = K BY <1>0, <1>2
    <3>2. Sequential!RoundMessage(K + 1)
            = {Sequential!Summand(Sequential!WholePoly, Sequential!Point(K))}
      BY <3>1 DEF Sequential!RoundMessage
    <3> QED BY <1>4, <3>2 DEF Summand, Sequential!Summand
  <2>2. ASSUME NEW n \in 1 .. K + 1 PROVE transcript'[n + 1] = Sequential!RoundMessage(n)
    <3>1. CASE n = K + 1
      <4>1. n + 1 = K + 2 BY <1>0, <3>1
      <4> QED BY <1>7, <2>1, <3>1, <4>1
    <3>2. CASE n # K + 1
      <4>1. n \in 1 .. K /\ n + 1 \in 1 .. K + 1 BY <1>0, <3>2
      <4>2. transcript[n + 1] = Sequential!RoundMessage(n)
        BY <1>0, <4>1 DEF IInv, RoundSums
      <4> QED BY <1>7, <4>1, <4>2
    <3> QED BY <3>1, <3>2
  <2>3. Len(transcript') - 1 = K + 1 BY <1>7 DEF Sampled
  <2> QED BY <2>2, <2>3 DEF RoundSums
<1>9. BoundInv'
  <2>1. ASSUME NEW t \in Threads
        PROVE  \E n \in 0 .. K + 1 : state'[t].point = Sequential!Point(n)
    <3>1. PICK n \in 0 .. K : state[t].point = Sequential!Point(n) BY DEF IInv, BoundInv
    <3>2. n \in 0 .. K + 1 BY <1>0
    <3> QED BY <1>6, <3>1, <3>2
  <2> QED BY <1>7, <2>1 DEF BoundInv
<1>10. Phase2Inv'
  <2>1. merged'.round # 0 /\ Sampled' = NumVars + merged'.round /\ Sampled' - 1 = K
    BY <1>0, <1>2, <1>3, <1>6, <1>7
  <2> QED BY <1>3, <1>6, <2>1 DEF Phase2Inv
<1>11. ~Phase1 /\ ~Phase1' BY <1>6 DEF Phase1
<1> QED
  BY <1>1, <1>6, <1>8, <1>9, <1>10, <1>11 DEF IInv, FreshInv, QuietInv

\* Returning leaves the transcript as it is.
LEMMA Phase2ReturnStep ==
    ASSUME IInv, Phase2Return
    PROVE  IInv'
<1> USE ThreadFacts
<1>1. TypeOK' BY TypeNext DEF IInv, Next, MainStep
<1>2. /\ pc[Main] = "phase2" /\ pc'[Main] = "done"
      /\ \A w \in Workers : pc'[w] = pc[w]
      /\ UNCHANGED <<state, transcript>>
  BY DEF Phase2Return, Goto, IInv, TypeOK
<1>3. ~Phase1 /\ ~Phase1' BY <1>2 DEF Phase1
<1>4. BoundInv' /\ RoundSums' BY <1>2 DEF IInv, BoundInv, RoundSums, Sampled
<1> QED
  BY <1>1, <1>2, <1>3, <1>4 DEF IInv, FreshInv, QuietInv, Phase2Inv

\* A step that changes nothing keeps the invariant.
LEMMA StutterStep == IInv /\ UNCHANGED vars => IInv'
<1> SUFFICES ASSUME IInv, UNCHANGED vars PROVE IInv'
  OBVIOUS
<1>1. TypeOK' BY TypeNext DEF IInv
<1>2. /\ FreshInv' /\ QuietInv' /\ Phase2Inv' /\ BoundInv' /\ RoundSums'
      /\ Phase1' = Phase1
  BY DEF IInv, FreshInv, QuietInv, Phase2Inv, BoundInv, RoundSums, Phase1, Sampled, Bound, vars,
     mainVars
<1>3. ASSUME FirstPhase PROVE FirstPhase'
  BY <1>3 DEF FirstPhase, MainInv, WorkerInv, MessageInv, SumInv, CopyInv, CollectInv, Ahead,
     Waiting, Ended, Filled, Unsent, Bound, Sampled, vars, mainVars
<1> QED BY <1>1, <1>2, <1>3 DEF IInv
-----------------------------------------------------------------------------
\* The invariant holds before anything is spawned.
LEMMA InvInit == Init => IInv
<1> SUFFICES ASSUME Init PROVE IInv
  OBVIOUS
<1> USE ThreadFacts
<1>1. TypeOK BY TypeInit
<1>2. transcript = <<{Sequential!Header}>> /\ Sampled = 0 BY DEF Init, Sampled
<1>3. pc[Main] = "spawn" /\ \A w \in Workers : pc[w] = "idle" BY DEF Init
<1>4. \A t \in Threads : state[t] = [poly |-> <<t>>, point |-> <<>>, round |-> 0]
  BY DEF Init, ProverInit
<1>5. FreshInv BY <1>2, <1>4, PointZero DEF Init, FreshInv, Bound
<1>6. QuietInv /\ Phase2Inv /\ ~Phase1 BY <1>3 DEF QuietInv, Phase2Inv, Phase1
<1>7. BoundInv
  <2>1. ASSUME NEW t \in Threads PROVE state[t].point = Sequential!Point(0)
    <3>1. state[t] = [poly |-> <<t>>, point |-> <<>>, round |-> 0] BY <1>4
    <3> QED BY <3>1, PointZero
  <2>2. 0 \in 0 .. Sampled BY <1>2
  <2> QED BY <2>1, <2>2 DEF BoundInv
<1>8. RoundSums BY <1>2 DEF RoundSums
<1> QED BY <1>1, <1>5, <1>6, <1>7, <1>8 DEF IInv

\* Every step keeps the invariant.
LEMMA InvNext == IInv /\ [Next]_vars => IInv'
  BY StartStep, AppendStep, SampleStep, FinishStep, SpawnStep, MainProveStep, MainReadStep,
     MainAbsorbStep, MainSendStep, MainCommitStep, MainFinishStep, MainCollectStep,
     MainMergeStep, Phase2RoundStep, Phase2ReturnStep, StutterStep
  DEF Next, MainStep, WorkerStep, Terminating

\* The strengthened invariant: where every thread stands relative to the number of
\* challenges sampled, and what each channel therefore holds.
THEOREM Invariant == Spec => []IInv
  BY InvInit, InvNext, PTL DEF Spec

\* Whatever the number of threads and however they are scheduled, the k-th
\* challenge a thread binds is the k-th one sampled from the transcript.
THEOREM ChallengesAgree == Spec => []ChallengeAgreement
<1>1. IInv => ChallengeAgreement
  <2> SUFFICES ASSUME IInv, NEW t \in Threads
               PROVE  /\ Len(state[t].point) < Len(transcript)
                      /\ \A k \in DOMAIN state[t].point : state[t].point[k] = k
    BY DEF ChallengeAgreement
  <2>1. Sampled \in Nat /\ Len(transcript) = Sampled + 1 BY SampledNat DEF IInv
  <2>2. PICK n \in 0 .. Sampled : state[t].point = Sequential!Point(n) BY DEF IInv, BoundInv
  <2>3. n \in Nat BY <2>1
  <2>4. Len(Sequential!Point(n)) = n /\ DOMAIN Sequential!Point(n) = 1 .. n
        /\ \A k \in 1 .. n : Sequential!Point(n)[k] = k
    BY <2>3, PointFacts DEF Sequential!Point
  <2> QED BY <2>1, <2>2, <2>4
<1> QED BY <1>1, Invariant, PTL

\* The transcript absorbs in every round exactly the sum over all threads, and
\* then the messages of the merged polynomial, as one sequential prover would.
THEOREM SumsAreComplete == Spec => []RoundSums
<1>1. IInv => RoundSums BY DEF IInv
<1> QED BY <1>1, Invariant, PTL
=============================================================================
