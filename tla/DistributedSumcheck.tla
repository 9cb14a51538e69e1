------------------------- MODULE DistributedSumcheck -------------------------
(***************************************************************************)
(* The multi-threaded sumcheck prover: IOPProverState::prove and           *)
(* phase1_sumcheck (sumcheck/src/prover.rs) over the channels of           *)
(* TranscriptSyncronized (transcript/src/syncronized.rs).                  *)
(*                                                                         *)
(* max_thread_id threads each hold one slice of the polynomial.  In every  *)
(* round all of them compute the message of their slice; the workers send  *)
(* it to the main thread, which adds the messages up, absorbs the sum into *)
(* the caller's transcript, samples the challenge and sends one copy per   *)
(* worker.  All workers share the SAME channels: nothing addresses a copy  *)
(* to a worker, so what keeps a fast worker from taking the copy of a slow *)
(* one is that consecutive rounds use two channels in turn                 *)
(* (rolling_index).                                                        *)
(*                                                                         *)
(* Data is abstracted as in SequentialSumcheck: a message is named by the  *)
(* evaluations and the point it is computed from, a sum is the set of its  *)
(* summands, and a challenge is the number of the round whose absorption   *)
(* produced it.  A step ends at a channel operation: what a thread does    *)
(* between two of them touches its own variables only.                     *)
(***************************************************************************)
EXTENDS Naturals, Sequences, FiniteSets

CONSTANTS
    NumThreads,   \* max_thread_id
    Log2Threads,  \* ceil_log2(max_thread_id)
    NumVars,      \* num_variables of the slices
    MaxDegree,    \* max_degree
    MaxPool       \* bound: largest rayon pool considered

ASSUME ThreadsAssumption ==
    /\ NumThreads \in Nat \ {0}
    /\ Log2Threads \in Nat
    /\ NumThreads = 2 ^ Log2Threads
ASSUME SizeAssumption ==
    /\ NumVars \in Nat
    /\ MaxDegree \in Nat
    /\ MaxPool \in Nat \ {0}
    /\ NumVars + Log2Threads > 0     \* assert_ne!(max_num_variables, 0)

Threads == 0 .. NumThreads - 1
Main    == NumThreads - 1            \* main_thread_id
Workers == Threads \ {Main}

\* Faulty: the main thread counts one worker less.
OneWorkerLess == NumThreads - 2
NumWorkers == NumThreads - 1         \* num_worker_threads

\* Faulty: room for the workers alone.
CapacityOfWorkers == NumThreads - 1
Capacity == NumThreads               \* bounded(max_thread_id), of every channel
Slots   == {0, 1}                    \* the values of rolling_index

NoChallenge == 0                     \* None; challenges are counted from 1

VARIABLES
    pool,          \* rayon::current_num_threads()
    free,          \* pool threads that are free to run a spawned worker
    pc,            \* where each thread is
    challenge,     \* challenge[t]: the local Option<Challenge>
    rolling,       \* rolling_index of each thread's transcript clone
    state,         \* prover_state of each thread
    efAppend,      \* efAppend[b]: messages in flight to the main thread
    chalChan,      \* chalChan[b]: challenges in flight to the workers
    stateChan,     \* final (thread_id, prover_state) pairs in flight
    evaluations,   \* main: summands added up in this round
    reads, sends,  \* main: counters of its two inner loops
    transcript,    \* the caller's transcript
    proverMsgs,    \* the round messages of the proof
    proverStates,  \* prover_states, by thread id
    merged,        \* the prover state of the second phase
    result         \* what prove returns

mainVars == <<evaluations, reads, sends, transcript, proverMsgs, proverStates,
              merged, result>>
vars == <<pool, free, pc, challenge, rolling, state, efAppend, chalChan,
          stateChan, mainVars>>
-----------------------------------------------------------------------------
Sequential == INSTANCE SequentialSumcheck

Summand(poly, point) == [poly |-> poly, point |-> point]

\* prover_init_with_extrapolation_aux, and IOPProverState::default().
ProverInit(poly) == [poly |-> poly, point |-> <<>>, round |-> 0]
DefaultState == ProverInit(<<>>)

\* push_challenges followed by fix_var.
PushAndFix(s, c) == [s EXCEPT !.point = Append(@, c)]

\* Faulty: the last challenge is not bound.
ProveRoundUnbound(s, c) == [s EXCEPT !.round = @ + 1]

\* prove_round_and_update_state: bind the last challenge, enter the next
\* round.  The message is computed from the state that results.
ProveRound(s, c) ==
    LET fixed == IF s.round > 0 THEN PushAndFix(s, c) ELSE s
    IN  [fixed EXCEPT !.round = @ + 1]
Message(s) == Summand(s.poly, s.point)

\* Both assertions of prove_round_and_update_state.
CanProveRound(s, c, numVars) ==
    /\ s.round < numVars
    /\ s.round > 0 => c # NoChallenge

\* merge_sumcheck_prover_state: one evaluation after another in thread order
\* (a state that was never filled in has none), with the challenges of the
\* first state.
NoSlice == NumThreads
MergeStates(states) ==
    [poly  |-> [i \in 1 .. NumThreads |->
                  IF states[i - 1].poly = <<>> THEN NoSlice ELSE Head(states[i - 1].poly)],
     point |-> states[0].point,
     round |-> 0]

\* The number of the challenge that absorbing one more message produces.
NextChallenge == Len(transcript)
-----------------------------------------------------------------------------
\* The header is absorbed before any thread exists.  callerInPool: prove may
\* be called from a thread of the pool, which then is not free for a worker.
Init ==
    /\ pool \in 1 .. MaxPool
    /\ \E callerInPool \in BOOLEAN :
          free = IF callerInPool THEN pool - 1 ELSE pool
    /\ pc = [t \in Threads |-> IF t = Main THEN "spawn" ELSE "idle"]
    /\ challenge = [t \in Threads |-> NoChallenge]
    /\ rolling = [t \in Threads |-> 0]
    /\ state = [t \in Threads |-> ProverInit(<<t>>)]
    /\ efAppend = [b \in Slots |-> <<>>]
    /\ chalChan = [b \in Slots |-> <<>>]
    /\ stateChan = <<>>
    /\ evaluations = {}
    /\ reads = 0
    /\ sends = 0
    /\ transcript = <<{Sequential!Header}>>
    /\ proverMsgs = <<>>
    /\ proverStates = [t \in Threads |-> DefaultState]
    /\ merged = DefaultState
    /\ result = Sequential!Pending

Goto(t, label) == pc' = [pc EXCEPT ![t] = label]

-----------------------------------------------------------------------------
\* The worker threads.

\* A free pool thread takes the spawned closure of worker w.
Start(w) ==
    /\ pc[w] = "spawned"
    /\ free > 0
    /\ free' = free - 1
    /\ Goto(w, "append")
    /\ UNCHANGED <<pool, challenge, rolling, state, efAppend, chalChan, stateChan, mainVars>>

\* One round message: prove_round_and_update_state, then
\* append_field_element_exts, which blocks while the channel is full.
AppendExts(w) ==
    /\ pc[w] = "append"
    /\ CanProveRound(state[w], challenge[w], NumVars)
    /\ Len(efAppend[rolling[w]]) < Capacity
    /\ LET s == ProveRound(state[w], challenge[w])
       IN  /\ state' = [state EXCEPT ![w] = s]
           /\ efAppend' = [efAppend EXCEPT ![rolling[w]] = Append(@, Message(s))]
    /\ Goto(w, "sample")
    /\ UNCHANGED <<pool, free, challenge, rolling, chalChan, stateChan, mainVars>>

\* Faulty: the index does not wrap around.
CommitNext(t) == rolling' = [rolling EXCEPT ![t] = @ + 1]

\* Faulty: one pair of channels for all rounds.
CommitNothing(t) == UNCHANGED rolling

\* commit_rolling.
CommitRolling(t) == rolling' = [rolling EXCEPT ![t] = (@ + 1) % 2]

\* sample_and_append_challenge takes a copy off the shared channel, then
\* commit_rolling; the loop ends after NumVars rounds.
Sample(w) ==
    /\ pc[w] = "sample"
    /\ chalChan[rolling[w]] # <<>>
    /\ challenge' = [challenge EXCEPT ![w] = Head(chalChan[rolling[w]])]
    /\ chalChan' = [chalChan EXCEPT ![rolling[w]] = Tail(@)]
    /\ CommitRolling(w)
    /\ Goto(w, IF state[w].round = NumVars THEN "finish" ELSE "append")
    /\ UNCHANGED <<pool, free, state, efAppend, stateChan, mainVars>>

\* Bind the last challenge and send the state; the pool thread is free again.
Finish(w) ==
    /\ pc[w] = "finish"
    /\ Len(stateChan) < Capacity
    /\ LET s == PushAndFix(state[w], challenge[w])
       IN  /\ state' = [state EXCEPT ![w] = s]
           /\ stateChan' = Append(stateChan, <<w, s>>)
    /\ free' = free + 1
    /\ Goto(w, "done")
    /\ UNCHANGED <<pool, challenge, rolling, efAppend, chalChan, mainVars>>

WorkerStep(w) == Start(w) \/ AppendExts(w) \/ Sample(w) \/ Finish(w)

-----------------------------------------------------------------------------
\* The main thread.

\* Faulty: the pool is only asked for the workers.
SpawnInSmallPool ==
    /\ pc[Main] = "spawn"
    /\ \/ /\ NumVars > 0
          /\ pool >= NumWorkers
          /\ pc' = [t \in Threads |-> IF t = Main THEN "prove" ELSE "spawned"]
          /\ UNCHANGED merged
       \/ /\ NumVars > 0
          /\ pool < NumWorkers
          /\ Goto(Main, "panicked")
          /\ UNCHANGED merged
       \/ /\ NumVars = 0
          /\ merged' = MergeStates(state)
          /\ Goto(Main, "phase2")
    /\ UNCHANGED <<pool, free, challenge, rolling, state, efAppend, chalChan, stateChan,
                   evaluations, reads, sends, transcript, proverMsgs, proverStates, result>>

\* A pool smaller than max_thread_id is refused before anything is spawned.
\* Without a variable in the slices the first phase is skipped.
Spawn ==
    /\ pc[Main] = "spawn"
    /\ \/ /\ NumVars > 0
          /\ pool >= NumThreads
          /\ pc' = [t \in Threads |-> IF t = Main THEN "prove" ELSE "spawned"]
          /\ UNCHANGED merged
       \/ /\ NumVars > 0
          /\ pool < NumThreads
          /\ Goto(Main, "panicked")
          /\ UNCHANGED merged
       \/ /\ NumVars = 0
          /\ merged' = MergeStates(state)
          /\ Goto(Main, "phase2")
    /\ UNCHANGED <<pool, free, challenge, rolling, state, efAppend, chalChan, stateChan,
                   evaluations, reads, sends, transcript, proverMsgs, proverStates, result>>

\* The main thread's own message starts the sum.
MainProve ==
    /\ pc[Main] = "prove"
    /\ CanProveRound(state[Main], challenge[Main], NumVars)
    /\ LET s == ProveRound(state[Main], challenge[Main])
       IN  /\ state' = [state EXCEPT ![Main] = s]
           /\ evaluations' = {Message(s)}
    /\ reads' = 0
    /\ Goto(Main, "read")
    /\ UNCHANGED <<pool, free, challenge, rolling, efAppend, chalChan, stateChan,
                   sends, transcript, proverMsgs, proverStates, merged, result>>

\* Faulty: the message stays in the channel.
MainPeek ==
    /\ pc[Main] = "read"
    /\ reads < NumWorkers
    /\ efAppend[rolling[Main]] # <<>>
    /\ evaluations' = evaluations \union {Head(efAppend[rolling[Main]])}
    /\ UNCHANGED efAppend
    /\ reads' = reads + 1
    /\ UNCHANGED <<pool, free, pc, challenge, rolling, state, chalChan, stateChan,
                   sends, transcript, proverMsgs, proverStates, merged, result>>

\* read_field_element_exts, once per worker.
MainRead ==
    /\ pc[Main] = "read"
    /\ reads < NumWorkers
    /\ efAppend[rolling[Main]] # <<>>
    /\ evaluations' = evaluations \union {Head(efAppend[rolling[Main]])}
    /\ efAppend' = [efAppend EXCEPT ![rolling[Main]] = Tail(@)]
    /\ reads' = reads + 1
    /\ UNCHANGED <<pool, free, pc, challenge, rolling, state, chalChan, stateChan,
                   sends, transcript, proverMsgs, proverStates, merged, result>>

\* Absorb the sum and sample from the caller's transcript.
MainAbsorb ==
    /\ pc[Main] = "read"
    /\ reads = NumWorkers
    /\ transcript' = Append(transcript, evaluations)
    /\ challenge' = [challenge EXCEPT ![Main] = NextChallenge]
    /\ sends' = 0
    /\ Goto(Main, "send")
    /\ UNCHANGED <<pool, free, rolling, state, efAppend, chalChan, stateChan,
                   evaluations, reads, proverMsgs, proverStates, merged, result>>

\* send_challenge, once per worker; it blocks while the channel is full.
MainSend ==
    /\ pc[Main] = "send"
    /\ sends < NumWorkers
    /\ Len(chalChan[rolling[Main]]) < Capacity
    /\ chalChan' = [chalChan EXCEPT ![rolling[Main]] = Append(@, challenge[Main])]
    /\ sends' = sends + 1
    /\ UNCHANGED <<pool, free, pc, challenge, rolling, state, efAppend, stateChan,
                   evaluations, reads, transcript, proverMsgs, proverStates, merged, result>>

\* Record the round message and move on to the other pair of channels.
MainCommit ==
    /\ pc[Main] = "send"
    /\ sends = NumWorkers
    /\ proverMsgs' = Append(proverMsgs, evaluations)
    /\ CommitRolling(Main)
    /\ Goto(Main, IF state[Main].round = NumVars THEN "finish" ELSE "prove")
    /\ UNCHANGED <<pool, free, challenge, state, efAppend, chalChan, stateChan,
                   evaluations, reads, sends, transcript, proverStates, merged, result>>

\* Faulty: the last challenge is not bound.
MainFinishUnbound ==
    /\ pc[Main] = "finish"
    /\ Len(stateChan) < Capacity
    /\ LET s == state[Main]
       IN  /\ state' = [state EXCEPT ![Main] = s]
           /\ stateChan' = Append(stateChan, <<Main, s>>)
    /\ reads' = 0
    /\ Goto(Main, "collect")
    /\ UNCHANGED <<pool, free, challenge, rolling, efAppend, chalChan,
                   evaluations, sends, transcript, proverMsgs, proverStates, merged, result>>

\* The main thread binds its last challenge and sends its own state.
MainFinish ==
    /\ pc[Main] = "finish"
    /\ Len(stateChan) < Capacity
    /\ LET s == PushAndFix(state[Main], challenge[Main])
       IN  /\ state' = [state EXCEPT ![Main] = s]
           /\ stateChan' = Append(stateChan, <<Main, s>>)
    /\ reads' = 0
    /\ Goto(Main, "collect")
    /\ UNCHANGED <<pool, free, challenge, rolling, efAppend, chalChan,
                   evaluations, sends, transcript, proverMsgs, proverStates, merged, result>>

\* Faulty: the states are taken to arrive in thread order.
CollectInOrder ==
    /\ pc[Main] = "collect"
    /\ reads < NumThreads
    /\ stateChan # <<>>
    /\ LET msg == Head(stateChan)
       IN  proverStates' = [proverStates EXCEPT ![reads] = msg[2]]
    /\ stateChan' = Tail(stateChan)
    /\ reads' = reads + 1
    /\ UNCHANGED <<pool, free, pc, challenge, rolling, state, efAppend, chalChan,
                   evaluations, sends, transcript, proverMsgs, merged, result>>

\* One final state per thread, in the order they arrive, put in its place.
MainCollect ==
    /\ pc[Main] = "collect"
    /\ reads < NumThreads
    /\ stateChan # <<>>
    /\ LET msg == Head(stateChan)
       IN  proverStates' = [proverStates EXCEPT ![msg[1]] = msg[2]]
    /\ stateChan' = Tail(stateChan)
    /\ reads' = reads + 1
    /\ UNCHANGED <<pool, free, pc, challenge, rolling, state, efAppend, chalChan,
                   evaluations, sends, transcript, proverMsgs, merged, result>>

Returned(s) == [proof |-> proverMsgs, point |-> s.point, done |-> TRUE]

\* Faulty: the states of the workers are enough to go on.
MergeEarly ==
    /\ pc[Main] = "collect"
    /\ reads >= NumWorkers
    /\ \/ /\ Log2Threads = 0
          /\ result' = Returned(proverStates[0])
          /\ Goto(Main, "done")
          /\ UNCHANGED merged
       \/ /\ Log2Threads > 0
          /\ merged' = MergeStates(proverStates)
          /\ Goto(Main, "phase2")
          /\ UNCHANGED result
    /\ UNCHANGED <<pool, free, challenge, rolling, state, efAppend, chalChan, stateChan,
                   evaluations, reads, sends, transcript, proverMsgs, proverStates>>

\* A single thread holds the whole polynomial and is done; otherwise the final
\* states are merged for the second phase.
MainMerge ==
    /\ pc[Main] = "collect"
    /\ reads = NumThreads
    /\ \/ /\ Log2Threads = 0
          /\ result' = Returned(proverStates[0])
          /\ Goto(Main, "done")
          /\ UNCHANGED merged
       \/ /\ Log2Threads > 0
          /\ merged' = MergeStates(proverStates)
          /\ Goto(Main, "phase2")
          /\ UNCHANGED result
    /\ UNCHANGED <<pool, free, challenge, rolling, state, efAppend, chalChan, stateChan,
                   evaluations, reads, sends, transcript, proverMsgs, proverStates>>

\* The challenge of the second phase starts as None whatever the first one
\* left: here NoChallenge until a round of the second phase has sampled.
Phase2Challenge == IF merged.round = 0 THEN NoChallenge ELSE Len(transcript) - 1

\* One round of the merged polynomial, on the main thread alone.
Phase2Round ==
    /\ pc[Main] = "phase2"
    /\ merged.round < Log2Threads
    /\ LET s == ProveRound(merged, Phase2Challenge)
       IN  /\ merged' = s
           /\ transcript' = Append(transcript, {Message(s)})
           /\ proverMsgs' = Append(proverMsgs, {Message(s)})
    /\ UNCHANGED <<pool, free, pc, challenge, rolling, state, efAppend, chalChan, stateChan,
                   evaluations, reads, sends, proverStates, result>>

\* Bind the last challenge and return.
Phase2Return ==
    /\ pc[Main] = "phase2"
    /\ merged.round = Log2Threads
    /\ LET s == PushAndFix(merged, Phase2Challenge)
       IN  /\ merged' = s
           /\ result' = Returned(s)
    /\ Goto(Main, "done")
    /\ UNCHANGED <<pool, free, challenge, rolling, state, efAppend, chalChan, stateChan,
                   evaluations, reads, sends, transcript, proverMsgs, proverStates>>

MainStep ==
    \/ Spawn \/ MainProve \/ MainRead \/ MainAbsorb \/ MainSend \/ MainCommit
    \/ MainFinish \/ MainCollect \/ MainMerge \/ Phase2Round \/ Phase2Return

-----------------------------------------------------------------------------
\* prove has returned or panicked, and no thread is left running.
Terminated ==
    /\ pc[Main] \in {"done", "panicked"}
    /\ \A w \in Workers : pc[w] \in {"idle", "done"}
Terminating == Terminated /\ UNCHANGED vars

Next == MainStep \/ (\E w \in Workers : WorkerStep(w)) \/ Terminating

Spec == Init /\ [][Next]_vars

\* The operating system runs every thread that can run, and rayon hands a
\* queued closure to a free thread of its pool.
Fairness == WF_vars(MainStep) /\ \A w \in Workers : WF_vars(WorkerStep(w))

FairSpec == Spec /\ Fairness
-----------------------------------------------------------------------------
(***************************************************************************)
(* Properties.                                                             *)
(***************************************************************************)
Polys    == Seq(Threads \union {NoSlice})
States   == [poly : Polys, point : Seq(Nat), round : Nat]
Messages == [poly : Polys, point : Seq(Nat)]

Labels == {"idle", "spawned", "append", "sample", "spawn", "prove", "read", "send",
           "finish", "collect", "phase2", "done", "panicked"}

\* The values the program's variables range over.
TypeOK ==
    /\ pool \in Nat \ {0}
    /\ free \in Nat
    /\ pc \in [Threads -> Labels]
    /\ challenge \in [Threads -> Nat]
    /\ rolling \in [Threads -> Slots]
    /\ state \in [Threads -> States]
    /\ efAppend \in [Slots -> Seq(Messages)]
    /\ chalChan \in [Slots -> Seq(Nat)]
    /\ stateChan \in Seq(Threads \X States)
    /\ evaluations \subseteq Messages
    /\ reads \in 0 .. NumThreads
    /\ sends \in 0 .. NumWorkers
    /\ transcript \in Seq(SUBSET (Messages \union {Sequential!Header})) \ {<<>>}
    /\ proverMsgs \in Seq(SUBSET Messages)
    /\ proverStates \in [Threads -> States]
    /\ merged \in States

\* Every thread binds the same point: whatever the order in which the workers
\* take copies off the shared channel, the k-th challenge a thread binds is the
\* one the transcript produced in round k (Sample, PushAndFix).
ChallengeAgreement ==
    \A t \in Threads :
        /\ Len(state[t].point) < Len(transcript)
        /\ \A k \in DOMAIN state[t].point : state[t].point[k] = k

\* Each absorbed round message is the sum of the messages all threads computed
\* for that round at that point: none is missing, none is of another round,
\* and the second phase continues with the slices in thread order (MainRead,
\* MainAbsorb, MainCollect, MergeStates).
RoundSums ==
    \A n \in 1 .. Len(transcript) - 1 : transcript[n + 1] = Sequential!RoundMessage(n)

\* A summand is added once: while main reads, the number of summands is the
\* number of additions done (evaluations +=).
NoSummandTwice ==
    pc[Main] \in {"read", "send"} => Cardinality(evaluations) = reads + 1

\* Two channels in turn are enough: a channel never holds items of two
\* rounds, and never a challenge next to one meant for a later round.
OneRoundPerChannel ==
    \A b \in Slots :
        /\ \A i, j \in DOMAIN efAppend[b] :
              Len(efAppend[b][i].point) = Len(efAppend[b][j].point)
        /\ \A i, j \in DOMAIN chalChan[b] : chalChan[b][i] = chalChan[b][j]

\* Channels of capacity max_thread_id are large enough: a thread that is about
\* to send finds room (bounded(max_thread_id) in TranscriptSyncronized::new).
SendsNeverBlock ==
    /\ \A w \in Workers : pc[w] = "append" => Len(efAppend[rolling[w]]) < Capacity
    /\ pc[Main] = "send" /\ sends < NumWorkers => Len(chalChan[rolling[Main]]) < Capacity
    /\ \A t \in Threads : pc[t] = "finish" => Len(stateChan) < Capacity

\* Nothing is left in a channel when prove returns: every message was added
\* and every copy of a challenge was taken by a worker.
DrainedAtReturn ==
    result.done =>
        /\ \A b \in Slots : efAppend[b] = <<>> /\ chalChan[b] = <<>>
        /\ stateChan = <<>>
        /\ \A w \in Workers : pc[w] \in {"idle", "done"}

\* The caller cannot tell the threads from one sequential prover.
Refinement == Sequential!Spec

\* prove always comes to an end: with a pool of max_thread_id threads no
\* worker waits for a thread that another one blocks, and with fewer it panics
\* before it spawns anything.
Outcome == Terminated /\ (result.done <=> (NumVars = 0 \/ pool >= NumThreads))
Termination == <>Outcome
=============================================================================
