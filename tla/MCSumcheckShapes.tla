--------------------------- MODULE MCSumcheckShapes ---------------------------
(***************************************************************************)
(* The shapes at the edge of DistributedSumcheck, one after another: one   *)
(* thread that holds the whole polynomial (no second phase), two threads   *)
(* with one worker, and slices without a variable (no first phase).  The   *)
(* shape is fixed by the initial state.                                    *)
(***************************************************************************)
EXTENDS Naturals, Sequences, FiniteSets

CONSTANTS MaxDegree, MaxPool

VARIABLES shape, pool, free, pc, challenge, rolling, state, efAppend, chalChan,
          stateChan, evaluations, reads, sends, transcript, proverMsgs,
          proverStates, merged, result

One     == INSTANCE DistributedSumcheck
             WITH NumThreads <- 1, Log2Threads <- 0, NumVars <- 3
Two     == INSTANCE DistributedSumcheck
             WITH NumThreads <- 2, Log2Threads <- 1, NumVars <- 3
NoPhase1 == INSTANCE DistributedSumcheck
             WITH NumThreads <- 4, Log2Threads <- 2, NumVars <- 0

Shape(name, Formula) == shape = name /\ Formula

Init ==
    \/ Shape("one", One!Init)
    \/ Shape("two", Two!Init)
    \/ Shape("noPhase1", NoPhase1!Init)

Next ==
    /\ UNCHANGED shape
    /\ \/ Shape("one", One!Next)
       \/ Shape("two", Two!Next)
       \/ Shape("noPhase1", NoPhase1!Next)

vars == <<shape, One!vars>>

\* The threads run as DistributedSumcheck!Fairness says; a step of either
\* shape's threads is a step of this specification.
Fairness ==
    /\ WF_vars(Shape("one", One!MainStep) /\ UNCHANGED shape)
    /\ WF_vars(Shape("two", Two!MainStep) /\ UNCHANGED shape)
    /\ WF_vars(Shape("two", Two!WorkerStep(0)) /\ UNCHANGED shape)
    /\ WF_vars(Shape("noPhase1", NoPhase1!MainStep) /\ UNCHANGED shape)

Spec == Init /\ [][Next]_vars /\ Fairness
-----------------------------------------------------------------------------
\* Each shape binds the challenges of the transcript and absorbs the sums of
\* all its slices (ChallengeAgreement and RoundSums of the shape).
ShapesAgree ==
    /\ shape = "one"      => One!ChallengeAgreement /\ One!RoundSums
    /\ shape = "two"      => Two!ChallengeAgreement /\ Two!RoundSums
    /\ shape = "noPhase1" => NoPhase1!ChallengeAgreement /\ NoPhase1!RoundSums

\* Each shape comes to an end, with a result exactly when the pool is large
\* enough for its threads or none is needed (Spawn).
ShapesTerminate ==
    <>(\/ Shape("one", One!Outcome)
       \/ Shape("two", Two!Outcome)
       \/ Shape("noPhase1", NoPhase1!Outcome))

\* What each shape returns is what the sequential prover returns: the proof is
\* what the transcript absorbed and the point has one challenge per round.
ShapesReturn ==
    result.done =>
        /\ result.proof = Tail(transcript)
        /\ result.point = [i \in 1 .. Len(transcript) - 1 |-> i]

\* Each shape proves what the sequential prover proves: its threads agree with
\* the transcript all along, and it returns what was absorbed and drawn.
ShapesProve == ShapesAgree /\ ShapesReturn
=============================================================================
