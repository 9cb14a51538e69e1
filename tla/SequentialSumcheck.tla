-------------------------- MODULE SequentialSumcheck --------------------------
(***************************************************************************)
(* What the prover promises to whoever reads its transcript: the multi-    *)
(* threaded prover of sumcheck/src/prover.rs is indistinguishable from ONE *)
(* prover that holds the whole polynomial and runs one round after         *)
(* another.  In a round it absorbs one message, the univariate restriction *)
(* of the polynomial at the point sampled so far, and samples the next     *)
(* coordinate.                                                             *)
(*                                                                         *)
(* The polynomial over NumVars + Log2Threads variables is cut along its    *)
(* last Log2Threads variables into the slices 0 .. NumThreads-1.  While a  *)
(* variable of the slices is bound, the round message is the sum of the    *)
(* messages of the slices; once only the last variables are left it is     *)
(* the message of the merged polynomial.  A message is named by what it    *)
(* is computed from: the evaluations held (poly) and the point they are    *)
(* bound to.  A sum is the set of its summands, a challenge is the number  *)
(* of the round that sampled it.                                           *)
(***************************************************************************)
EXTENDS Naturals, Sequences

CONSTANTS
    NumThreads,   \* max_thread_id, the number of slices
    Log2Threads,  \* log2_max_thread_id
    NumVars,      \* num_variables of one slice
    MaxDegree     \* max_degree of the batched polynomial

VARIABLES
    transcript,   \* what the caller's transcript has absorbed
    result        \* the proof and the opening point handed to the caller

vars == <<transcript, result>>
-----------------------------------------------------------------------------
Slices == 0 .. NumThreads - 1
TotalRounds == NumVars + Log2Threads

\* The coordinates sampled by the first n rounds.
Point(n) == [i \in 1 .. n |-> i]

\* The two messages absorbed before the first round, the sizes of the claim.
Header == [vars |-> TotalRounds, degree |-> MaxDegree]

\* The evaluations a prover holds: those of one slice, or of all of them in order.
SliceOf(t) == <<t>>
WholePoly == [i \in 1 .. NumThreads |-> i - 1]

Summand(poly, point) == [poly |-> poly, point |-> point]

\* The message of round n (from 1) of the whole polynomial.
RoundMessage(n) ==
    IF n <= NumVars
    THEN {Summand(SliceOf(t), Point(n - 1)) : t \in Slices}
    ELSE {Summand(WholePoly, Point(n - 1))}

Pending == [proof |-> <<>>, point |-> <<>>, done |-> FALSE]
-----------------------------------------------------------------------------
\* transcript[1] is the header, transcript[n + 1] the message of round n.
RoundsDone == Len(transcript) - 1

Init ==
    /\ transcript = <<{Header}>>
    /\ result = Pending

Round ==
    /\ RoundsDone < TotalRounds
    /\ transcript' = Append(transcript, RoundMessage(RoundsDone + 1))
    /\ UNCHANGED result

Return ==
    /\ RoundsDone = TotalRounds
    /\ ~result.done
    /\ result' = [proof |-> Tail(transcript),
                  point |-> Point(TotalRounds),
                  done  |-> TRUE]
    /\ UNCHANGED transcript

Next == Round \/ Return

Spec == Init /\ [][Next]_vars
=============================================================================
