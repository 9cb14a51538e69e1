------------------------ MODULE MCDistributedSumcheck ------------------------
(***************************************************************************)
(* Four threads (three workers that compete for the shared channels) over  *)
(* slices of three variables, so that both channels of each pair are used  *)
(* and the second phase has two rounds.                                    *)
(***************************************************************************)
EXTENDS DistributedSumcheck
=============================================================================
