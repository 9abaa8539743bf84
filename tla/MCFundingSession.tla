-------------------------- MODULE MCFundingSession --------------------------
(***************************************************************************)
(* One campaign with one deal, two checkouts and two server invocations,   *)
(* and nothing to refund.                                                  *)
(***************************************************************************)
EXTENDS Gateway, TLC

Symmetry == Permutations(Worker) \cup Permutations(Deal) \cup Permutations(Session)
=============================================================================
