------------------------- MODULE MCDeliverableReview -------------------------
(***************************************************************************)
(* A deal of two videos, with its history and its pages.  The requests     *)
(* bound the versions and the cycles: each lands at most once.             *)
(***************************************************************************)
EXTENDS DealPages, TLC

Symmetry == Permutations(Request) \cup Permutations(Page)
=============================================================================
