--------------------------- MODULE MCEscrowLedger ---------------------------
(***************************************************************************)
(* Small instances of EscrowLedger: one campaign of two deals, one whose   *)
(* commission rounds to zero (3 santim at 15%) and one whose commission    *)
(* rounds up (10 santim at 15%: 1.5 becomes 2).                            *)
(***************************************************************************)
EXTENDS EscrowRefinement, MoneyScreens, TLC

CONSTANTS d1, d2, c1

MCCampaignOf == (d1 :> c1) @@ (d2 :> c1)
MCPrice      == (d1 :> 3) @@ (d2 :> 10)
MCRateBp     == (d1 :> 1500) @@ (d2 :> 1500)

Symmetry == Permutations(Worker) \cup Permutations(Ref)
=============================================================================
