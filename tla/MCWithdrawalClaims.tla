------------------------- MODULE MCWithdrawalClaims -------------------------
(***************************************************************************)
(* One wallet, two withdrawals, two server invocations.                    *)
(***************************************************************************)
EXTENDS WithdrawalClaims, TLC
=============================================================================
