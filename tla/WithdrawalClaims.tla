--------------------------- MODULE WithdrawalClaims --------------------------
(***************************************************************************)
(* What a comment of the wallet says and its statements do not keep, stated *)
(* over Withdrawal.                                                        *)
(***************************************************************************)
EXTENDS Withdrawal

\* balance.ts, of the available balance: "Never negative in a consistent database."
BalanceNeverNegative == Spent <= earned
=============================================================================
