---------------------------- MODULE MCWithdrawal ----------------------------
(***************************************************************************)
(* One wallet with two withdrawals and two server invocations.             *)
(***************************************************************************)
EXTENDS Withdrawal, TLC

Symmetry == Permutations(Worker) \cup Permutations(Transfer)
=============================================================================
