-------------------------- MODULE EscrowRefinement --------------------------
(***************************************************************************)
(* EscrowLedger implements EscrowPromise.  The mapping reads the money off *)
(* the committed ledger rows, never off the deal's status: a row too many, *)
(* one too few or one on its own maps to no promised value at all.         *)
(***************************************************************************)
EXTENDS EscrowInvariant

MoneyOf(counts) ==
  CASE counts = NoRows                             -> "none"
    [] counts = AddRows(NoRows, {"hold"})           -> "held"
    [] counts = AddRows(NoRows, {"hold", "release_payout", "commission"}) -> "paid"
    [] counts = AddRows(NoRows, {"hold", "refund"}) -> "returned"
    [] OTHER                                        -> "inconsistent"

PhaseOf(s) == IF s \in {"draft", "confirmed"} THEN "open" ELSE s

\* The promise's variables, read off the ledger's.
money == [d \in Deal |-> MoneyOf(rows[d])]
phase == [c \in Campaign |-> PhaseOf(campaignStatus[c])]

Promise == INSTANCE EscrowPromise

\* Whatever the interleaving of endpoints, calls, retries and faults, the rows and
\* the campaign statuses only ever move the way the promise says.
KeepsThePromise == Promise!PromiseSpec
=============================================================================
