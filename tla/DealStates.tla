----------------------------- MODULE DealStates -----------------------------
(***************************************************************************)
(* The vocabulary every other module shares: the nine statuses of a deal,  *)
(* the one table of legal transitions between them, and the sets the       *)
(* ledger, the budget and the screens derive from it.                      *)
(*                                                                         *)
(* Source: src/db/schema.ts, src/lib/deals/state-machine.ts,               *)
(*         src/lib/payment/ledger.ts, src/lib/campaigns/budget.ts          *)
(***************************************************************************)

DealStatus ==
  { "pending", "accepted", "declined", "expired", "funded", "delivered",
    "revision_requested", "completed", "refunded" }

CampaignStatus ==
  { "draft", "confirmed", "funded", "in_progress", "completed", "cancelled" }

\* Where a deal in status s may go next; a status with no entry is terminal.
LegalTransitions(s) ==
  CASE s = "pending"            -> { "accepted", "declined", "expired" }
    [] s = "accepted"           -> { "funded" }
    [] s = "funded"             -> { "delivered", "refunded" }
    [] s = "delivered"          -> { "completed", "revision_requested", "refunded" }
    [] s = "revision_requested" -> { "delivered", "refunded" }
    [] OTHER                    -> {}

CanTransition(from, to) == to \in LegalTransitions(from)

\* The statuses a screen control or an endpoint reads off the table.
CanAct(s)     == CanTransition(s, "accepted")
CanDeliver(s) == CanTransition(s, "delivered")
CanReview(s)  == CanTransition(s, "completed")

\* The ledger's own guards: where a refund may start, where a payout may.
RefundableFrom == { "funded", "delivered", "revision_requested" }
PayableFrom    == "delivered"

\* Money sits in escrow for a deal exactly where a refund is possible.
IsMoneyHeld(s) == s \in RefundableFrom

\* The statuses whose price still counts against the campaign's budget.
CommittingStatuses == DealStatus \ { "declined", "expired", "refunded" }
=============================================================================
