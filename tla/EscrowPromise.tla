--------------------------- MODULE EscrowPromise ----------------------------
(***************************************************************************)
(* What the money path promises its callers, with nothing said of locks,   *)
(* providers, retries or failures: a campaign is funded once, all its      *)
(* chosen deals at the same instant, or cancelled, or neither; money that  *)
(* was held is paid out once or returned once; a campaign is closed only   *)
(* when every one of its deals is paid.                                    *)
(***************************************************************************)
CONSTANTS Deal, Campaign, CampaignOf

VARIABLES
  money,  \* of a deal: none, held, paid (both legs) or returned
  phase   \* of a campaign: open, funded, completed or cancelled

PromiseInit ==
  /\ money = [d \in Deal |-> "none"]
  /\ phase = [c \in Campaign |-> "open"]

Fund(c) ==
  /\ phase[c] = "open"
  /\ \E chosen \in SUBSET { d \in Deal : CampaignOf[d] = c } :
       /\ chosen # {}
       /\ \A d \in chosen : money[d] = "none"
       /\ money' = [d \in Deal |-> IF d \in chosen THEN "held" ELSE money[d]]
  /\ phase' = [phase EXCEPT ![c] = "funded"]

Cancel(c) ==
  /\ phase[c] = "open"
  /\ phase' = [phase EXCEPT ![c] = "cancelled"]
  /\ UNCHANGED money

Settle(d, outcome) ==
  /\ money[d] = "held"
  /\ money' = [money EXCEPT ![d] = outcome]
  /\ UNCHANGED phase

Close(c) ==
  /\ phase[c] = "funded"
  /\ \A d \in Deal : CampaignOf[d] = c => money[d] = "paid"
  /\ phase' = [phase EXCEPT ![c] = "completed"]
  /\ UNCHANGED money

PromiseNext ==
  \/ \E c \in Campaign : Fund(c) \/ Cancel(c) \/ Close(c)
  \/ \E d \in Deal, outcome \in {"paid", "returned"} : Settle(d, outcome)

PromiseSpec == PromiseInit /\ [][PromiseNext]_<< money, phase >>
=============================================================================
