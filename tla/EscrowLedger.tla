---------------------------- MODULE EscrowLedger ----------------------------
(***************************************************************************)
(* The money path: EscrowLedgerService (src/lib/payment/ledger.ts) driving *)
(* the deal state machine (src/lib/deals/state-machine.ts), the campaign   *)
(* row and the payment provider (src/lib/payment/mock-provider.ts), next   *)
(* to the endpoints that move a deal or a campaign without moving money.   *)
(*                                                                         *)
(* A ledger call is a serializable transaction run by one worker: it locks *)
(* rows, checks, calls the provider and commits.  The provider keeps its   *)
(* holds on a connection of its own, so what it did stays done when the    *)
(* transaction rolls back; on a serialization failure the call is run      *)
(* again with the same idempotency keys.  Every other endpoint is a short  *)
(* transaction on one locked row, hence one atomic action that waits while *)
(* a ledger call holds that row.                                           *)
(***************************************************************************)
EXTENDS DealStates, CommissionSplit, FiniteSetsExt

CONSTANTS
  Deal,         \* the deals; each belongs to one campaign
  Campaign,     \* the campaigns
  CampaignOf,   \* [Deal -> Campaign]
  Price,        \* [Deal -> santim], the deal's snapshotted total_price
  RateBp,       \* [Deal -> basis points], its snapshotted commission_rate
  Worker,       \* server invocations that may run at the same time
  Ref,          \* provider references; bounds how many holds are ever placed
  NoRef,        \* "no reference recorded"
  MaxRetries    \* serialization retries of one call (3 in the code)

ASSUME DealsAreFinite     == IsFiniteSet(Deal)
ASSUME DealsHaveCampaigns == CampaignOf \in [Deal -> Campaign]
ASSUME PricesArePositive  == Price \in [Deal -> Nat \ {0}]
ASSUME RatesAreFractions  == RateBp \in [Deal -> 0..FullRateBp]
ASSUME RetriesAreBounded  == MaxRetries \in Nat
ASSUME NoRefIsNoRef       == NoRef \notin Ref

VARIABLES
  dealStatus,      \* deal.status
  campaignStatus,  \* campaign.status
  rows,            \* committed ledger_entry rows of a deal, counted by type
  holdRef,         \* provider_ref of the deal's hold row
  escrowed,        \* SUM(ledger_entry.amount) over a campaign's rows
  balanceAfter,    \* balance_after of the campaign's newest row
  provider,        \* provider_hold: what the processor itself knows
  call             \* what each worker is doing

books == << dealStatus, campaignStatus, rows, holdRef, escrowed, balanceAfter >>

vars == << books, provider, call >>

----------------------------------------------------------------------------
\* Amounts and rows

DealsOf(c) == { d \in Deal : CampaignOf[d] = c }

PayoutOf(d)     == Payout(Price[d], RateBp[d])
CommissionOf(d) == Commission(Price[d], RateBp[d])

EntryType == { "hold", "release_payout", "commission", "refund" }

NoRows == [t \in EntryType |-> 0]

\* Mutant: no commission row when the commission rounds to zero.
PayoutRowsIfCharged(d) ==
  {"release_payout"} \cup IF CommissionOf(d) > 0 THEN {"commission"} ELSE {}

\* A payout always writes both rows, a zero commission included.
PayoutRows(d) == {"release_payout", "commission"}

AddRows(counts, types) ==
  [t \in EntryType |-> IF t \in types THEN counts[t] + 1 ELSE counts[t]]

----------------------------------------------------------------------------
\* The provider's holds

Unminted == [state |-> "none", remaining |-> 0]

HoldRecord == [state : {"none", "held", "captured", "released"}, remaining : Nat]

\* Both capture legs: a positive amount, a hold still held, no overdraw.
CanDraw(r, amount) ==
  /\ amount > 0
  /\ provider[r].state = "held"
  /\ amount <= provider[r].remaining

Drawn(h, amount) ==
  [state     |-> IF h.remaining = amount THEN "captured" ELSE "held",
   remaining |-> h.remaining - amount]

----------------------------------------------------------------------------
\* Workers

DealOp == { "approve", "release", "refund" }
PayOp  == { "approve", "release" }

Leg == { "payout", "commission", "release" }

NoHolds == [d \in Deal |-> NoRef]

\* pc: idle, begun (about to open a transaction), locked (first row lock
\* taken), moving (all locks, provider calls), closing and closeWrite (the
\* campaign bookkeeping after a brand's approval).
\* op, deal, camp: the call and its argument.  balance: the sum as of the
\* transaction's snapshot; inserted: the net amount of the rows it inserted.
\* todo, picked: the deals still to hold and all those selected.
\* refs, legs: the provider results the idempotency keys replay.
Idle ==
  [pc |-> "idle", op |-> "none", deal |-> {}, camp |-> {}, balance |-> 0,
   inserted |-> 0, todo |-> {}, picked |-> {}, refs |-> NoHolds, legs |-> {},
   tries |-> 0]

Call ==
  [pc       : {"idle", "begun", "locked", "moving", "closing", "closeWrite"},
   op       : {"none", "hold"} \cup DealOp,
   deal     : SUBSET Deal,
   camp     : SUBSET Campaign,
   balance  : Int,
   inserted : Nat,
   todo     : SUBSET Deal,
   picked   : SUBSET Deal,
   refs     : [Deal -> Ref \cup {NoRef}],
   legs     : SUBSET Leg,
   tries    : 0..MaxRetries]

InTransaction(w) == call[w].pc \in {"locked", "moving"}

\* FOR UPDATE row locks: holdForCampaign takes the campaign, then its accepted
\* deals; payoutForDeal and refundDeal take the deal, then its campaign.
LocksDeal(w, d) ==
  \/ InTransaction(w) /\ call[w].op \in DealOp /\ d \in call[w].deal
  \/ call[w].pc = "moving" /\ call[w].op = "hold" /\ d \in call[w].picked

LocksCampaign(w, c) ==
  /\ c \in call[w].camp
  /\ \/ call[w].pc = "moving"
     \/ call[w].pc = "locked" /\ call[w].op = "hold"

\* Mutants: the row is read without FOR UPDATE.
DealReadUnlocked(d)     == d \in Deal
CampaignReadUnlocked(c) == c \in Campaign

DealFree(d)     == \A w \in Worker : ~LocksDeal(w, d)
CampaignFree(c) == \A w \in Worker : ~LocksCampaign(w, c)

----------------------------------------------------------------------------
Init ==
  /\ dealStatus     = [d \in Deal |-> "pending"]
  /\ campaignStatus = [c \in Campaign |-> "confirmed"]
  /\ rows           = [d \in Deal |-> NoRows]
  /\ holdRef        = NoHolds
  /\ escrowed       = [c \in Campaign |-> 0]
  /\ balanceAfter   = [c \in Campaign |-> 0]
  /\ provider       = [r \in Ref |-> Unminted]
  /\ call           = [w \in Worker |-> Idle]

----------------------------------------------------------------------------
\* Endpoints that move no money: one short transaction on a free row

MoveDeal(d, to) ==
  /\ DealFree(d)
  /\ CanTransition(dealStatus[d], to)
  /\ dealStatus' = [dealStatus EXCEPT ![d] = to]
  /\ UNCHANGED << campaignStatus, rows, holdRef, escrowed, balanceAfter,
                  provider, call >>

\* The creator's answer, or the expiry sweep, on a pending offer.  None of the
\* three reads the campaign row.
AcceptOffer(d)  == CanAct(dealStatus[d]) /\ MoveDeal(d, "accepted")
DeclineOffer(d) == MoveDeal(d, "declined")
ExpireOffer(d)  == MoveDeal(d, "expired")

\* The last missing or corrected video arrives; the brand or an admin sends the
\* deal back.
SubmitDeliverable(d) == CanDeliver(dealStatus[d]) /\ MoveDeal(d, "delivered")
RequestRevision(d)   == CanReview(dealStatus[d]) /\ MoveDeal(d, "revision_requested")

\* Mutant: a campaign may be cancelled until work on it starts.
CancellableUntilStarted(s) == s \in {"draft", "confirmed", "funded"}

Cancellable(s) == s \in {"draft", "confirmed"}

CancelCampaign(c) ==
  /\ CampaignFree(c)
  /\ Cancellable(campaignStatus[c])
  /\ campaignStatus' = [campaignStatus EXCEPT ![c] = "cancelled"]
  /\ UNCHANGED << dealStatus, rows, holdRef, escrowed, balanceAfter,
                  provider, call >>

----------------------------------------------------------------------------
\* A ledger call: begin, lock, check

BeginHold(w, c) ==
  /\ call[w].pc = "idle"
  /\ call' = [call EXCEPT ![w] = [Idle EXCEPT !.pc = "begun", !.op = "hold",
                                              !.camp = {c}]]
  /\ UNCHANGED << books, provider >>

BeginDealCall(w, d, op) ==
  /\ call[w].pc = "idle"
  /\ call' = [call EXCEPT ![w] = [Idle EXCEPT !.pc = "begun", !.op = op,
                                              !.deal = {d},
                                              !.camp = {CampaignOf[d]}]]
  /\ UNCHANGED << books, provider >>

\* The first statement of the transaction: its row lock, and the snapshot every
\* later read of the attempt sees.
TakeFirstLock(w) ==
  /\ call[w].pc = "begun"
  /\ \/ call[w].op = "hold" /\ \A c \in call[w].camp : CampaignFree(c)
     \/ call[w].op \in DealOp /\ \A d \in call[w].deal : DealFree(d)
  /\ \E c \in call[w].camp :
       call' = [call EXCEPT ![w].pc = "locked", ![w].balance = escrowed[c]]
  /\ UNCHANGED << books, provider >>

AcceptedDeals(c) == { d \in DealsOf(c) : dealStatus[d] = "accepted" }

\* holdForCampaign's refusals: not confirmed, nothing accepted, already held.
Fundable(c) ==
  /\ campaignStatus[c] = "confirmed"
  /\ AcceptedDeals(c) # {}
  /\ \A d \in AcceptedDeals(c) : rows[d]["hold"] = 0

SelectDeals(w) ==
  /\ call[w].pc = "locked"
  /\ call[w].op = "hold"
  /\ \E c \in call[w].camp :
       /\ Fundable(c)
       /\ \A d \in AcceptedDeals(c) : DealFree(d)
       /\ call' = [call EXCEPT ![w].pc     = "moving",
                               ![w].todo   = AcceptedDeals(c),
                               ![w].picked = AcceptedDeals(c)]
  /\ UNCHANGED << books, provider >>

\* payoutForDeal's and refundDeal's refusals: the status, then (the campaign
\* locked) a missing hold reference or a balance that would go negative.
StatusAllows(op, d) ==
  IF op = "refund" THEN dealStatus[d] \in RefundableFrom
                   ELSE dealStatus[d] = PayableFrom

Affordable(w, d) ==
  IF call[w].op = "refund"
    THEN call[w].balance - Price[d] >= 0
    ELSE call[w].balance - PayoutOf(d) - CommissionOf(d) >= 0

LockCampaign(w) ==
  /\ call[w].pc = "locked"
  /\ call[w].op \in DealOp
  /\ \A c \in call[w].camp : CampaignFree(c)
  /\ \A d \in call[w].deal : /\ StatusAllows(call[w].op, d)
                            /\ holdRef[d] # NoRef
                            /\ Affordable(w, d)
  /\ call' = [call EXCEPT ![w].pc = "moving"]
  /\ UNCHANGED << books, provider >>

\* Mutant: the status is judged only when the campaign is locked as well.
StatusRefusedLate(w) ==
  /\ call[w].op \in DealOp
  /\ \A c \in call[w].camp : CampaignFree(c)
  /\ \E d \in call[w].deal : ~StatusAllows(call[w].op, d)

StatusRefused(w) ==
  /\ call[w].op \in DealOp
  /\ \E d \in call[w].deal : ~StatusAllows(call[w].op, d)

\* A refused call throws before any provider call: the transaction ends.  The
\* status is judged before the campaign is waited for, the rest after.
Refuse(w) ==
  /\ call[w].pc = "locked"
  /\ \/ call[w].op = "hold" /\ \E c \in call[w].camp : ~Fundable(c)
     \/ StatusRefused(w)
     \/ /\ call[w].op \in DealOp
        /\ \A c \in call[w].camp : CampaignFree(c)
        /\ \E d \in call[w].deal : holdRef[d] = NoRef \/ ~Affordable(w, d)
  /\ call' = [call EXCEPT ![w] = Idle]
  /\ UNCHANGED << books, provider >>

----------------------------------------------------------------------------
\* Provider calls, inside the transaction

Placed(k, d, r) ==
  [k EXCEPT !.todo = @ \ {d}, !.inserted = @ + Price[d], !.refs[d] = r]

\* One hold per deal, its row inserted right after; a retry replays the
\* reference the deal's key already minted.
PlaceHold(w, d) ==
  /\ call[w].pc = "moving"
  /\ d \in call[w].todo
  /\ \E r \in Ref :
       /\ \/ call[w].refs[d] = r /\ UNCHANGED provider
          \/ /\ call[w].refs[d] = NoRef
             /\ provider[r].state = "none"
             /\ provider' = [provider EXCEPT
                               ![r] = [state |-> "held", remaining |-> Price[d]]]
       /\ call' = [call EXCEPT ![w] = Placed(@, d, r)]
  /\ UNCHANGED books

Draw(w, d, leg, amount) ==
  /\ call[w].pc = "moving"
  /\ d \in call[w].deal
  /\ leg \notin call[w].legs
  /\ CanDraw(holdRef[d], amount)
  /\ provider' = [provider EXCEPT ![holdRef[d]] = Drawn(@, amount)]
  /\ call' = [call EXCEPT ![w].legs = @ \cup {leg}]
  /\ UNCHANGED books

CapturePayout(w, d) ==
  /\ call[w].op \in PayOp
  /\ Draw(w, d, "payout", PayoutOf(d))

CaptureCommission(w, d) ==
  /\ call[w].op \in PayOp
  /\ "payout" \in call[w].legs
  /\ Draw(w, d, "commission", CommissionOf(d))

\* releaseHold takes no amount and lets go of whatever the hold still has.
ReleaseHold(w, d) ==
  /\ call[w].pc = "moving"
  /\ call[w].op = "refund"
  /\ d \in call[w].deal
  /\ "release" \notin call[w].legs
  /\ provider[holdRef[d]].state = "held"
  /\ provider' = [provider EXCEPT ![holdRef[d]].state = "released"]
  /\ call' = [call EXCEPT ![w].legs = @ \cup {"release"}]
  /\ UNCHANGED books

\* Mutant: the commission leg is forgotten.
PayoutLegDone(w, d) == d \in Deal /\ "payout" \in call[w].legs

\* The commission leg is skipped when the commission rounds to zero, because the
\* provider refuses a zero amount.
PayLegsDone(w, d) ==
  /\ "payout" \in call[w].legs
  /\ CommissionOf(d) > 0 => "commission" \in call[w].legs

\* What the provider would refuse next: a leg on a hold already drained,
\* captured or released, or one more hold than it can place.
NextLegRefused(w, d) ==
  \/ /\ call[w].op \in PayOp
     /\ "payout" \notin call[w].legs
     /\ ~CanDraw(holdRef[d], PayoutOf(d))
  \/ /\ call[w].op \in PayOp
     /\ "payout" \in call[w].legs
     /\ ~PayLegsDone(w, d)
     /\ ~CanDraw(holdRef[d], CommissionOf(d))
  \/ /\ call[w].op = "refund"
     /\ "release" \notin call[w].legs
     /\ provider[holdRef[d]].state # "held"

NextHoldRefused(w, d) ==
  /\ call[w].refs[d] = NoRef
  /\ \A r \in Ref : provider[r].state # "none"

\* The PaymentError rolls the transaction back and ends the call; its keys are
\* forgotten.
ProviderRefuses(w) ==
  /\ call[w].pc = "moving"
  /\ \/ \E d \in call[w].deal : NextLegRefused(w, d)
     \/ \E d \in call[w].todo : NextHoldRefused(w, d)
  /\ call' = [call EXCEPT ![w] = Idle]
  /\ UNCHANGED << books, provider >>

----------------------------------------------------------------------------
\* How an attempt ends

\* Mutant: a read-committed transaction.
SnapshotUnchecked(w) == w \in Worker

\* Postgres commits a serializable transaction only if no other one changed
\* what it read: here, the campaign's rows behind the sum.
SnapshotValid(w) == \A c \in call[w].camp : escrowed[c] = call[w].balance

\* The rows inserted become visible: the sum moves by net, and the newest row
\* carries the balance the transaction computed from its own snapshot.
PostRows(w, net) ==
  /\ escrowed' = [c \in Campaign |-> IF c \in call[w].camp
                                       THEN escrowed[c] + net ELSE escrowed[c]]
  /\ balanceAfter' = [c \in Campaign |->
                        IF c \in call[w].camp
                          THEN call[w].balance + net ELSE balanceAfter[c]]

CommitHold(w) ==
  /\ call[w].pc = "moving"
  /\ call[w].op = "hold"
  /\ call[w].todo = {}
  /\ SnapshotValid(w)
  /\ \A d \in call[w].picked : CanTransition(dealStatus[d], "funded")
  /\ PostRows(w, call[w].inserted)
  /\ dealStatus' = [d \in Deal |-> IF d \in call[w].picked
                                      THEN "funded" ELSE dealStatus[d]]
  /\ rows' = [d \in Deal |-> IF d \in call[w].picked
                                THEN AddRows(rows[d], {"hold"}) ELSE rows[d]]
  /\ holdRef' = [d \in Deal |-> IF d \in call[w].picked
                                   THEN call[w].refs[d] ELSE holdRef[d]]
  /\ campaignStatus' = [c \in Campaign |-> IF c \in call[w].camp
                                              THEN "funded" ELSE campaignStatus[c]]
  /\ call' = [call EXCEPT ![w] = Idle]
  /\ UNCHANGED provider

\* A brand's approval goes on to the campaign's bookkeeping; an admin's release
\* of the same money does not.
CommitPayout(w, d) ==
  /\ call[w].pc = "moving"
  /\ call[w].op \in PayOp
  /\ d \in call[w].deal
  /\ PayLegsDone(w, d)
  /\ SnapshotValid(w)
  /\ CanTransition(dealStatus[d], "completed")
  /\ PostRows(w, -(PayoutOf(d) + CommissionOf(d)))
  /\ dealStatus' = [dealStatus EXCEPT ![d] = "completed"]
  /\ rows' = [rows EXCEPT ![d] = AddRows(@, PayoutRows(d))]
  /\ call' = [call EXCEPT ![w] =
                IF call[w].op = "approve"
                  THEN [Idle EXCEPT !.pc = "closing", !.camp = call[w].camp]
                  ELSE Idle]
  /\ UNCHANGED << campaignStatus, holdRef, provider >>

CommitRefund(w, d) ==
  /\ call[w].pc = "moving"
  /\ call[w].op = "refund"
  /\ d \in call[w].deal
  /\ "release" \in call[w].legs
  /\ SnapshotValid(w)
  /\ CanTransition(dealStatus[d], "refunded")
  /\ PostRows(w, -Price[d])
  /\ dealStatus' = [dealStatus EXCEPT ![d] = "refunded"]
  /\ rows' = [rows EXCEPT ![d] = AddRows(@, {"refund"})]
  /\ call' = [call EXCEPT ![w] = Idle]
  /\ UNCHANGED << campaignStatus, holdRef, provider >>

\* Mutant: a fresh idempotency key for every attempt.
AgainWithNewKeys(k) ==
  [k EXCEPT !.pc = "begun", !.tries = @ + 1, !.balance = 0, !.inserted = 0,
            !.todo = {}, !.picked = {}, !.refs = NoHolds]

Again(k) ==
  [k EXCEPT !.pc = "begun", !.tries = @ + 1, !.balance = 0, !.inserted = 0,
            !.todo = {}, !.picked = {}]

\* A serialization failure may surface at any statement.  Everything written is
\* rolled back and the call starts over under the same keys, until its retries
\* are spent.
SerializationFailure(w) ==
  /\ InTransaction(w)
  /\ \/ /\ call[w].tries < MaxRetries
        /\ call' = [call EXCEPT ![w] = Again(@)]
     \/ /\ call[w].tries = MaxRetries
        /\ call' = [call EXCEPT ![w] = Idle]
  /\ UNCHANGED << books, provider >>

\* Any other error, at any point: the provider is down, the expected versions
\* are stale, a connection drops, the invocation is killed.  Not retried.
Fault(w) ==
  /\ call[w].pc # "idle"
  /\ call' = [call EXCEPT ![w] = Idle]
  /\ UNCHANGED << books, provider >>

----------------------------------------------------------------------------
\* advanceCampaignIfComplete: two reads and an unconditional update, no lock

AllCompleted(c) ==
  /\ DealsOf(c) # {}
  /\ \A d \in DealsOf(c) : dealStatus[d] = "completed"

CheckCompletion(w) ==
  /\ call[w].pc = "closing"
  /\ call' = [call EXCEPT ![w] =
                IF \A c \in @.camp : AllCompleted(c)
                  THEN [@ EXCEPT !.pc = "closeWrite"]
                  ELSE Idle]
  /\ UNCHANGED << books, provider >>

MarkCompleted(w) ==
  /\ call[w].pc = "closeWrite"
  /\ \A c \in call[w].camp : CampaignFree(c)
  /\ campaignStatus' = [c \in Campaign |-> IF c \in call[w].camp
                                              THEN "completed"
                                              ELSE campaignStatus[c]]
  /\ call' = [call EXCEPT ![w] = Idle]
  /\ UNCHANGED << dealStatus, rows, holdRef, escrowed, balanceAfter, provider >>

----------------------------------------------------------------------------
Endpoint ==
  \/ \E d \in Deal : \/ AcceptOffer(d) \/ DeclineOffer(d) \/ ExpireOffer(d)
                     \/ SubmitDeliverable(d) \/ RequestRevision(d)
  \/ \E c \in Campaign : CancelCampaign(c)

Begin(w) ==
  \/ \E c \in Campaign : BeginHold(w, c)
  \/ \E d \in Deal, op \in DealOp : BeginDealCall(w, d, op)

\* The steps that may have to wait for a row.
Lock(w) ==
  \/ TakeFirstLock(w) \/ SelectDeals(w) \/ LockCampaign(w)
  \/ Refuse(w)
  \/ MarkCompleted(w)

Progress(w) ==
  \/ \E d \in Deal : \/ PlaceHold(w, d)     \/ CapturePayout(w, d)
                     \/ ReleaseHold(w, d)   \/ CaptureCommission(w, d)
                     \/ CommitPayout(w, d)  \/ CommitRefund(w, d)
  \/ ProviderRefuses(w)
  \/ CommitHold(w)
  \/ CheckCompletion(w)

Next ==
  \/ Endpoint
  \/ \E w \in Worker : \/ Begin(w) \/ Lock(w) \/ Progress(w)
                       \/ SerializationFailure(w) \/ Fault(w)

Spec == Init /\ [][Next]_vars

\* A running invocation takes its next step, which for a transaction whose
\* snapshot has gone stale is to fail; Postgres serves the waiters of a row lock
\* in turn (hence strong fairness for Lock); nothing forces a call to begin, a
\* party to act or a fault to happen.
AbortStale(w) == ~SnapshotValid(w) /\ SerializationFailure(w)

Fairness ==
  \A w \in Worker : /\ WF_vars(Progress(w) \/ AbortStale(w))
                    /\ SF_vars(Lock(w))

FairSpec == Spec /\ Fairness

----------------------------------------------------------------------------
\* Properties

TypeOK ==
  /\ dealStatus     \in [Deal -> DealStatus]
  /\ campaignStatus \in [Campaign -> CampaignStatus]
  /\ rows           \in [Deal -> [EntryType -> Nat]]
  /\ holdRef        \in [Deal -> Ref \cup {NoRef}]
  /\ escrowed       \in [Campaign -> Int]
  /\ balanceAfter   \in [Campaign -> Int]
  /\ provider       \in [Ref -> HoldRecord]
  /\ call           \in [Worker -> Call]

\* Somebody answers for the hold behind r: a deal of the ledger, or a call whose
\* idempotency keys can still replay it.
Owned(r) ==
  \E d \in Deal : holdRef[d] = r \/ \E w \in Worker : call[w].refs[d] = r

\* The rows a deal in status s must have, no more and no fewer.
RowsOwed(s) ==
  CASE s \in RefundableFrom -> AddRows(NoRows, {"hold"})
    [] s = "completed"      -> AddRows(NoRows, {"hold", "release_payout", "commission"})
    [] s = "refunded"       -> AddRows(NoRows, {"hold", "refund"})
    [] OTHER                -> NoRows

\* The ledger and the state machine never disagree: a deal in escrow has its one
\* hold row, a completed one its payout and commission as well, a refunded one
\* its refund, and no deal is ever held, paid or refunded twice, however calls
\* interleave, are retried or die half-way.
LedgerMatchesStatus == \A d \in Deal : rows[d] = RowsOwed(dealStatus[d])

\* What the ledger says was settled, the processor settled: a completed deal's
\* hold is captured down to nothing, both legs of it, and a refunded deal's hold
\* is released; each by a call whose keys may have been replayed.
SettledAtProvider ==
  \A d \in Deal :
    /\ dealStatus[d] = "completed" => provider[holdRef[d]] =
                                        [state |-> "captured", remaining |-> 0]
    /\ dealStatus[d] = "refunded"  => provider[holdRef[d]].state = "released"

\* A campaign is cancelled or funded, never both: cancelling races the hold for the
\* campaign row.  And the unlocked completion check never closes a campaign with an
\* unpaid deal.
CampaignTellsTheMoney ==
  \A c \in Campaign :
    /\ campaignStatus[c] = "cancelled" => \A d \in DealsOf(c) : rows[d] = NoRows
    /\ campaignStatus[c] = "completed" => \A d \in DealsOf(c) : dealStatus[d] = "completed"

\* A serialization retry strands no money: a live hold that a deal or a call under
\* way answers for stays answered for, except when that call ends for good.
RetryLosesNoHold ==
  [][\A r \in Ref :
       provider[r].state = "held" /\ Owned(r) =>
         \/ Owned(r)'
         \/ \E w \in Worker : call[w].pc # "idle" /\ call'[w].pc = "idle"]_vars

\* Every call ends: payouts and refunds lock the deal and then the campaign,
\* funding the campaign and then its deals, and nobody waits for ever.
CallsEnd == \A w \in Worker : call[w].pc # "idle" ~> call[w].pc = "idle"
=============================================================================
