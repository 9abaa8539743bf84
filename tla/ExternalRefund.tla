----------------------------- MODULE ExternalRefund -----------------------------
(***************************************************************************)
(* The money of a refunded deal on its way back through the gateway:       *)
(* issueExternalRefund and settleRefundEvent of external-refund.ts, called *)
(* by resolve-dispute.ts after the ledger has committed, by the retry of   *)
(* admin/payments.ts, and by the gateway's webhook.                        *)
(*                                                                         *)
(* The books are right before any of this starts, and nothing here is a    *)
(* transaction: claim, request and mark are three steps, two calls may     *)
(* overlap, and an event names the charge of a whole campaign.  The deals  *)
(* this has touched are recorded in mishap, so that the properties can say *)
(* that nothing goes wrong without it.                                     *)
(***************************************************************************)
EXTENDS Naturals, Sequences, FiniteSets, FiniteSetsExt

CONSTANTS
  Deal,      \* deals with a dispute
  Charge,    \* consumed funding sessions
  NoCharge,  \* the campaign was not funded through the gateway
  Worker,    \* server invocations that may run at the same time
  MaxAsked   \* bound on the refunds the gateway accepts, for TLC

ASSUME NoChargeIsNothing == NoCharge \notin Charge \cup Deal

VARIABLES
  charge,   \* the charge that funded each deal's campaign
  due,      \* deals refunded in the ledger
  row,      \* the status of each deal's refund row
  gateway,  \* per deal, what became of every refund the gateway accepted
  events,   \* events the gateway has to deliver
  run,      \* what each worker is doing
  mishap    \* deals touched by an overlap, a lost answer, a death, or an event out of place

vars == << charge, due, row, gateway, events, run, mishap >>

----------------------------------------------------------------------------
RefundStatus == { "none", "pending", "processing", "refunded", "failed" }

Idle == [pc |-> "idle", deal |-> NoCharge]

Init ==
  /\ charge \in [Deal -> Charge \cup {NoCharge}]
  /\ due = {}
  /\ row = [d \in Deal |-> "none"]
  /\ gateway = [d \in Deal |-> <<>>]
  /\ events = {}
  /\ run = [w \in Worker |-> Idle]
  /\ mishap = {}

At(w, pc) == run[w].pc = pc

Goto(w, pc) == run' = [run EXCEPT ![w].pc = pc]

Busy(d) == { w \in Worker : run[w].deal = d }

\* For TLC, a call fails only where nothing has gone wrong yet.
MayFail(d) == d \notin mishap

Asked == MapThenSumSet(LAMBDA d : Len(gateway[d]), Deal)

----------------------------------------------------------------------------
\* resolveDisputeWithLedger: the ledger's refund commits, once per deal, and the same call
\* goes on to the gateway.
Resolve(w, d) ==
  /\ At(w, "idle")
  /\ d \notin due
  /\ due' = due \cup {d}
  /\ run' = [run EXCEPT ![w] = [pc |-> "asked", deal |-> d]]
  /\ UNCHANGED << charge, row, gateway, events, mishap >>

\* retryRefundForAdmin.  The payments page shows the button on a failed row; how long the
\* page stays open before the click is how long the call waits for its first step.
Retry(w, d) ==
  /\ At(w, "idle")
  /\ row[d] = "failed"
  /\ run' = [run EXCEPT ![w] = [pc |-> "asked", deal |-> d]]
  /\ UNCHANGED << charge, due, row, gateway, events, mishap >>

\* no_funding_charge: logged, no row.
FindNoCharge(w) ==
  /\ At(w, "asked")
  /\ charge[run[w].deal] = NoCharge
  /\ run' = [run EXCEPT ![w] = Idle]
  /\ UNCHANGED << charge, due, row, gateway, events, mishap >>

\* Mutant: whatever is not refunded is asked for again.
ReclaimUnsettled == RefundStatus \ { "refunded" }

\* What claimRow inserts or takes back.
Claimable == { "none", "pending", "failed" }

\* claimRow.  A row that is pending may be another call's, which goes on all the same.
ClaimRow(w) ==
  LET d == run[w].deal IN
  /\ At(w, "asked")
  /\ charge[d] # NoCharge
  /\ row[d] \in Claimable
  /\ row' = [row EXCEPT ![d] = "pending"]
  /\ Goto(w, "claimed")
  /\ mishap' = IF \E v \in Busy(d) \ {w} : ~At(v, "asked") THEN mishap \cup {d} ELSE mishap
  /\ UNCHANGED << charge, due, gateway, events >>

\* already_settled
ClaimIsRefused(w) ==
  /\ At(w, "asked")
  /\ charge[run[w].deal] # NoCharge
  /\ row[run[w].deal] \notin Claimable
  /\ run' = [run EXCEPT ![w] = Idle]
  /\ UNCHANGED << charge, due, row, gateway, events, mishap >>

\* gateway.refund: accepted ...
GatewayAccepts(w, answered) ==
  LET d == run[w].deal IN
  /\ At(w, "claimed")
  /\ answered \/ MayFail(d)
  /\ Asked < MaxAsked
  /\ gateway' = [gateway EXCEPT ![d] = Append(@, "open")]
  /\ Goto(w, IF answered THEN "accepted" ELSE "rejected")
  /\ mishap' = IF answered THEN mishap ELSE mishap \cup {d}
  /\ UNCHANGED << charge, due, row, events >>

\* ... or refused, or never reached.
GatewayRefuses(w) ==
  /\ At(w, "claimed")
  /\ Goto(w, "rejected")
  /\ UNCHANGED << charge, due, row, gateway, events, mishap >>

\* markProcessing and markFailed name the row and nothing else.
Mark(w, status) == row' = [row EXCEPT ![run[w].deal] = status]

MarkProcessing(w) ==
  /\ At(w, "accepted")
  /\ Mark(w, "processing")
  /\ run' = [run EXCEPT ![w] = Idle]
  /\ UNCHANGED << charge, due, gateway, events, mishap >>

\* Mutant: the row of a refused request waits for an event like any other.
ProcessingAnyway == "processing"

AfterRejection == "failed"

MarkFailed(w) ==
  /\ At(w, "rejected")
  /\ Mark(w, AfterRejection)
  /\ run' = [run EXCEPT ![w] = Idle]
  /\ UNCHANGED << charge, due, gateway, events, mishap >>

\* The invocation dies, or a write of the row fails: resolve-dispute.ts swallows it.
CutShort(w) ==
  /\ ~At(w, "idle")
  /\ MayFail(run[w].deal)
  /\ mishap' = mishap \cup {run[w].deal}
  /\ run' = [run EXCEPT ![w] = Idle]
  /\ UNCHANGED << charge, due, row, gateway, events >>

----------------------------------------------------------------------------
\* The gateway finishes a refund and owes an event about it.
GatewayFinishes(d, n, outcome) ==
  /\ n \in DOMAIN gateway[d]
  /\ gateway[d][n] = "open"
  /\ gateway' = [gateway EXCEPT ![d][n] = outcome]
  /\ events' = events \cup { [deal |-> d, refund |-> n] }
  /\ UNCHANGED << charge, due, row, run, mishap >>

\* Mutant: every row that is not settled yet.
SettleUnsettled(c) == { d \in Deal : charge[d] = c /\ row[d] \in {"pending", "processing"} }

\* settleRows: the rows of the charge that are under way, whichever deal the event is about.
Settled(c) == { d \in Deal : charge[d] = c /\ row[d] = "processing" }

\* An event about another refund settles the row, or its own finds it still pending.
Misled(d, e) ==
  IF d \in Settled(charge[e.deal])
  THEN d # e.deal \/ e.refund # Len(gateway[d])
  ELSE d = e.deal /\ row[d] = "pending"

SettledAs(e) == IF gateway[e.deal][e.refund] = "done" THEN "refunded" ELSE "failed"

\* settleRefundEvent, behind a webhook that always answers 200.  An answer that does not
\* arrive makes the gateway deliver again.
DeliverEvent(e, again) ==
  /\ e \in events
  /\ row' = [d \in Deal |->
       IF d \in Settled(charge[e.deal]) THEN SettledAs(e) ELSE row[d]]
  /\ mishap' = mishap \cup { d \in Deal : Misled(d, e) }
  /\ events' = IF again THEN events ELSE events \ {e}
  /\ UNCHANGED << charge, due, gateway, run >>

----------------------------------------------------------------------------
Event == [deal : Deal, refund : 1..MaxAsked]

Call(w) ==
  \/ FindNoCharge(w) \/ ClaimRow(w) \/ ClaimIsRefused(w)
  \/ \E answered \in BOOLEAN : GatewayAccepts(w, answered)
  \/ GatewayRefuses(w) \/ MarkProcessing(w) \/ MarkFailed(w)

Next ==
  \/ \E w \in Worker : Call(w) \/ CutShort(w) \/ \E d \in Deal : Resolve(w, d) \/ Retry(w, d)
  \/ \E d \in Deal, n \in 1..MaxAsked, outcome \in {"done", "failed"} :
       GatewayFinishes(d, n, outcome)
  \/ \E e \in Event, again \in BOOLEAN : DeliverEvent(e, again)

Spec == Init /\ [][Next]_vars

\* A running call goes on, the gateway finishes what it accepted, and delivers an event
\* until it is acknowledged.
Fairness ==
  /\ \A w \in Worker : WF_vars(Call(w))
  /\ \A d \in Deal, n \in 1..MaxAsked :
       WF_vars(\E outcome \in {"done", "failed"} : GatewayFinishes(d, n, outcome))
  /\ \A e \in Event : WF_vars(DeliverEvent(e, FALSE))

FairSpec == Spec /\ Fairness

----------------------------------------------------------------------------
\* Properties

TypeOK ==
  /\ charge \in [Deal -> Charge \cup {NoCharge}]
  /\ due \subseteq Deal
  /\ row \in [Deal -> RefundStatus]
  /\ gateway \in [Deal -> Seq({"open", "done", "failed"})]
  /\ events \subseteq Event
  /\ run \in [Worker -> [pc : {"idle", "asked", "claimed", "accepted", "rejected"},
                         deal : Deal \cup {NoCharge}]]
  /\ mishap \subseteq Deal

\* Refunds of a deal that moved money, or still may.
Live(d) == { n \in DOMAIN gateway[d] : gateway[d][n] # "failed" }

\* A brand is sent the money of a deal twice only if two calls overlapped, an answer was
\* lost, a call was cut short, or an event about another refund settled the row.
OnceUnlessMishap ==
  \A d \in Deal \ mishap : Cardinality(Live(d)) <= 1

\* Where nothing of that happened (nor an event overtook the row) and no call is under way,
\* the row says what the gateway did: it waits only for an event that is still to come, and
\* a row that can be retried stands for no refund.  Whatever happened, the books call a
\* refund done only if the gateway accepted one for the deal and paid one of its charge.
RowsTellTheTruth ==
  /\ \A d \in Deal \ mishap : Busy(d) = {} =>
       LET n == Len(gateway[d]) IN
       CASE row[d] = "none" -> gateway[d] = <<>> /\ (d \in due => charge[d] = NoCharge)
         [] row[d] = "pending" -> FALSE
         [] row[d] = "processing" ->
              n > 0 /\ (gateway[d][n] = "open" \/ [deal |-> d, refund |-> n] \in events)
         [] row[d] = "failed" -> Live(d) = {}
         [] row[d] = "refunded" -> n > 0 /\ gateway[d][n] = "done"
  /\ \A d \in Deal : row[d] = "refunded" =>
       /\ gateway[d] # <<>>
       /\ \E e \in Deal : charge[e] = charge[d] /\ \E n \in DOMAIN gateway[e] : gateway[e][n] = "done"

\* A refund that is due reaches the brand, or ends as a failed row an admin can retry; or
\* one of the mishaps has kept it from both.
DueIsSettledOrShown ==
  \A d \in Deal :
    d \in due /\ charge[d] # NoCharge ~> row[d] \in {"refunded", "failed"} \/ d \in mishap
=============================================================================
