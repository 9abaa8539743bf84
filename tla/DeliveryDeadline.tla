---------------------------- MODULE DeliveryDeadline ----------------------------
(***************************************************************************)
(* The delivery date of one deal: ledger.ts sets it at funding,            *)
(* deadline-requests.ts moves it when both parties agree,                  *)
(* state-machine.ts freezes it at the first delivery, and deadline.ts      *)
(* judges the delivery by it.                                              *)
(*                                                                         *)
(* Every handler holds the deal's row lock, so each is one action.  Each   *)
(* reads the clock of the server it runs on; two servers may differ.       *)
(***************************************************************************)
EXTENDS Integers, FiniteSets, DealStates

CONSTANTS
  Extension,  \* extension requests
  Windows,    \* delivery windows an offer may have been made with
  MaxTime,    \* bound on the clock and on proposed dates, for TLC
  Skew,       \* how far a server's clock may be behind
  NoTime,     \* null
  Nobody      \* null

ASSUME TimesAreNatural == MaxTime \in Nat /\ Skew \in Nat
ASSUME NoTimeIsNoTime == NoTime \notin Int
ASSUME WindowsArePositive == Windows \subseteq (Nat \ {0}) \cup {NoTime}

VARIABLES
  now,      \* time
  deal,     \* the columns of the deal that tell when it is delivered
  request   \* deadline_request rows

vars == << now, deal, request >>

----------------------------------------------------------------------------
Party == { "brand", "creator" }
Other(party) == IF party = "brand" THEN "creator" ELSE "brand"

Time == 0..MaxTime

Statuses == { "accepted", "funded", "delivered", "revision_requested", "completed", "refunded" }
RequestStatus == { "none", "pending", "accepted", "rejected", "withdrawn", "closed" }
Decision == { "accepted", "rejected", "withdrawn" }

Deal ==
  [status : Statuses, window : Windows, fundedAt : Time \cup {NoTime},
   original : Nat \cup {NoTime}, due : Nat \cup {NoTime},
   firstDelivered : Time \cup {NoTime}, dueAtFirst : Nat \cup {NoTime}, missed : BOOLEAN]

Row ==
  [status : RequestStatus, proposer : Party \cup {Nobody}, previous : Nat \cup {NoTime},
   proposed : Nat \cup {NoTime}, proposedAt : Time \cup {NoTime},
   decider : Party \cup {Nobody}, decidedAt : Time \cup {NoTime}]

NoRow == [status |-> "none", proposer |-> Nobody, previous |-> NoTime, proposed |-> NoTime,
          proposedAt |-> NoTime, decider |-> Nobody, decidedAt |-> NoTime]

Pending == { x \in Extension : request[x].status = "pending" }

\* What new Date() may return.
Clock == { t \in Time : now - Skew <= t /\ t <= now }

Init ==
  /\ now = 0
  /\ deal \in { [status |-> "accepted", window |-> w, fundedAt |-> NoTime, original |-> NoTime,
                 due |-> NoTime, firstDelivered |-> NoTime, dueAtFirst |-> NoTime,
                 missed |-> FALSE] : w \in Windows }
  /\ request = [x \in Extension |-> NoRow]

Tick ==
  /\ now < MaxTime
  /\ now' = now + 1
  /\ UNCHANGED << deal, request >>

----------------------------------------------------------------------------
\* holdForCampaign: fundingDeadline
Fund(t) ==
  LET due == IF deal.window = NoTime THEN NoTime ELSE t + deal.window IN
    /\ CanTransition(deal.status, "funded")
    /\ deal' = [deal EXCEPT !.status = "funded", !.fundedAt = t, !.original = due, !.due = due]
    /\ UNCHANGED << now, request >>

\* Mutant: an extension stays possible after the delivery.
ActiveWhileUnreviewed ==
  /\ deal.status \in {"funded", "delivered", "revision_requested"}
  /\ deal.due # NoTime

\* active: an agreed date, and nothing delivered yet
Active ==
  /\ deal.status = "funded"
  /\ deal.firstDelivered = NoTime
  /\ deal.window # NoTime /\ deal.due # NoTime

\* later
IsLater(proposed, t) == proposed > deal.due /\ proposed > t

\* proposeDeadline; a screen that shows another date than the deal's is refused.
Propose(x, party, proposed, t) ==
  /\ request[x] = NoRow
  /\ Active
  /\ IsLater(proposed, t)
  /\ Pending = {}
  /\ request' = [request EXCEPT ![x] =
       [NoRow EXCEPT !.status = "pending", !.proposer = party, !.previous = deal.due,
                     !.proposed = proposed, !.proposedAt = t]]
  /\ UNCHANGED << now, deal >>

\* Mutant: whoever sees the request may decide it.
AnyoneDecides(x, party, decision) == TRUE

MayDecide(x, party, decision) ==
  IF decision = "withdrawn" THEN party = request[x].proposer ELSE party # request[x].proposer

\* Mutant: the last extension decides.
MissedLast(t) == t > deal.due

\* A date that passed before its extension was accepted was missed for good.
MissedBy(t) == deal.missed \/ t > deal.due

\* decideDeadline
Decide(x, party, decision, t) ==
  /\ x \in Pending
  /\ MayDecide(x, party, decision)
  /\ Active /\ request[x].previous = deal.due
  /\ t >= request[x].proposedAt
  /\ IF decision = "accepted"
     THEN /\ IsLater(request[x].proposed, t)
          /\ deal' = [deal EXCEPT !.due = request[x].proposed, !.missed = MissedBy(t)]
     ELSE UNCHANGED deal
  /\ request' = [request EXCEPT ![x].status = decision, ![x].decider = party,
                                ![x].decidedAt = t]
  /\ UNCHANGED now

\* Mutant: the requests stay as they are.
LeaveOpen(t) == UNCHANGED request

\* closeDeadlineRequests.  The row's CHECK refuses a decision before the proposal, and
\* with it the whole transaction: a server behind the proposer's cannot close it yet.
Close(t) ==
  /\ \A x \in Pending : t >= request[x].proposedAt
  /\ request' = [x \in Extension |->
       IF x \in Pending
       THEN [request[x] EXCEPT !.status = "closed", !.decidedAt = t] ELSE request[x]]

\* Mutant: every delivery stamps the date again.
IsAnyDelivery == TRUE

IsFirstDelivery == deal.status = "funded" /\ deal.firstDelivered = NoTime

\* transitionDeal to delivered
Deliver(t) ==
  /\ CanTransition(deal.status, "delivered")
  /\ IF IsFirstDelivery
     THEN /\ deal' = [deal EXCEPT !.status = "delivered", !.firstDelivered = t,
                                  !.dueAtFirst = deal.due]
          /\ Close(t)
     ELSE /\ deal' = [deal EXCEPT !.status = "delivered"]
          /\ UNCHANGED request
  /\ UNCHANGED now

\* transitionDeal to refunded
Refund(t) ==
  /\ CanTransition(deal.status, "refunded")
  /\ deal' = [deal EXCEPT !.status = "refunded"]
  /\ Close(t)
  /\ UNCHANGED now

\* transitionDeal from delivered to revision_requested or completed
Review(verdict) ==
  /\ CanTransition(deal.status, verdict)
  /\ deal' = [deal EXCEPT !.status = verdict]
  /\ UNCHANGED << now, request >>

Next ==
  \/ Tick
  \/ \E t \in Clock : Fund(t) \/ Deliver(t) \/ Refund(t)
  \/ \E x \in Extension, party \in Party, proposed \in Time, t \in Clock :
       Propose(x, party, proposed, t)
  \/ \E x \in Extension, party \in Party, decision \in Decision, t \in Clock :
       Decide(x, party, decision, t)
  \/ \E verdict \in {"revision_requested", "completed"} : Review(verdict)

Spec == Init /\ [][Next]_vars

----------------------------------------------------------------------------
\* classifyPunctuality, by a server whose clock shows t
Punctuality(t) ==
  CASE deal.window = NoTime -> "unknown"
    [] deal.window # NoTime /\ deal.firstDelivered # NoTime ->
         (CASE deal.dueAtFirst = NoTime -> "unknown"
            [] deal.firstDelivered > deal.dueAtFirst -> "late"
            [] OTHER -> IF deal.missed THEN "earlier_missed" ELSE "on_time")
    [] OTHER ->
         (CASE deal.status = "refunded" -> "closed"
            [] deal.status = "accepted" -> "awaiting_funding"
            [] OTHER -> IF t > deal.due THEN "overdue" ELSE "due")

----------------------------------------------------------------------------
\* Properties

\* Types, and the CHECKs of the two tables: a decided request is dated, and a date never
\* moves before the original one.
TypeOK ==
  /\ now \in Time
  /\ deal \in Deal
  /\ request \in [Extension -> Row]
  /\ \A x \in Extension :
       (request[x].decidedAt = NoTime) = (request[x].status \in {"none", "pending"})
  /\ deal.due # NoTime => deal.due >= deal.original

\* At most one extension is open, it is about the date in force, and neither the first
\* delivery nor a refund leaves one behind.
OpenRequestsAreCurrent ==
  /\ Cardinality(Pending) <= 1
  /\ \A x \in Pending : Active /\ request[x].previous = deal.due

Accepted == { x \in Extension : request[x].status = "accepted" }

\* The date in force is reached from the one set at funding by extensions that each took
\* over where the one before ended, each agreed by both parties.
TheDateWasAgreed ==
  /\ deal.due # NoTime =>
       { deal.original } \cup { request[x].proposed : x \in Accepted }
         = { deal.due } \cup { request[x].previous : x \in Accepted }
  /\ \A x, y \in Accepted : x # y => request[x].previous # request[y].previous
  /\ \A x \in Accepted : request[x].decider = Other(request[x].proposer)

\* Dates in force with the moment each ended: replaced by a later one, or delivered.
Commitments ==
  { << request[x].previous, request[x].decidedAt >> : x \in Accepted }
    \cup (IF deal.firstDelivered = NoTime THEN {} ELSE { << deal.dueAtFirst, deal.firstDelivered >> })

\* A delivery counts as on time exactly when no date that was ever in force had passed when
\* it ended, whatever was agreed afterwards ("permanently records that a commitment was
\* missed", README).
PunctualityTellsTheHistory ==
  deal.firstDelivered # NoTime /\ deal.window # NoTime =>
    \A t \in Clock :
      (Punctuality(t) = "on_time") = (\A c \in Commitments : c[2] <= c[1])

\* The first full delivery freezes its time, its date and the verdict: no revision,
\* approval, refund or late answer to a request changes them.
DeliveryFreezes ==
  [][deal.firstDelivered # NoTime =>
       /\ deal'.firstDelivered = deal.firstDelivered
       /\ deal'.dueAtFirst = deal.dueAtFirst /\ deal'.due = deal.due
       /\ deal'.missed = deal.missed]_vars
=============================================================================
