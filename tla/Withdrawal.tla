------------------------------ MODULE Withdrawal ------------------------------
(***************************************************************************)
(* One creator's wallet: withdraw.ts reserves the money and asks the       *)
(* gateway for a transfer, settle-withdrawal.ts records what became of it, *)
(* sweep-withdrawals.ts looks after what no webhook settled.               *)
(*                                                                         *)
(* Only the reservation is a transaction.  The gateway is asked between    *)
(* two updates of the row, and a webhook, a sweep and the request itself   *)
(* may all work on one row.  A row's age is what the sweep tells apart.    *)
(***************************************************************************)
EXTENDS Naturals, FiniteSets, FiniteSetsExt

CONSTANTS
  Transfer,    \* withdrawals, named by their tx_ref
  Worker,      \* server invocations that may run at the same time
  Amount,      \* amounts a creator may ask for, from the minimum on
  MaxEarned,   \* bound on the earnings, for TLC
  NoTransfer   \* "no withdrawal"

ASSUME NoTransferIsNoTransfer == NoTransfer \notin Transfer
ASSUME AmountsArePositive == Amount \subseteq Nat \ {0}

VARIABLES
  earned,    \* the sum of the creator's release_payout rows
  row,       \* withdrawal rows
  transfer,  \* what the gateway did with each
  run        \* what each worker is doing

vars == << earned, row, transfer, run >>

----------------------------------------------------------------------------
WithdrawalStatus == { "none", "pending", "processing", "paid", "failed" }

\* Older than nothing, an hour (the sweep settles it), a day (the sweep gives it up).
Age == { "fresh", "hour", "day" }

Row == [status : WithdrawalStatus, amount : Amount \cup {0}, age : Age]

NoRow == [status |-> "none", amount |-> 0, age |-> "fresh"]

\* queued: accepted, not decided yet.  returned: failed, cancelled or reversed.
TransferState == { "none", "queued", "arrived", "returned" }

Live == { t \in Transfer : transfer[t] \in {"queued", "arrived"} }

\* seen: the rows in the snapshot of the reservation.  todo, old: the rows a sweep
\* still has to settle, and those that were a day old when it began.
Run ==
  [pc     : { "idle", "reserve", "send", "accepted", "refused",
              "read", "verify", "arrived", "returned", "sweep" },
   t      : Transfer \cup {NoTransfer},
   amount : Amount \cup {0},
   seen   : SUBSET Transfer,
   sweeps : BOOLEAN,
   todo   : SUBSET Transfer,
   old    : SUBSET Transfer]

Idle == [pc |-> "idle", t |-> NoTransfer, amount |-> 0, seen |-> {},
         sweeps |-> FALSE, todo |-> {}, old |-> {}]

Settleable == { "pending", "processing" }

Rows == { t \in Transfer : row[t].status # "none" }

SumOver(S) == SumFunctionOnSet([t \in Transfer |-> row[t].amount], S)

\* withdrawn + inFlight: every row that has not failed.
Spent == SumOver({ t \in Rows : row[t].status # "failed" })

Init ==
  /\ earned   = 0
  /\ row      = [t \in Transfer |-> NoRow]
  /\ transfer = [t \in Transfer |-> "none"]
  /\ run      = [w \in Worker |-> Idle]

----------------------------------------------------------------------------
\* The world around the wallet

\* A payout of one of the creator's deals commits in the ledger.
Earn(amount) ==
  /\ earned + amount <= MaxEarned
  /\ earned' = earned + amount
  /\ UNCHANGED << row, transfer, run >>

\* A request's invocation has ended long before its row is an hour old.
GrowOld(t) ==
  /\ row[t].status \in Settleable
  /\ row[t].age # "day"
  /\ \A w \in Worker : run[w].t = t => run[w].pc \notin {"send", "accepted", "refused"}
  /\ row' = [row EXCEPT ![t].age = IF @ = "fresh" THEN "hour" ELSE "day"]
  /\ UNCHANGED << earned, transfer, run >>

Decide(t, verdict) ==
  /\ transfer[t] = "queued"
  /\ transfer' = [transfer EXCEPT ![t] = verdict]
  /\ UNCHANGED << earned, row, run >>

----------------------------------------------------------------------------
\* requestWithdrawal

\* The transaction's snapshot, in which the amount is available.
ReadBalance(w, t, amount) ==
  /\ run[w] = Idle
  /\ row[t] = NoRow
  /\ \A v \in Worker : run[v].t # t
  /\ Spent + amount <= earned
  /\ run' = [run EXCEPT ![w] = [Idle EXCEPT !.pc = "reserve", !.t = t,
                                            !.amount = amount, !.seen = Rows]]
  /\ UNCHANGED << earned, row, transfer >>

\* Mutant: the reservation runs at Postgres's default isolation.
ReserveUnserialized(w) == TRUE

\* Of two reservations that did not see each other's row, one fails to commit.
MayCommit(w) == Rows = run[w].seen

Reserve(w) ==
  /\ run[w].pc = "reserve"
  /\ MayCommit(w)
  /\ row' = [row EXCEPT ![run[w].t] = [status |-> "pending", amount |-> run[w].amount,
                                       age |-> "fresh"]]
  /\ run' = [run EXCEPT ![w].pc = "send", ![w].seen = {}]
  /\ UNCHANGED << earned, transfer >>

\* A serialization failure, which Postgres may also report without need: "conflict".
ReserveConflicts(w) ==
  /\ run[w].pc = "reserve"
  /\ run' = [run EXCEPT ![w] = Idle]
  /\ UNCHANGED << earned, row, transfer >>

SendTransfer(w) ==
  /\ run[w].pc = "send"
  /\ transfer' = [transfer EXCEPT ![run[w].t] = "queued"]
  /\ run' = [run EXCEPT ![w].pc = "accepted"]
  /\ UNCHANGED << earned, row >>

\* The client turns a refusal, an unreachable gateway and an answer it cannot read
\* into the same error, and the gateway may have taken the transfer before.
SendFails(w) ==
  /\ run[w].pc = "send"
  /\ \E sent \in BOOLEAN :
       transfer' = IF sent THEN [transfer EXCEPT ![run[w].t] = "queued"] ELSE transfer
  /\ run' = [run EXCEPT ![w].pc = "refused"]
  /\ UNCHANGED << earned, row >>

\* Both marks of the request are unconditional updates.
MarkProcessing(w) ==
  /\ run[w].pc = "accepted"
  /\ row' = [row EXCEPT ![run[w].t].status = "processing"]
  /\ run' = [run EXCEPT ![w] = Idle]
  /\ UNCHANGED << earned, transfer >>

MarkRefused(w) ==
  /\ run[w].pc = "refused"
  /\ row' = [row EXCEPT ![run[w].t].status = "failed"]
  /\ run' = [run EXCEPT ![w] = Idle]
  /\ UNCHANGED << earned, transfer >>

----------------------------------------------------------------------------
\* settleWithdrawal, for a webhook or for the sweep

\* After a row the sweep goes on with the next; a webhook is answered.
Done(w) ==
  run' = [run EXCEPT ![w] =
            IF @.sweeps THEN [@ EXCEPT !.pc = "sweep", !.t = NoTransfer] ELSE Idle]

\* Any number of deliveries, in any order, and perhaps none at all.
ReceiveWebhook(w, t) ==
  /\ run[w] = Idle
  /\ transfer[t] # "none"
  /\ run' = [run EXCEPT ![w] = [Idle EXCEPT !.pc = "read", !.t = t]]
  /\ UNCHANGED << earned, row, transfer >>

ReadWithdrawal(w) ==
  /\ run[w].pc = "read"
  /\ IF row[run[w].t].status \in Settleable
       THEN run' = [run EXCEPT ![w].pc = "verify"]
       ELSE Done(w)
  /\ UNCHANGED << earned, row, transfer >>

\* Mutant: a transfer the gateway has accepted counts as paid.
IsPaidIfAccepted(state) == state \in {"queued", "arrived"}

IsPaid(state) == state = "arrived"

VerifyTransfer(w) ==
  /\ run[w].pc = "verify"
  /\ \/ IsPaid(transfer[run[w].t]) /\ run' = [run EXCEPT ![w].pc = "arrived"]
     \/ transfer[run[w].t] = "returned" /\ run' = [run EXCEPT ![w].pc = "returned"]
  /\ UNCHANGED << earned, row, transfer >>

\* Still queued, unknown to the gateway, or the gateway cannot be reached.
VerifyPending(w) ==
  /\ run[w].pc = "verify"
  /\ Done(w)
  /\ UNCHANGED << earned, row, transfer >>

\* markPaid, markFailed: conditional on the status still being settleable.
MarkSettled(w) ==
  /\ run[w].pc \in {"arrived", "returned"}
  /\ row' = [row EXCEPT ![run[w].t].status =
               IF @ \notin Settleable THEN @
               ELSE IF run[w].pc = "arrived" THEN "paid" ELSE "failed"]
  /\ Done(w)
  /\ UNCHANGED << earned, transfer >>

----------------------------------------------------------------------------
\* sweepWithdrawals

\* Mutant: the sweep settles only what is still pending.
ListedIfPending == {"pending"}

Listed == {"pending", "processing"}

StartSweep(w) ==
  /\ run[w] = Idle
  /\ run' = [run EXCEPT ![w] =
       [Idle EXCEPT !.pc = "sweep", !.sweeps = TRUE,
          !.todo = { t \in Rows : row[t].status \in Listed /\ row[t].age # "fresh" },
          !.old  = { t \in Rows : row[t].age = "day" }]]
  /\ UNCHANGED << earned, row, transfer >>

SweepNext(w, t) ==
  /\ run[w].pc = "sweep"
  /\ t \in run[w].todo
  /\ run' = [run EXCEPT ![w].pc = "read", ![w].t = t, ![w].todo = @ \ {t}]
  /\ UNCHANGED << earned, row, transfer >>

AbandonStalePending(w) ==
  /\ run[w].pc = "sweep"
  /\ run[w].todo = {}
  /\ row' = [t \in Transfer |->
               IF t \in run[w].old /\ row[t].status = "pending"
                 THEN [row[t] EXCEPT !.status = "failed"] ELSE row[t]]
  /\ run' = [run EXCEPT ![w] = Idle]
  /\ UNCHANGED << earned, transfer >>

\* An invocation dies between any two statements; so does a sweep whose settlement
\* throws.
Crash(w) ==
  /\ run[w] # Idle
  /\ run' = [run EXCEPT ![w] = Idle]
  /\ UNCHANGED << earned, row, transfer >>

----------------------------------------------------------------------------
Request(w) ==
  \/ Reserve(w) \/ ReserveConflicts(w) \/ SendTransfer(w) \/ SendFails(w)
  \/ MarkProcessing(w) \/ MarkRefused(w)

Settle(w) ==
  \/ ReadWithdrawal(w) \/ VerifyTransfer(w) \/ VerifyPending(w) \/ MarkSettled(w)

Sweep(w) == AbandonStalePending(w) \/ \E t \in Transfer : SweepNext(w, t)

Next ==
  \/ \E amount \in Amount : Earn(amount)
  \/ \E t \in Transfer : \/ GrowOld(t)
                         \/ \E verdict \in {"arrived", "returned"} : Decide(t, verdict)
  \/ \E w \in Worker :
       \/ Request(w) \/ Settle(w) \/ Sweep(w) \/ StartSweep(w) \/ Crash(w)
       \/ \E t \in Transfer : \/ ReceiveWebhook(w, t)
                              \/ \E amount \in Amount : ReadBalance(w, t, amount)

Spec == Init /\ [][Next]_vars

\* An invocation that runs takes its next step, cron keeps starting sweeps, time
\* passes, the gateway decides what it accepted, and neither side is down for good.
\* No webhook need ever arrive.
Step(w) == Request(w) \/ Settle(w) \/ Sweep(w)

Outage(w) == \/ Crash(w) /\ ~Step(w)
             \/ VerifyPending(w) /\ transfer[run[w].t] \in {"arrived", "returned"}

Fairness ==
  /\ \A w \in Worker : WF_vars(Step(w))
  /\ SF_vars(\E w \in Worker : StartSweep(w))
  /\ \A t \in Transfer : /\ SF_vars(GrowOld(t))
                         /\ WF_vars(\E verdict \in {"arrived", "returned"} :
                                      Decide(t, verdict))
  /\ <>[][~\E w \in Worker : Outage(w)]_vars

FairSpec == Spec /\ Fairness

----------------------------------------------------------------------------
\* Properties

TypeOK ==
  /\ earned   \in Nat
  /\ row      \in [Transfer -> Row]
  /\ transfer \in [Transfer -> TransferState]
  /\ run      \in [Worker -> Run]
  /\ \A w \in Worker : run[w].t = NoTransfer <=> run[w].pc \in {"idle", "sweep"}

\* However many requests, webhooks and sweeps race, the money the gateway may pay
\* out for withdrawals that are not written off never exceeds what was earned.
SentWithinEarnings ==
  SumOver({ t \in Live : row[t].status # "failed" }) <= earned

\* A withdrawal is shown as paid only when the gateway has paid it, whoever settled
\* it and however late.
PaidHasArrived ==
  \A t \in Transfer : row[t].status = "paid" => transfer[t] = "arrived"

\* A withdrawal never stays in flight for ever, be every webhook lost: the sweep
\* settles it or gives it up.
EveryWithdrawalEnds ==
  \A t \in Transfer :
    row[t].status \in Settleable ~> row[t].status \in {"paid", "failed"}
=============================================================================
