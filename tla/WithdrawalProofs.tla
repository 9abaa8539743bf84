--------------------------- MODULE WithdrawalProofs --------------------------
(***************************************************************************)
(* Type correctness of the wallet, that nothing is shown as paid before    *)
(* it was, and that the gateway never pays out more than was earned: for   *)
(* any withdrawals, workers and amounts.  The first two need only that an  *)
(* arrived transfer is never sent again, which rests on who may still be   *)
(* about to send it.  The last one is an induction over a sum: what may    *)
(* be paid only shrinks while no row is added, and a reservation adds one  *)
(* only if it has seen all the others.                                     *)
(***************************************************************************)
EXTENDS Withdrawal, SumFacts

BeforeSending == {"reserve", "send"}

Reserved == {"send", "accepted", "refused"}

\* A settler that found the transfer arrived is right for good.
SettlersAreRight ==
  \A w \in Worker : run[w].pc = "arrived" => transfer[run[w].t] = "arrived"

\* A transfer is sent once: by one request, with a row, and nothing sent before.
SendersAreFirst ==
  /\ \A w \in Worker :
       run[w].pc \in BeforeSending =>
         /\ transfer[run[w].t] = "none"
         /\ \A v \in Worker :
              run[v].pc \in BeforeSending /\ run[v].t = run[w].t => v = w
  /\ \A w \in Worker : run[w].pc \in Reserved => row[run[w].t].status # "none"
  /\ \A t \in Transfer : row[t].status = "none" => transfer[t] = "none"

WalletInv == TypeOK /\ SettlersAreRight /\ SendersAreFirst /\ PaidHasArrived

\* The initial state satisfies the invariant.
LEMMA InitWallet == Init => WalletInv
  BY NoTransferIsNoTransfer
     DEF Init, WalletInv, TypeOK, SettlersAreRight, SendersAreFirst, PaidHasArrived,
         BeforeSending, Reserved, Row, NoRow, WithdrawalStatus, Age, TransferState, Run, Idle

\* The idle run is a run that concerns no withdrawal.
LEMMA IdleRun == Idle \in Run /\ Idle.pc = "idle" /\ Idle.t = NoTransfer
  BY DEF Idle, Run

\* A worker's step that leaves rows and transfers alone keeps the invariant, if its
\* own run is what the invariant asks.
LEMMA RunStep ==
  ASSUME WalletInv, NEW w \in Worker, NEW new \in Run,
         run' = [run EXCEPT ![w] = new], UNCHANGED << earned, row, transfer >>,
         new.t = NoTransfer <=> new.pc \in {"idle", "sweep"},
         new.pc = "arrived" => transfer[new.t] = "arrived",
         new.pc \notin BeforeSending \cup Reserved
  PROVE  WalletInv'
<1>1. /\ run' \in [Worker -> Run]
      /\ run'[w] = new
      /\ \A v \in Worker \ {w} : run'[v] = run[v]
  BY DEF WalletInv, TypeOK
<1>2. TypeOK' /\ PaidHasArrived'
  BY <1>1 DEF WalletInv, TypeOK, PaidHasArrived
<1>3. SettlersAreRight'
  BY <1>1 DEF WalletInv, SettlersAreRight
<1>4. SendersAreFirst'
  <2>1. \A v \in Worker : run'[v].pc \in BeforeSending \cup Reserved => run'[v] = run[v]
    BY <1>1
  <2> QED
    BY <1>1, <2>1 DEF WalletInv, SendersAreFirst, BeforeSending, Reserved
<1> QED
  BY <1>2, <1>3, <1>4 DEF WalletInv

\* A step that rewrites rows keeps the invariant if none appears, vanishes or turns
\* paid but for a transfer that arrived.
LEMMA RowStep ==
  ASSUME WalletInv, NEW w \in Worker, NEW new \in Run,
         run' = [run EXCEPT ![w] = new], UNCHANGED << earned, transfer >>,
         row' \in [Transfer -> Row],
         \A t \in Transfer : row'[t].status = "none" <=> row[t].status = "none",
         \A t \in Transfer : row'[t].status = "paid" => transfer[t] = "arrived",
         new.t = NoTransfer /\ new.pc \in {"idle", "sweep"}
  PROVE  WalletInv'
<1>1. /\ run' \in [Worker -> Run]
      /\ run'[w] = new
      /\ \A v \in Worker \ {w} : run'[v] = run[v]
  BY DEF WalletInv, TypeOK
<1>2. TypeOK' /\ PaidHasArrived'
  BY <1>1 DEF WalletInv, TypeOK, PaidHasArrived
<1>3. SettlersAreRight'
  BY <1>1 DEF WalletInv, SettlersAreRight
<1>4. SendersAreFirst'
  <2>1. \A v \in Worker : run'[v].pc \in BeforeSending \cup Reserved
                                => run'[v] = run[v] /\ run[v].t \in Transfer
    BY <1>1 DEF WalletInv, TypeOK, BeforeSending, Reserved, Run
  <2> QED
    BY <1>1, <2>1 DEF WalletInv, SendersAreFirst, BeforeSending, Reserved
<1> QED
  BY <1>2, <1>3, <1>4 DEF WalletInv

\* What Done leaves behind.
LEMMA DoneRun ==
  ASSUME TypeOK, NEW w \in Worker, Done(w)
  PROVE  \E new \in Run : /\ run' = [run EXCEPT ![w] = new]
                          /\ new.t = NoTransfer /\ new.pc \in {"idle", "sweep"}
<1> DEFINE new == IF run[w].sweeps THEN [run[w] EXCEPT !.pc = "sweep", !.t = NoTransfer]
                                   ELSE Idle
<1>1. run' = [run EXCEPT ![w] = new]
  BY DEF Done, TypeOK
<1>2. new \in Run /\ new.t = NoTransfer /\ new.pc \in {"idle", "sweep"}
  <2>1. run[w] \in Run
    BY DEF TypeOK
  <2> QED
    BY <2>1, IdleRun DEF Run
<1> QED
  BY <1>1, <1>2

\* A run that moves on to another statement keeps its withdrawal.
LEMMA MovedRun ==
  ASSUME NEW k \in Run, NEW pc \in {"accepted", "refused", "verify", "arrived", "returned"}
  PROVE  /\ [k EXCEPT !.pc = pc] \in Run
         /\ [k EXCEPT !.pc = pc].t = k.t /\ [k EXCEPT !.pc = pc].pc = pc
  BY DEF Run

\* Every step keeps the invariant: one step of the proof per action.
LEMMA NextWallet == WalletInv /\ [Next]_vars => WalletInv'
<1> SUFFICES ASSUME WalletInv, [Next]_vars PROVE WalletInv'
  OBVIOUS
<1>t. TypeOK
  BY DEF WalletInv
<1>1. CASE UNCHANGED vars
  BY <1>1 DEF vars, WalletInv, TypeOK, SettlersAreRight, SendersAreFirst, PaidHasArrived
<1>2. ASSUME NEW amount \in Amount, Earn(amount) PROVE WalletInv'
  BY <1>2, AmountsArePositive
     DEF Earn, WalletInv, TypeOK, SettlersAreRight, SendersAreFirst, PaidHasArrived
<1>3. ASSUME NEW t \in Transfer, GrowOld(t) PROVE WalletInv'
  <2>1. /\ row' \in [Transfer -> Row]
        /\ \A u \in Transfer : row'[u].status = row[u].status
        /\ UNCHANGED << earned, transfer, run >>
    BY <1>3, <1>t DEF GrowOld, TypeOK, Row, Age
  <2>2. \A v \in Worker : run[v].pc \in BeforeSending \cup Reserved => run[v].t \in Transfer
    BY <1>t DEF TypeOK, Run, BeforeSending, Reserved
  <2> QED
    BY <2>1, <2>2 DEF WalletInv, TypeOK, SettlersAreRight, SendersAreFirst, PaidHasArrived
<1>4. ASSUME NEW t \in Transfer, NEW verdict \in {"arrived", "returned"}, Decide(t, verdict)
      PROVE  WalletInv'
  <2>1. /\ transfer' \in [Transfer -> TransferState]
        /\ \A u \in Transfer : transfer[u] \in {"none", "arrived"} => transfer'[u] = transfer[u]
        /\ \A u \in Transfer : transfer'[u] = "none" <=> transfer[u] = "none"
        /\ UNCHANGED << earned, row, run >>
    BY <1>4, <1>t DEF Decide, TypeOK, TransferState
  <2>2. \A w \in Worker : run[w].pc \in BeforeSending \cup {"arrived"} => run[w].t \in Transfer
    BY <1>t DEF TypeOK, Run, BeforeSending
  <2> QED
    BY <2>1, <2>2 DEF WalletInv, TypeOK, SettlersAreRight, SendersAreFirst, PaidHasArrived
<1>5. ASSUME NEW w \in Worker, NEW t \in Transfer, NEW amount \in Amount,
             ReadBalance(w, t, amount)
      PROVE  WalletInv'
  <2> DEFINE new == [Idle EXCEPT !.pc = "reserve", !.t = t, !.amount = amount, !.seen = Rows]
  <2>1. new \in Run /\ new.pc = "reserve" /\ new.t = t
    BY DEF Idle, Run, Rows
  <2>2. /\ run' = [run EXCEPT ![w] = new]
        /\ row[t].status = "none"
        /\ \A v \in Worker : run[v].t # t
        /\ UNCHANGED << earned, row, transfer >>
    BY <1>5 DEF ReadBalance, NoRow
  <2>3. /\ run' \in [Worker -> Run]
        /\ run'[w] = new
        /\ \A v \in Worker \ {w} : run'[v] = run[v]
    BY <2>1, <2>2, <1>t DEF TypeOK
  <2>4. TypeOK' /\ PaidHasArrived' /\ SettlersAreRight'
    BY <2>1, <2>2, <2>3, NoTransferIsNoTransfer
       DEF WalletInv, TypeOK, PaidHasArrived, SettlersAreRight
  <2>5. SendersAreFirst'
    BY <2>1, <2>2, <2>3 DEF WalletInv, SendersAreFirst, BeforeSending, Reserved
  <2> QED
    BY <2>4, <2>5 DEF WalletInv
<1>6. ASSUME NEW w \in Worker, Reserve(w) PROVE WalletInv'
  <2> DEFINE new == [run[w] EXCEPT !.pc = "send", !.seen = {}]
  <2>1. run[w] \in Run /\ run[w].pc = "reserve" /\ run[w].t \in Transfer
    BY <1>6, <1>t DEF Reserve, TypeOK, Run
  <2>2. new \in Run /\ new.pc = "send" /\ new.t = run[w].t
    BY <2>1 DEF Run
  <2>3. /\ run' \in [Worker -> Run]
        /\ run'[w] = new
        /\ \A v \in Worker \ {w} : run'[v] = run[v]
    BY <1>6, <2>2, <1>t DEF Reserve, TypeOK
  <2>4. /\ row' \in [Transfer -> Row]
        /\ row'[run[w].t].status = "pending"
        /\ \A u \in Transfer \ {run[w].t} : row'[u] = row[u]
        /\ UNCHANGED << earned, transfer >>
    BY <1>6, <2>1, <1>t DEF Reserve, TypeOK, Row, Run, Age, WithdrawalStatus
  <2>5. \A v \in Worker : run[v].pc \in BeforeSending \cup Reserved => run[v].t \in Transfer
    BY <1>t DEF TypeOK, Run, BeforeSending, Reserved
  <2>6. TypeOK'
    <3>1. \A v \in Worker : run'[v].t = NoTransfer <=> run'[v].pc \in {"idle", "sweep"}
      <4>1. \A v \in Worker : run[v].t = NoTransfer <=> run[v].pc \in {"idle", "sweep"}
        BY <1>t DEF TypeOK
      <4>2. new.t # NoTransfer /\ new.pc \notin {"idle", "sweep"}
        BY <2>1, <2>2, NoTransferIsNoTransfer
      <4> HIDE DEF new
      <4> QED
        BY <2>3, <4>1, <4>2
    <3> QED
      BY <2>3, <2>4, <3>1, <1>t DEF TypeOK
  <2>7. PaidHasArrived'
    BY <2>4 DEF WalletInv, PaidHasArrived
  <2>8. SettlersAreRight'
    BY <2>2, <2>3, <2>4 DEF WalletInv, SettlersAreRight
  <2>9. SendersAreFirst'
    <3>1. \A v \in Worker : /\ run'[v].t = run[v].t
                            /\ run'[v].pc \in BeforeSending <=> run[v].pc \in BeforeSending
      BY <2>1, <2>2, <2>3 DEF BeforeSending
    <3>2. \A u \in Transfer : row'[u].status = "none" => row[u].status = "none"
      BY <2>4
    <3>3. \A v \in Worker : run'[v].pc \in Reserved => row'[run'[v].t].status # "none"
      <4> SUFFICES ASSUME NEW v \in Worker, run'[v].pc \in Reserved
                   PROVE  row'[run'[v].t].status # "none"
        OBVIOUS
      <4>1. CASE v = w
        BY <4>1, <2>2, <2>3, <2>4
      <4>2. CASE v # w
        BY <4>2, <2>3, <2>5, <3>2 DEF WalletInv, SendersAreFirst, BeforeSending, Reserved
      <4> QED
        BY <4>1, <4>2
    <3> QED
      BY <2>4, <3>1, <3>2, <3>3 DEF WalletInv, SendersAreFirst
  <2> QED
    BY <2>6, <2>7, <2>8, <2>9 DEF WalletInv
<1>7. ASSUME NEW w \in Worker, ReserveConflicts(w) \/ Crash(w) PROVE WalletInv'
  BY <1>7, RunStep, IdleRun DEF ReserveConflicts, Crash, BeforeSending, Reserved
<1>8. ASSUME NEW w \in Worker, SendTransfer(w) \/ SendFails(w) PROVE WalletInv'
  <2>1. run[w] \in Run /\ run[w].pc = "send" /\ run[w].t \in Transfer
    BY <1>8, <1>t DEF SendTransfer, SendFails, TypeOK, Run
  <2>2. PICK pc \in {"accepted", "refused"} : run' = [run EXCEPT ![w].pc = pc]
    BY <1>8 DEF SendTransfer, SendFails
  <2> DEFINE new == [run[w] EXCEPT !.pc = pc]
  <2>3. run' = [run EXCEPT ![w] = new] /\ new \in Run /\ new.t = run[w].t /\ new.pc = pc
    <3>1. run' = [run EXCEPT ![w] = new]
      BY <2>2
    <3>2. new \in Run /\ new.t = run[w].t /\ new.pc = pc
      <4>1. pc \in {"accepted", "refused", "verify", "arrived", "returned"}
        OBVIOUS
      <4> QED
        BY <4>1, <2>1, MovedRun, Zenon
    <3> QED
      BY <3>1, <3>2
  <2>4. /\ run' \in [Worker -> Run]
        /\ run'[w] = new
        /\ \A v \in Worker \ {w} : run'[v] = run[v]
    BY <2>3, <1>t DEF TypeOK
  <2>5. /\ transfer' \in [Transfer -> TransferState]
        /\ \A u \in Transfer \ {run[w].t} : transfer'[u] = transfer[u]
        /\ UNCHANGED << earned, row >>
    BY <1>8, <2>1, <1>t DEF SendTransfer, SendFails, TypeOK, TransferState
  <2>6. /\ transfer[run[w].t] = "none" /\ row[run[w].t].status # "none"
        /\ \A v \in Worker \ {w} : run[v].pc \in BeforeSending => run[v].t # run[w].t
    BY <2>1 DEF WalletInv, SendersAreFirst, BeforeSending, Reserved
  <2>7. \A v \in Worker : run[v].pc \in BeforeSending \cup Reserved \cup {"arrived"}
                                => run[v].t \in Transfer
    BY <1>t DEF TypeOK, Run, BeforeSending, Reserved
  <2>8. TypeOK' /\ PaidHasArrived'
    BY <2>1, <2>3, <2>4, <2>5, <2>6, NoTransferIsNoTransfer
       DEF WalletInv, TypeOK, PaidHasArrived
  <2>9. SettlersAreRight'
    BY <2>3, <2>4, <2>5, <2>6, <2>7 DEF WalletInv, SettlersAreRight
  <2>10. SendersAreFirst'
    BY <2>3, <2>4, <2>5, <2>6, <2>7 DEF WalletInv, SendersAreFirst, BeforeSending, Reserved
  <2> QED
    BY <2>8, <2>9, <2>10 DEF WalletInv
<1>9. ASSUME NEW w \in Worker, MarkProcessing(w) \/ MarkRefused(w) PROVE WalletInv'
  <2>1. /\ run[w].pc \in Reserved /\ run[w].t \in Transfer
        /\ row[run[w].t].status # "none"
    BY <1>9, <1>t
       DEF MarkProcessing, MarkRefused, WalletInv, TypeOK, SendersAreFirst, Reserved, Run
  <2>2. /\ row' \in [Transfer -> Row]
        /\ \A u \in Transfer : row'[u].status = "none" <=> row[u].status = "none"
        /\ \A u \in Transfer : row'[u].status = "paid" => transfer[u] = "arrived"
    BY <1>9, <1>t, <2>1
       DEF MarkProcessing, MarkRefused, WalletInv, TypeOK, Row, WithdrawalStatus, PaidHasArrived
  <2> QED
    BY <1>9, <2>2, RowStep, IdleRun DEF MarkProcessing, MarkRefused
<1>10. ASSUME NEW w \in Worker, NEW t \in Transfer, ReceiveWebhook(w, t) PROVE WalletInv'
  <2> DEFINE new == [Idle EXCEPT !.pc = "read", !.t = t]
  <2>1. new \in Run /\ new.pc = "read" /\ new.t = t
    BY DEF Idle, Run
  <2> QED
    BY <1>10, <2>1, RunStep, NoTransferIsNoTransfer DEF ReceiveWebhook, BeforeSending, Reserved
<1>11. ASSUME NEW w \in Worker, ReadWithdrawal(w) PROVE WalletInv'
  <2>1. CASE row[run[w].t].status \in Settleable
    <3> DEFINE new == [run[w] EXCEPT !.pc = "verify"]
    <3>1. /\ new \in Run /\ new.t = run[w].t /\ new.pc = "verify"
          /\ run' = [run EXCEPT ![w] = new]
      BY <1>11, <2>1, <1>t, MovedRun DEF ReadWithdrawal, TypeOK
    <3> QED
      BY <1>11, <1>t, <3>1, RunStep DEF ReadWithdrawal, BeforeSending, Reserved, TypeOK
  <2>2. CASE row[run[w].t].status \notin Settleable
    BY <1>11, <2>2, <1>t, DoneRun, RunStep DEF ReadWithdrawal, BeforeSending, Reserved
  <2> QED
    BY <2>1, <2>2
<1>12. ASSUME NEW w \in Worker, VerifyTransfer(w) PROVE WalletInv'
  <2>1. PICK pc \in {"arrived", "returned"} :
          /\ run' = [run EXCEPT ![w].pc = pc]
          /\ pc = "arrived" => transfer[run[w].t] = "arrived"
    BY <1>12 DEF VerifyTransfer, IsPaid
  <2> DEFINE new == [run[w] EXCEPT !.pc = pc]
  <2>2. run[w] \in Run /\ run[w].pc = "verify" /\ run[w].t # NoTransfer
    BY <1>12, <1>t DEF VerifyTransfer, TypeOK
  <2>3. new \in Run /\ new.t = run[w].t /\ new.pc = pc
    <3>1. pc \in {"accepted", "refused", "verify", "arrived", "returned"}
      OBVIOUS
    <3> QED
      BY <3>1, <2>2, MovedRun, Zenon
  <2>4. run' = [run EXCEPT ![w] = new] /\ UNCHANGED << earned, row, transfer >>
    BY <1>12, <2>1 DEF VerifyTransfer
  <2> HIDE DEF new
  <2>5. /\ new.t = NoTransfer <=> new.pc \in {"idle", "sweep"}
        /\ new.pc = "arrived" => transfer[new.t] = "arrived"
        /\ new.pc \notin BeforeSending \cup Reserved
    BY <2>1, <2>2, <2>3 DEF BeforeSending, Reserved
  <2> QED
    BY <2>3, <2>4, <2>5, RunStep
<1>13. ASSUME NEW w \in Worker, VerifyPending(w) PROVE WalletInv'
  BY <1>13, <1>t, DoneRun, RunStep DEF VerifyPending, BeforeSending, Reserved
<1>14. ASSUME NEW w \in Worker, MarkSettled(w) PROVE WalletInv'
  <2>1. run[w].t \in Transfer
    BY <1>14, <1>t DEF MarkSettled, TypeOK, Run
  <2>2. run[w].pc = "arrived" => transfer[run[w].t] = "arrived"
    BY DEF WalletInv, SettlersAreRight
  <2>3. /\ row' \in [Transfer -> Row]
        /\ \A u \in Transfer : row'[u].status = "none" <=> row[u].status = "none"
        /\ \A u \in Transfer : row'[u].status = "paid" => transfer[u] = "arrived"
    BY <1>14, <1>t, <2>1, <2>2
       DEF MarkSettled, WalletInv, TypeOK, Row, WithdrawalStatus, Settleable, PaidHasArrived
  <2> QED
    BY <1>14, <1>t, <2>3, DoneRun, RowStep DEF MarkSettled
<1>15. ASSUME NEW w \in Worker, StartSweep(w) PROVE WalletInv'
  <2> DEFINE new == [Idle EXCEPT !.pc = "sweep", !.sweeps = TRUE,
                       !.todo = { t \in Rows : row[t].status \in Listed /\ row[t].age # "fresh" },
                       !.old  = { t \in Rows : row[t].age = "day" }]
  <2>1. new \in Run /\ new.pc = "sweep" /\ new.t = NoTransfer
    BY DEF Idle, Run, Rows
  <2> QED
    BY <1>15, <2>1, RunStep DEF StartSweep, BeforeSending, Reserved
<1>16. ASSUME NEW w \in Worker, NEW t \in Transfer, SweepNext(w, t) PROVE WalletInv'
  <2> DEFINE new == [run[w] EXCEPT !.pc = "read", !.t = t, !.todo = run[w].todo \ {t}]
  <2>1. run[w] \in Run
    BY <1>t DEF TypeOK
  <2>2. new \in Run /\ new.pc = "read" /\ new.t = t
    BY <2>1 DEF Run
  <2>3. run' = [run EXCEPT ![w] = new] /\ UNCHANGED << earned, row, transfer >>
    BY <1>16, <1>t DEF SweepNext, TypeOK
  <2> QED
    BY <2>2, <2>3, RunStep, NoTransferIsNoTransfer DEF BeforeSending, Reserved
<1>17. ASSUME NEW w \in Worker, AbandonStalePending(w) PROVE WalletInv'
  <2>1. /\ row' \in [Transfer -> Row]
        /\ \A u \in Transfer : row'[u].status = "none" <=> row[u].status = "none"
        /\ \A u \in Transfer : row'[u].status = "paid" => transfer[u] = "arrived"
    BY <1>17, <1>t
       DEF AbandonStalePending, WalletInv, TypeOK, Row, WithdrawalStatus, PaidHasArrived
  <2> QED
    BY <1>17, <2>1, RowStep, IdleRun DEF AbandonStalePending
<1> QED
  BY <1>1, <1>2, <1>3, <1>4, <1>5, <1>6, <1>7, <1>8, <1>9, <1>10, <1>11, <1>12, <1>13,
     <1>14, <1>15, <1>16, <1>17
  DEF Next, Request, Settle, Sweep

\* The invariant holds of every behaviour.
LEMMA WalletInvHolds == Spec => []WalletInv
  BY InitWallet, NextWallet, PTL DEF Spec

\* Every reachable state of the wallet is well typed.
THEOREM WalletTypeCorrect == Spec => []TypeOK
<1>1. WalletInv => TypeOK
  BY DEF WalletInv
<1> QED
  BY <1>1, WalletInvHolds, PTL

\* Whatever webhooks, sweeps and late requests do, a withdrawal shown as paid has
\* arrived.
THEOREM PaidMeansArrived == Spec => []PaidHasArrived
<1>1. WalletInv => PaidHasArrived
  BY DEF WalletInv
<1> QED
  BY <1>1, WalletInvHolds, PTL

----------------------------------------------------------------------------
\* What the gateway may still pay is covered by the earnings.  The reservation reads
\* the balance before it commits, so the argument is about the rows it has seen: while
\* no row is added, the withdrawals that may still be paid only become fewer.

Requesting == BeforeSending \cup Reserved

\* Withdrawals that may still be paid, or are
Possible == { t \in Rows : row[t].status # "failed" /\ transfer[t] # "returned" }

Amounts == [t \in Transfer |-> row[t].amount]

\* One request works on a row, which nobody gives up meanwhile: it is fresh.
RequestsAreSound ==
  /\ \A w \in Worker : \A v \in Worker :
       run[w].pc \in Requesting /\ run[v].pc \in Requesting /\ run[v].t = run[w].t => v = w
  /\ \A w \in Worker : run[w].pc = "reserve" => row[run[w].t].status = "none"
  /\ \A w \in Worker : run[w].pc = "send" => row[run[w].t].status = "pending"
  /\ \A w \in Worker : run[w].pc \in Reserved => row[run[w].t].age = "fresh"
  /\ \A w \in Worker :
       run[w].pc = "accepted" /\ row[run[w].t].status = "failed" =>
         transfer[run[w].t] = "returned"

\* What the other workers have read stays true.
ReadingsLast ==
  /\ \A w \in Worker : run[w].pc = "returned" => transfer[run[w].t] = "returned"
  /\ \A w \in Worker : \A t \in run[w].old : row[t].status # "none" /\ row[t].age = "day"
  /\ \A w \in Worker : \A t \in run[w].seen : row[t].status # "none"

\* The earnings cover what may be paid, and a reservation that may commit as well.
EarningsCover ==
  /\ IsFiniteSet(Rows)
  /\ SumOver(Possible) <= earned
  /\ \A w \in Worker :
       run[w].pc = "reserve" /\ run[w].seen = Rows =>
         SumOver(Possible) + run[w].amount <= earned

BudgetInv == RequestsAreSound /\ ReadingsLast /\ EarningsCover

LEMMA SumOverAmounts ==
  /\ \A S : SumOver(S) = SumFunctionOnSet(Amounts, S)
  /\ (\A S : SumOver(S) = SumFunctionOnSet(Amounts, S))'
BY DEF SumOver, Amounts

LEMMA AmountIsNat == \A a \in Amount \cup {0} : a \in Nat
  BY AmountsArePositive

\* The same, of the sets of rows that the invariant sums.
LEMMA SumsOfRows ==
  ASSUME TypeOK, IsFiniteSet(Rows)
  PROVE  /\ \A S \in SUBSET Rows : /\ IsFiniteSet(S) /\ S \in SUBSET Transfer
                                   /\ SumOver(S) = SumFunctionOnSet(Amounts, S)
         /\ \A S \in SUBSET Rows : \A x \in S : Amounts[x] \in Nat
         /\ \A t \in Transfer : Amounts[t] = row[t].amount
<1>1. Rows \subseteq Transfer
  BY DEF Rows
<1>2. \A t \in Transfer : row[t].amount \in Nat
  <2> SUFFICES ASSUME NEW t \in Transfer PROVE row[t].amount \in Nat
    OBVIOUS
  <2>1. row[t] \in Row
    BY DEF TypeOK
  <2>2. row[t].amount \in Amount \cup {0}
    BY <2>1 DEF Row
  <2> QED
    BY <2>2, AmountIsNat
<1>3. \A S \in SUBSET Rows : IsFiniteSet(S) /\ S \in SUBSET Transfer
  BY <1>1, FS_Subset
<1> QED
  BY <1>1, <1>2, <1>3, SumOverAmounts DEF Amounts

LEMMA InitBudget == Init => BudgetInv
<1> SUFFICES ASSUME Init PROVE BudgetInv
  OBVIOUS
<1>1. RequestsAreSound /\ ReadingsLast
  BY DEF Init, RequestsAreSound, ReadingsLast, Requesting, BeforeSending, Reserved, Idle
<1>2. Rows = {} /\ Possible = {}
  BY DEF Init, Rows, Possible, NoRow
<1>3. SumOver({}) = 0
  BY SumOverAmounts, TotalEmpty
<1>4. earned = 0 /\ \A w \in Worker : run[w].pc = "idle"
  BY DEF Init, Idle
<1>5. EarningsCover
  BY <1>2, <1>3, <1>4, FS_EmptySet DEF EarningsCover
<1> QED
  BY <1>1, <1>5 DEF BudgetInv

\* While no row is added, what may be paid only becomes less.
LEMMA NothingAdded ==
  ASSUME WalletInv, WalletInv', BudgetInv,
         \A t \in Transfer : row'[t].status = "none" <=> row[t].status = "none",
         \A t \in Transfer : row'[t].amount = row[t].amount,
         \A t \in Transfer : transfer[t] = "returned" => transfer'[t] = "returned",
         \A t \in Transfer :
           row[t].status = "failed" => row'[t].status = "failed" \/ transfer[t] = "returned",
         earned <= earned',
         \A w \in Worker :
           run'[w].pc = "reserve" /\ run'[w].seen = Rows =>
             \/ run[w].pc = "reserve" /\ run[w].seen = Rows /\ run[w].amount = run'[w].amount
             \/ SumOver(Possible) + run'[w].amount <= earned
  PROVE  EarningsCover'
<1>t. TypeOK /\ TypeOK' /\ IsFiniteSet(Rows)
  BY DEF WalletInv, BudgetInv, EarningsCover
<1>1. Rows' = Rows
  BY DEF Rows
<1>2. Possible' \in SUBSET Possible /\ Possible \in SUBSET Rows
  BY <1>1 DEF Possible, Rows
<1>3. Amounts' = Amounts
  BY DEF Amounts
<1> PICK before, after, total, total2 :
      /\ before = Possible /\ after = Possible'
      /\ total = SumOver(Possible) /\ total2 = SumOver(Possible)'
  OBVIOUS
<1>4. total = SumFunctionOnSet(Amounts, before)
  BY <1>2, <1>t, SumsOfRows
<1>5. total2 = SumFunctionOnSet(Amounts, after)
  <2>1. IsFiniteSet(after) /\ after \in SUBSET Transfer
    BY <1>2, <1>t, SumsOfRows
  <2>2. (\A S : SumOver(S) = SumFunctionOnSet(Amounts, S))'
    BY SumOverAmounts
  <2>3. total2 = SumFunctionOnSet(Amounts', after)
    BY <2>1, <2>2
  <2> QED
    BY <2>3, <1>3
<1>6. total2 <= total /\ total \in Int /\ total2 \in Int
  <2>1. IsFiniteSet(before) /\ IsFiniteSet(after) /\ \A x \in before : Amounts[x] \in Nat
    BY <1>2, <1>t, SumsOfRows
  <2>2. SumFunctionOnSet(Amounts, after) <= SumFunctionOnSet(Amounts, before)
    BY <1>2, <2>1, TotalSubset
  <2> QED
    BY <1>2, <1>4, <1>5, <2>1, <2>2, TotalIsNat
<1>7. earned \in Nat /\ earned' \in Nat /\ total <= earned
  BY <1>t DEF TypeOK, BudgetInv, EarningsCover
<1>8. total2 <= earned'
  BY <1>6, <1>7
<1>9. ASSUME NEW w \in Worker, run'[w].pc = "reserve", run'[w].seen = Rows'
      PROVE  total2 + run'[w].amount <= earned'
  <2>1. total + run'[w].amount <= earned
    BY <1>1, <1>9 DEF BudgetInv, EarningsCover
  <2>2. run'[w].amount \in Nat
    <3>1. run'[w] \in Run
      BY <1>t DEF TypeOK
    <3>2. run'[w].amount \in Amount \cup {0}
      BY <3>1 DEF Run
    <3> QED
      BY <3>2, AmountIsNat
  <2> QED
    BY <1>6, <1>7, <2>1, <2>2
<1> QED
  BY <1>1, <1>t, <1>8, <1>9 DEF EarningsCover

\* A step of worker w on the rows that no other request minds
RowsGoOn(w) ==
  \A t \in Transfer :
    /\ row'[t].status = "none" <=> row[t].status = "none"
    /\ row'[t].amount = row[t].amount /\ row'[t].age = row[t].age
    /\ row[t].status = "failed" => row'[t].status = "failed" \/ transfer[t] = "returned"
    /\ row'[t].status # row[t].status =>
         \A v \in Worker \ {w} :
           run[v].t = t =>
             /\ run[v].pc # "send"
             /\ run[v].pc = "accepted" /\ row'[t].status = "failed" => transfer[t] = "returned"

\* What a worker that is no request may have read
ReadsRight(new) ==
  /\ new.pc = "returned" => transfer[new.t] = "returned"
  /\ \A t \in new.old : row[t].status # "none" /\ row[t].age = "day"
  /\ \A t \in new.seen : row[t].status # "none"

\* A worker that is no request afterwards disturbs nobody's.
LEMMA QuietStep ==
  ASSUME WalletInv, WalletInv', BudgetInv, NEW w \in Worker, NEW new \in Run,
         run' = [run EXCEPT ![w] = new], UNCHANGED << earned, transfer >>,
         new.pc \notin Requesting, ReadsRight(new), RowsGoOn(w)
  PROVE  BudgetInv'
<1>t. TypeOK
  BY DEF WalletInv
<1>1. /\ run'[w] = new
      /\ \A v \in Worker \ {w} : run'[v] = run[v]
  BY <1>t DEF TypeOK
<1>2. \A v \in Worker : run'[v].pc \in Requesting => v # w /\ run'[v] = run[v]
  BY <1>1
<1>3. \A v \in Worker : run[v].pc \in Requesting \cup {"returned"} => run[v].t \in Transfer
  BY <1>t DEF TypeOK, Run, Requesting, BeforeSending, Reserved
<1>4. \A v \in Worker : run[v] \in Run
  BY <1>t DEF TypeOK
<1>5. RequestsAreSound'
  <2>0. RequestsAreSound
    BY DEF BudgetInv
  <2>1. (\A v \in Worker : \A u \in Worker :
          run[v].pc \in Requesting /\ run[u].pc \in Requesting /\ run[u].t = run[v].t => u = v)'
    BY <2>0, <1>2 DEF RequestsAreSound
  <2> SUFFICES ASSUME NEW v \in Worker, run'[v].pc \in Requesting
               PROVE  /\ run'[v].pc = "reserve" => row'[run'[v].t].status = "none"
                      /\ run'[v].pc = "send" => row'[run'[v].t].status = "pending"
                      /\ run'[v].pc \in Reserved => row'[run'[v].t].age = "fresh"
                      /\ run'[v].pc = "accepted" /\ row'[run'[v].t].status = "failed" =>
                           transfer'[run'[v].t] = "returned"
    BY <2>1 DEF RequestsAreSound, Requesting, BeforeSending, Reserved
  <2>2. v \in Worker \ {w} /\ run'[v] = run[v] /\ run[v].t \in Transfer
    BY <1>2, <1>3
  <2>3. /\ run[v].pc = "reserve" => row[run[v].t].status = "none"
        /\ run[v].pc = "send" => row[run[v].t].status = "pending"
        /\ run[v].pc \in Reserved => row[run[v].t].age = "fresh"
        /\ run[v].pc = "accepted" /\ row[run[v].t].status = "failed" =>
             transfer[run[v].t] = "returned"
    BY <2>0 DEF RequestsAreSound
  <2>4. /\ row'[run[v].t].status = "none" <=> row[run[v].t].status = "none"
        /\ row'[run[v].t].age = row[run[v].t].age
        /\ row'[run[v].t].status # row[run[v].t].status =>
             /\ run[v].pc # "send"
             /\ run[v].pc = "accepted" /\ row'[run[v].t].status = "failed" =>
                  transfer[run[v].t] = "returned"
    BY <2>2 DEF RowsGoOn
  <2> QED
    BY <2>2, <2>3, <2>4
<1>6. ReadingsLast'
  <2>0. ReadingsLast
    BY DEF BudgetInv
  <2> SUFFICES ASSUME NEW v \in Worker
               PROVE  /\ run'[v].pc = "returned" => transfer'[run'[v].t] = "returned"
                      /\ \A t \in run'[v].old : row'[t].status # "none" /\ row'[t].age = "day"
                      /\ \A t \in run'[v].seen : row'[t].status # "none"
    BY DEF ReadingsLast
  <2>1. ReadsRight(run'[v]) /\ run'[v] \in Run
    BY <1>1, <1>4, <2>0 DEF ReadsRight, ReadingsLast
  <2>2. run'[v].old \subseteq Transfer /\ run'[v].seen \subseteq Transfer
    BY <2>1 DEF Run
  <2> QED
    BY <2>1, <2>2 DEF ReadsRight, RowsGoOn
<1>7. EarningsCover'
  <2>1. earned <= earned'
    BY <1>t DEF TypeOK
  <2>2. \A v \in Worker : run'[v].pc = "reserve" => run'[v] = run[v]
    BY <1>2 DEF Requesting, BeforeSending
  <2>3. /\ \A t \in Transfer : row'[t].status = "none" <=> row[t].status = "none"
        /\ \A t \in Transfer : row'[t].amount = row[t].amount
        /\ \A t \in Transfer :
             row[t].status = "failed" => row'[t].status = "failed" \/ transfer[t] = "returned"
    BY DEF RowsGoOn
  <2> QED
    BY <2>1, <2>2, <2>3, NothingAdded
<1> QED
  BY <1>5, <1>6, <1>7 DEF BudgetInv

LEMMA UnchangedRows ==
  ASSUME NEW w \in Worker, UNCHANGED row PROVE RowsGoOn(w)
  BY DEF RowsGoOn

\* What Done leaves behind has been read before.
LEMMA DoneReads ==
  ASSUME TypeOK, ReadingsLast, NEW w \in Worker, Done(w)
  PROVE  \E new \in Run : /\ run' = [run EXCEPT ![w] = new]
                          /\ new.pc \notin Requesting /\ ReadsRight(new)
<1> DEFINE new == IF run[w].sweeps THEN [run[w] EXCEPT !.pc = "sweep", !.t = NoTransfer]
                                   ELSE Idle
<1>1. run' = [run EXCEPT ![w] = new]
  BY DEF Done, TypeOK
<1>2. run[w] \in Run
  BY DEF TypeOK
<1>3. new \in Run /\ new.pc \in {"idle", "sweep"}
  BY <1>2, IdleRun DEF Run
<1>4. new.old \subseteq run[w].old /\ new.seen \subseteq run[w].seen
  BY <1>2 DEF Idle, Run
<1>5. new.pc \notin Requesting /\ ReadsRight(new)
  <2> HIDE DEF new
  <2> QED
    BY <1>3, <1>4 DEF ReadsRight, ReadingsLast, Requesting, BeforeSending, Reserved
<1> QED
  BY <1>1, <1>3, <1>5

\* So does a run that goes on with the same withdrawal.
LEMMA MovedReads ==
  ASSUME TypeOK, ReadingsLast, NEW w \in Worker,
         NEW pc \in {"verify", "arrived", "returned"},
         pc = "returned" => transfer[run[w].t] = "returned"
  PROVE  /\ [run[w] EXCEPT !.pc = pc] \in Run
         /\ [run[w] EXCEPT !.pc = pc].pc \notin Requesting
         /\ ReadsRight([run[w] EXCEPT !.pc = pc])
<1> DEFINE new == [run[w] EXCEPT !.pc = pc]
<1>1. run[w] \in Run
  BY DEF TypeOK
<1>2. new \in Run /\ new.pc = pc /\ new.t = run[w].t /\ new.old = run[w].old
      /\ new.seen = run[w].seen
  BY <1>1 DEF Run
<1> HIDE DEF new
<1>3. new.pc \notin Requesting /\ ReadsRight(new)
  BY <1>2 DEF ReadsRight, ReadingsLast, Requesting, BeforeSending, Reserved
<1> QED
  BY <1>2, <1>3 DEF new

\* A reservation that has read the balance is covered, with what may be paid already.
LEMMA ReadBalanceFits ==
  ASSUME WalletInv, BudgetInv, NEW amount \in Amount, Spent + amount <= earned
  PROVE  SumOver(Possible) + amount <= earned
<1>t. TypeOK /\ IsFiniteSet(Rows)
  BY DEF WalletInv, BudgetInv, EarningsCover
<1> PICK all, some : all = { t \in Rows : row[t].status # "failed" } /\ some = Possible
  OBVIOUS
<1>1. all \in SUBSET Rows /\ some \in SUBSET all /\ some \in SUBSET Rows
  BY DEF Possible
<1>2. /\ IsFiniteSet(all) /\ SumOver(all) = SumFunctionOnSet(Amounts, all)
      /\ IsFiniteSet(some) /\ SumOver(some) = SumFunctionOnSet(Amounts, some)
      /\ \A x \in all : Amounts[x] \in Nat
  BY <1>1, <1>t, SumsOfRows
<1>3. SumFunctionOnSet(Amounts, some) <= SumFunctionOnSet(Amounts, all)
  BY <1>1, <1>2, TotalSubset
<1>4. SumFunctionOnSet(Amounts, some) \in Int /\ SumFunctionOnSet(Amounts, all) \in Int
  BY <1>1, <1>2, TotalType
<1>5. Spent = SumFunctionOnSet(Amounts, all)
  BY <1>2 DEF Spent
<1>6. earned \in Nat /\ amount \in Nat
  BY <1>t, AmountIsNat DEF TypeOK
<1> PICK x, y : x = SumFunctionOnSet(Amounts, some) /\ y = SumFunctionOnSet(Amounts, all)
  OBVIOUS
<1>7. x <= y /\ x \in Int /\ y \in Int /\ y + amount <= earned
  BY <1>3, <1>4, <1>5
<1>8. x + amount <= earned
  BY <1>6, <1>7
<1> QED
  BY <1>2, <1>8

\* A reservation that commits has seen every row, so no other one may commit.
LEMMA ReserveCovered ==
  ASSUME WalletInv, WalletInv', BudgetInv, NEW w \in Worker, Reserve(w)
  PROVE  EarningsCover'
<1>t. TypeOK /\ TypeOK' /\ IsFiniteSet(Rows)
  BY DEF WalletInv, BudgetInv, EarningsCover
<1> PICK t, amount : t = run[w].t /\ amount = run[w].amount
  OBVIOUS
<1>1. /\ run[w] \in Run /\ run[w].pc = "reserve" /\ t \in Transfer /\ amount \in Nat
  <2>1. run[w] \in Run /\ run[w].pc = "reserve"
    BY <1>t DEF Reserve, TypeOK
  <2> QED
    BY <2>1, AmountIsNat, <1>t DEF TypeOK, Run
<1>2. /\ row[t].status = "none" /\ transfer[t] = "none"
  BY <1>1 DEF BudgetInv, RequestsAreSound, WalletInv, SendersAreFirst, BeforeSending
<1>3. /\ row'[t].status = "pending" /\ row'[t].amount = amount
      /\ \A u \in Transfer \ {t} : row'[u] = row[u]
      /\ UNCHANGED << earned, transfer >>
  BY <1>1, <1>t DEF Reserve, TypeOK
<1>4. Rows' = Rows \cup {t} /\ t \notin Rows
  BY <1>1, <1>2, <1>3 DEF Rows
<1>5. Possible' = Possible \cup {t} /\ t \notin Possible
  BY <1>1, <1>2, <1>3, <1>4 DEF Possible, Rows
<1>6. IsFiniteSet(Rows')
  BY <1>4, <1>t, FS_AddElement
<1> PICK before, after, old, new :
      before = Possible /\ after = Possible' /\ old = Amounts /\ new = Amounts'
  OBVIOUS
<1>7. before \in SUBSET Rows /\ after = before \cup {t} /\ t \notin before
  BY <1>5 DEF Possible
<1>8. /\ IsFiniteSet(before) /\ SumOver(Possible) = SumFunctionOnSet(old, before)
      /\ \A x \in before : old[x] \in Nat
  BY <1>7, <1>t, SumsOfRows
<1>9. new[t] = amount /\ \A x \in before : new[x] = old[x]
  BY <1>1, <1>3, <1>4, <1>7 DEF Amounts, Rows
<1>10. IsFiniteSet(after) /\ after \in SUBSET Transfer
  <2>1. IsFiniteSet(after)
    BY <1>7, <1>8, FS_AddElement
  <2> QED
    BY <2>1, <1>1, <1>7 DEF Rows
<1>11. SumOver(Possible)' = SumFunctionOnSet(new, after)
  <2>1. (\A S : SumOver(S) = SumFunctionOnSet(Amounts, S))'
    BY SumOverAmounts
  <2> QED
    BY <1>10, <2>1
<1>12. SumFunctionOnSet(new, after) = amount + SumFunctionOnSet(old, before)
  <2>1. \A x \in after : new[x] \in Int
    BY <1>1, <1>7, <1>8, <1>9
  <2>2. SumFunctionOnSet(new, after) = new[t] + SumFunctionOnSet(new, after \ {t})
    BY <1>7, <1>10, <2>1, TotalRemove
  <2>3. after \ {t} = before
    BY <1>7
  <2>4. SumFunctionOnSet(new, before) = SumFunctionOnSet(old, before)
    BY <1>8, <1>9, TotalAgree
  <2> QED
    BY <2>2, <2>3, <2>4, <1>9
<1>13. SumOver(Possible) + amount <= earned
  <2>1. run[w].seen = Rows
    BY DEF Reserve, MayCommit
  <2> QED
    BY <1>1, <2>1 DEF BudgetInv, EarningsCover
<1>14. SumOver(Possible)' <= earned'
  <2>1. SumFunctionOnSet(old, before) \in Int
    BY <1>8, TotalType
  <2> QED
    BY <2>1, <1>1, <1>3, <1>8, <1>11, <1>12, <1>13
<1>15. \A v \in Worker : run'[v].pc = "reserve" => run'[v].seen # Rows'
  <2> SUFFICES ASSUME NEW v \in Worker, run'[v].pc = "reserve" PROVE run'[v].seen # Rows'
    OBVIOUS
  <2>1. v # w /\ run'[v] = run[v]
    BY <1>t, <1>1 DEF Reserve, TypeOK
  <2>2. t \notin run[v].seen
    BY <1>2 DEF BudgetInv, ReadingsLast
  <2> QED
    BY <2>1, <2>2, <1>4
<1> QED
  BY <1>6, <1>14, <1>15 DEF EarningsCover

\* Every step keeps the earnings in cover: one step of the proof per action.
LEMMA NextBudget == WalletInv /\ WalletInv' /\ BudgetInv /\ [Next]_vars => BudgetInv'
<1> SUFFICES ASSUME WalletInv, WalletInv', BudgetInv, [Next]_vars PROVE BudgetInv'
  OBVIOUS
<1>t. TypeOK /\ TypeOK' /\ ReadingsLast /\ RequestsAreSound
  BY DEF WalletInv, BudgetInv
<1>r. \A v \in Worker : run[v] \in Run
  BY <1>t DEF TypeOK
<1>s. \A v \in Worker : run[v].pc \in Requesting \cup {"returned"} => run[v].t \in Transfer
  BY <1>t DEF TypeOK, Run, Requesting, BeforeSending, Reserved
<1>i. Idle \in Run /\ Idle.pc \notin Requesting /\ ReadsRight(Idle)
  BY IdleRun DEF ReadsRight, Idle, Requesting, BeforeSending, Reserved
<1>1. CASE UNCHANGED vars
  <2>1. UNCHANGED << earned, row, transfer, run >> /\ earned <= earned'
    BY <1>1, <1>t DEF vars, TypeOK
  <2>2. EarningsCover'
    BY <2>1, NothingAdded
  <2> QED
    BY <2>1, <2>2, <1>t DEF BudgetInv, RequestsAreSound, ReadingsLast
<1>2. ASSUME NEW amount \in Amount, Earn(amount) PROVE BudgetInv'
  <2>1. earned <= earned' /\ UNCHANGED << row, transfer, run >>
    BY <1>2, <1>t, AmountIsNat DEF Earn, TypeOK
  <2>2. EarningsCover'
    BY <2>1, NothingAdded
  <2> QED
    BY <1>t, <2>1, <2>2 DEF BudgetInv, RequestsAreSound, ReadingsLast
<1>3. ASSUME NEW t \in Transfer, GrowOld(t) PROVE BudgetInv'
  <2>1. /\ \A u \in Transfer : row'[u].status = row[u].status /\ row'[u].amount = row[u].amount
        /\ \A u \in Transfer : row[u].age = "day" => row'[u].age = "day"
        /\ \A u \in Transfer \ {t} : row'[u] = row[u]
        /\ \A v \in Worker : run[v].t = t => run[v].pc \notin Reserved
        /\ UNCHANGED << earned, transfer, run >>
    BY <1>3, <1>t DEF GrowOld, TypeOK, Row, Age, Reserved
  <2>2. earned <= earned'
    BY <2>1, <1>t DEF TypeOK
  <2>3. EarningsCover'
    BY <2>1, <2>2, NothingAdded
  <2>4. RequestsAreSound'
    BY <2>1, <1>s, <1>t DEF RequestsAreSound, Requesting, BeforeSending, Reserved
  <2>5. ReadingsLast'
    <3>1. \A v \in Worker : run[v].old \subseteq Transfer /\ run[v].seen \subseteq Transfer
      BY <1>r DEF Run
    <3> QED
      BY <2>1, <3>1, <1>t DEF ReadingsLast
  <2> QED
    BY <2>3, <2>4, <2>5 DEF BudgetInv
<1>4. ASSUME NEW t \in Transfer, NEW verdict \in {"arrived", "returned"}, Decide(t, verdict)
      PROVE  BudgetInv'
  <2>1. /\ \A u \in Transfer : transfer[u] = "returned" => transfer'[u] = "returned"
        /\ UNCHANGED << earned, row, run >>
    BY <1>4, <1>t DEF Decide, TypeOK
  <2>2. earned <= earned'
    BY <2>1, <1>t DEF TypeOK
  <2>3. EarningsCover'
    BY <2>1, <2>2, NothingAdded
  <2> QED
    BY <2>1, <2>3, <1>s, <1>t
       DEF BudgetInv, RequestsAreSound, ReadingsLast, Requesting, BeforeSending, Reserved
<1>5. ASSUME NEW w \in Worker, NEW t \in Transfer, NEW amount \in Amount,
             ReadBalance(w, t, amount)
      PROVE  BudgetInv'
  <2> DEFINE new == [Idle EXCEPT !.pc = "reserve", !.t = t, !.amount = amount, !.seen = Rows]
  <2>1. /\ new.pc = "reserve" /\ new.t = t /\ new.amount = amount /\ new.seen = Rows
        /\ new.old = {}
    BY DEF Idle
  <2>2. /\ row[t].status = "none" /\ Spent + amount <= earned
        /\ \A v \in Worker : run[v].t # t
        /\ UNCHANGED << earned, row, transfer >>
        /\ run' = [run EXCEPT ![w] = new]
    BY <1>5 DEF ReadBalance, NoRow
  <2>3. run'[w] = new /\ \A v \in Worker \ {w} : run'[v] = run[v]
    BY <2>2, <1>t DEF TypeOK
  <2> HIDE DEF new
  <2>4. RequestsAreSound'
    <3>1. (\A u \in Worker : \A v \in Worker :
            run[u].pc \in Requesting /\ run[v].pc \in Requesting /\ run[v].t = run[u].t => v = u)'
      BY <2>1, <2>2, <2>3, <1>t DEF RequestsAreSound
    <3>2. \A v \in Worker : run'[v].pc \in {"send", "accepted", "refused"} => run'[v] = run[v]
      BY <2>1, <2>3
    <3>3. \A v \in Worker : run'[v].pc = "reserve" => row[run'[v].t].status = "none"
      BY <2>1, <2>2, <2>3, <1>t DEF RequestsAreSound
    <3> QED
      BY <2>2, <3>1, <3>2, <3>3, <1>t DEF RequestsAreSound, Reserved
  <2>5. ReadingsLast'
    BY <2>1, <2>2, <2>3, <1>t DEF ReadingsLast, Rows
  <2>6. EarningsCover'
    <3>1. SumOver(Possible) + amount <= earned
      BY <2>2, ReadBalanceFits
    <3>2. earned <= earned'
      BY <2>2, <1>t DEF TypeOK
    <3>3. \A v \in Worker :
            run'[v].pc = "reserve" /\ run'[v].seen = Rows =>
              \/ run[v].pc = "reserve" /\ run[v].seen = Rows /\ run[v].amount = run'[v].amount
              \/ SumOver(Possible) + run'[v].amount <= earned
      BY <2>1, <2>3, <3>1
    <3> QED
      BY <2>2, <3>2, <3>3, NothingAdded
  <2> QED
    BY <2>4, <2>5, <2>6 DEF BudgetInv
<1>6. ASSUME NEW w \in Worker, Reserve(w) PROVE BudgetInv'
  <2> DEFINE new == [run[w] EXCEPT !.pc = "send", !.seen = {}]
  <2>1. run[w].pc = "reserve" /\ run[w].t \in Transfer
    BY <1>6, <1>r, <1>s DEF Reserve, Requesting, BeforeSending
  <2>2. new.pc = "send" /\ new.t = run[w].t /\ new.seen = {} /\ new.old = run[w].old
    BY <1>r DEF Run
  <2>3. run' = [run EXCEPT ![w] = new]
    BY <1>6, <1>t DEF Reserve, TypeOK
  <2>4. run'[w] = new /\ \A v \in Worker \ {w} : run'[v] = run[v]
    BY <2>3, <1>t DEF TypeOK
  <2> HIDE DEF new
  <2>5. /\ row[run[w].t].status = "none"
        /\ row'[run[w].t].status = "pending" /\ row'[run[w].t].age = "fresh"
        /\ \A u \in Transfer \ {run[w].t} : row'[u] = row[u]
        /\ UNCHANGED << earned, transfer >>
    BY <1>6, <2>1, <1>t DEF Reserve, TypeOK, RequestsAreSound
  <2>6. \A v \in Worker \ {w} : run[v].pc \in Requesting => run[v].t # run[w].t
    BY <2>1, <1>t DEF RequestsAreSound, Requesting, BeforeSending
  <2>7. RequestsAreSound'
    <3>1. \A v \in Worker : /\ run'[v].t = run[v].t
                            /\ run'[v].pc \in Requesting <=> run[v].pc \in Requesting
      BY <2>1, <2>2, <2>4 DEF Requesting, BeforeSending, Reserved
    <3>2. (\A u \in Worker : \A v \in Worker :
            run[u].pc \in Requesting /\ run[v].pc \in Requesting /\ run[v].t = run[u].t => v = u)'
      BY <3>1, <1>t DEF RequestsAreSound
    <3>3. \A v \in Worker \ {w} :
            run[v].pc \in Requesting => run'[v] = run[v] /\ row'[run[v].t] = row[run[v].t]
      BY <2>4, <2>5, <2>6, <1>s
    <3> QED
      BY <2>1, <2>2, <2>4, <2>5, <3>2, <3>3, <1>t
         DEF RequestsAreSound, Requesting, BeforeSending, Reserved
  <2>8. ReadingsLast'
    <3>1. \A v \in Worker : /\ run'[v].old = run[v].old /\ run'[v].seen \subseteq run[v].seen
                            /\ run'[v].pc = "returned" => run'[v] = run[v]
      BY <2>2, <2>4
    <3>2. \A v \in Worker : \A t \in run[v].old \cup run[v].seen : row'[t] = row[t]
      <4> SUFFICES ASSUME NEW v \in Worker, NEW t \in run[v].old \cup run[v].seen
                   PROVE  row'[t] = row[t]
        OBVIOUS
      <4>1. t \in Transfer
        BY <1>r DEF Run
      <4>2. row[t].status # "none"
        BY <1>t DEF ReadingsLast
      <4> QED
        BY <4>1, <4>2, <2>5
    <3> QED
      BY <2>5, <3>1, <3>2, <1>t DEF ReadingsLast
  <2> QED
    BY <1>6, <2>7, <2>8, ReserveCovered DEF BudgetInv
<1>7. ASSUME NEW w \in Worker, ReserveConflicts(w) \/ Crash(w) PROVE BudgetInv'
  <2>1. run' = [run EXCEPT ![w] = Idle] /\ UNCHANGED << earned, row, transfer >>
    BY <1>7 DEF ReserveConflicts, Crash
  <2> QED
    BY <2>1, <1>i, UnchangedRows, QuietStep
<1>8. ASSUME NEW w \in Worker, SendTransfer(w) \/ SendFails(w) PROVE BudgetInv'
  <2>1. run[w].pc = "send" /\ run[w].t \in Transfer
    BY <1>8, <1>s DEF SendTransfer, SendFails, Requesting, BeforeSending
  <2>2. PICK pc \in {"accepted", "refused"} : run' = [run EXCEPT ![w].pc = pc]
    BY <1>8 DEF SendTransfer, SendFails
  <2> DEFINE new == [run[w] EXCEPT !.pc = pc]
  <2>3. /\ new.pc = pc /\ new.t = run[w].t /\ new.seen = run[w].seen /\ new.old = run[w].old
    BY <1>r DEF Run
  <2>4. run'[w] = new /\ \A v \in Worker \ {w} : run'[v] = run[v]
    BY <2>2, <1>t DEF TypeOK
  <2> HIDE DEF new
  <2>5. /\ \A u \in Transfer \ {run[w].t} : transfer'[u] = transfer[u]
        /\ UNCHANGED << earned, row >>
    BY <1>8, <2>1, <1>t DEF SendTransfer, SendFails, TypeOK
  <2>6. transfer[run[w].t] = "none" /\ row[run[w].t].status = "pending"
    BY <2>1, <1>t DEF WalletInv, SendersAreFirst, BeforeSending, RequestsAreSound
  <2>7. \A v \in Worker \ {w} : run[v].pc \in Requesting => run[v].t # run[w].t
    BY <2>1, <1>t DEF RequestsAreSound, Requesting, BeforeSending
  <2>8. RequestsAreSound'
    <3>1. \A v \in Worker : /\ run'[v].t = run[v].t
                            /\ run'[v].pc \in Requesting <=> run[v].pc \in Requesting
      BY <2>1, <2>3, <2>4 DEF Requesting, BeforeSending, Reserved
    <3>2. (\A u \in Worker : \A v \in Worker :
            run[u].pc \in Requesting /\ run[v].pc \in Requesting /\ run[v].t = run[u].t => v = u)'
      BY <3>1, <1>t DEF RequestsAreSound
    <3>3. \A v \in Worker \ {w} :
            run[v].pc \in Requesting =>
              run'[v] = run[v] /\ transfer'[run[v].t] = transfer[run[v].t]
      BY <2>4, <2>5, <2>7, <1>s
    <3>4. row[run[w].t].age = "fresh"
      BY <2>1, <1>t DEF RequestsAreSound, Reserved
    <3> QED
      BY <2>3, <2>4, <2>5, <2>6, <3>2, <3>3, <3>4, <1>t
         DEF RequestsAreSound, Requesting, BeforeSending, Reserved
  <2>9. ReadingsLast'
    <3>1. \A v \in Worker : /\ run'[v].old = run[v].old /\ run'[v].seen = run[v].seen
                            /\ run'[v].pc = "returned" => run'[v] = run[v]
      BY <2>3, <2>4
    <3>2. \A v \in Worker :
            run[v].pc = "returned" => transfer'[run[v].t] = "returned"
      <4> SUFFICES ASSUME NEW v \in Worker, run[v].pc = "returned"
                   PROVE  transfer'[run[v].t] = "returned"
        OBVIOUS
      <4>1. run[v].t \in Transfer /\ transfer[run[v].t] = "returned"
        BY <1>s, <1>t DEF ReadingsLast
      <4> QED
        BY <4>1, <2>5, <2>6
    <3> QED
      BY <2>5, <3>1, <3>2, <1>t DEF ReadingsLast
  <2>10. EarningsCover'
    <3>1. earned <= earned'
      BY <2>5, <1>t DEF TypeOK
    <3>2. \A u \in Transfer : transfer[u] = "returned" => transfer'[u] = "returned"
      BY <2>5, <2>6
    <3>3. \A v \in Worker : run'[v].pc = "reserve" => run'[v] = run[v]
      BY <2>3, <2>4
    <3> QED
      BY <2>5, <3>1, <3>2, <3>3, NothingAdded
  <2> QED
    BY <2>8, <2>9, <2>10 DEF BudgetInv
<1>9. ASSUME NEW w \in Worker, MarkProcessing(w) \/ MarkRefused(w) PROVE BudgetInv'
  <2>1. /\ run[w].pc \in Reserved /\ run[w].t \in Transfer
        /\ row[run[w].t].status # "none"
    BY <1>9, <1>s
       DEF MarkProcessing, MarkRefused, WalletInv, SendersAreFirst, Reserved, Requesting
  <2>2. PICK s \in {"processing", "failed"} :
          /\ row' = [row EXCEPT ![run[w].t].status = s]
          /\ s = "processing" => run[w].pc = "accepted"
    BY <1>9 DEF MarkProcessing, MarkRefused
  <2>3. /\ \A u \in Transfer : row'[u].amount = row[u].amount /\ row'[u].age = row[u].age
        /\ \A u \in Transfer \ {run[w].t} : row'[u] = row[u]
        /\ row'[run[w].t].status = s
    BY <2>1, <2>2, <1>t DEF TypeOK, Row
  <2>4. \A v \in Worker \ {w} : run[v].t = run[w].t => run[v].pc \notin {"send", "accepted"}
    BY <2>1, <1>t DEF RequestsAreSound, Requesting, Reserved
  <2>5. row[run[w].t].status = "failed" => s = "failed" \/ transfer[run[w].t] = "returned"
    BY <2>2, <1>t DEF RequestsAreSound
  <2>6. RowsGoOn(w)
    BY <2>1, <2>3, <2>4, <2>5 DEF RowsGoOn
  <2>7. run' = [run EXCEPT ![w] = Idle] /\ UNCHANGED << earned, transfer >>
    BY <1>9 DEF MarkProcessing, MarkRefused
  <2> QED
    BY <2>6, <2>7, <1>i, QuietStep
<1>10. ASSUME NEW w \in Worker, NEW t \in Transfer, ReceiveWebhook(w, t) PROVE BudgetInv'
  <2> DEFINE new == [Idle EXCEPT !.pc = "read", !.t = t]
  <2>1. new \in Run /\ new.pc = "read" /\ new.old = {} /\ new.seen = {}
    BY DEF Idle, Run
  <2>2. run' = [run EXCEPT ![w] = new] /\ UNCHANGED << earned, row, transfer >>
    BY <1>10 DEF ReceiveWebhook
  <2> HIDE DEF new
  <2>3. ReadsRight(new) /\ new.pc \notin Requesting
    BY <2>1 DEF ReadsRight, Requesting, BeforeSending, Reserved
  <2> QED
    BY <2>1, <2>2, <2>3, UnchangedRows, QuietStep
<1>11. ASSUME NEW w \in Worker, ReadWithdrawal(w) PROVE BudgetInv'
  <2>1. UNCHANGED << earned, row, transfer >>
    BY <1>11 DEF ReadWithdrawal
  <2>2. CASE row[run[w].t].status \in Settleable
    <3>1. run' = [run EXCEPT ![w] = [run[w] EXCEPT !.pc = "verify"]]
      BY <1>11, <2>2, <1>t DEF ReadWithdrawal, TypeOK
    <3> QED
      BY <2>1, <3>1, <1>t, MovedReads, UnchangedRows, QuietStep
  <2>3. CASE row[run[w].t].status \notin Settleable
    BY <1>11, <2>1, <2>3, <1>t, DoneReads, UnchangedRows, QuietStep DEF ReadWithdrawal
  <2> QED
    BY <2>2, <2>3
<1>12. ASSUME NEW w \in Worker, VerifyTransfer(w) PROVE BudgetInv'
  <2>1. PICK pc \in {"verify", "arrived", "returned"} :
          /\ run' = [run EXCEPT ![w] = [run[w] EXCEPT !.pc = pc]]
          /\ pc = "returned" => transfer[run[w].t] = "returned"
    BY <1>12, <1>t DEF VerifyTransfer, TypeOK
  <2>2. UNCHANGED << earned, row, transfer >>
    BY <1>12 DEF VerifyTransfer
  <2> QED
    BY <2>1, <2>2, <1>t, MovedReads, UnchangedRows, QuietStep
<1>13. ASSUME NEW w \in Worker, VerifyPending(w) PROVE BudgetInv'
  BY <1>13, <1>t, DoneReads, UnchangedRows, QuietStep DEF VerifyPending
<1>14. ASSUME NEW w \in Worker, MarkSettled(w) PROVE BudgetInv'
  <2>1. run[w].pc \in {"arrived", "returned"} /\ run[w].t \in Transfer
    BY <1>14, <1>t DEF MarkSettled, TypeOK, Run
  <2>2. transfer[run[w].t] = run[w].pc
    BY <2>1, <1>t DEF WalletInv, SettlersAreRight, ReadingsLast
  <2>3. /\ \A u \in Transfer : row'[u].amount = row[u].amount /\ row'[u].age = row[u].age
        /\ \A u \in Transfer \ {run[w].t} : row'[u] = row[u]
        /\ row[run[w].t].status \notin Settleable => row'[run[w].t] = row[run[w].t]
        /\ row[run[w].t].status \in Settleable =>
             row'[run[w].t].status = IF run[w].pc = "arrived" THEN "paid" ELSE "failed"
    BY <1>14, <2>1, <1>t DEF MarkSettled, TypeOK, Row
  <2>4. \A v \in Worker : run[v].t = run[w].t => run[v].pc # "send"
    BY <2>1, <2>2 DEF WalletInv, SendersAreFirst, BeforeSending
  <2>5. RowsGoOn(w)
    BY <2>1, <2>2, <2>3, <2>4 DEF RowsGoOn, Settleable
  <2> QED
    BY <1>14, <2>5, <1>t, DoneReads, QuietStep DEF MarkSettled
<1>15. ASSUME NEW w \in Worker, StartSweep(w) PROVE BudgetInv'
  <2> DEFINE new == [Idle EXCEPT !.pc = "sweep", !.sweeps = TRUE,
                       !.todo = { t \in Rows : row[t].status \in Listed /\ row[t].age # "fresh" },
                       !.old  = { t \in Rows : row[t].age = "day" }]
  <2>1. new \in Run /\ new.pc = "sweep" /\ new.seen = {}
        /\ new.old = { t \in Rows : row[t].age = "day" }
    BY DEF Idle, Run, Rows
  <2>2. run' = [run EXCEPT ![w] = new] /\ UNCHANGED << earned, row, transfer >>
    BY <1>15 DEF StartSweep
  <2> HIDE DEF new
  <2>3. ReadsRight(new) /\ new.pc \notin Requesting
    BY <2>1 DEF ReadsRight, Requesting, BeforeSending, Reserved, Rows
  <2> QED
    BY <2>1, <2>2, <2>3, UnchangedRows, QuietStep
<1>16. ASSUME NEW w \in Worker, NEW t \in Transfer, SweepNext(w, t) PROVE BudgetInv'
  <2> DEFINE new == [run[w] EXCEPT !.pc = "read", !.t = t, !.todo = run[w].todo \ {t}]
  <2>1. new \in Run /\ new.pc = "read" /\ new.old = run[w].old /\ new.seen = run[w].seen
    BY <1>r DEF Run
  <2>2. run' = [run EXCEPT ![w] = new] /\ UNCHANGED << earned, row, transfer >>
    BY <1>16, <1>t DEF SweepNext, TypeOK
  <2> HIDE DEF new
  <2>3. ReadsRight(new) /\ new.pc \notin Requesting
    BY <2>1, <1>t DEF ReadsRight, ReadingsLast, Requesting, BeforeSending, Reserved
  <2> QED
    BY <2>1, <2>2, <2>3, UnchangedRows, QuietStep
<1>17. ASSUME NEW w \in Worker, AbandonStalePending(w) PROVE BudgetInv'
  <2>1. /\ \A u \in Transfer : row'[u].amount = row[u].amount /\ row'[u].age = row[u].age
        /\ \A u \in Transfer :
             \/ row'[u] = row[u]
             \/ row[u].status = "pending" /\ row'[u].status = "failed" /\ u \in run[w].old
    BY <1>17, <1>t DEF AbandonStalePending, TypeOK, Row
  <2>2. \A v \in Worker : run[v].pc \in {"send", "accepted"} => run[v].t \notin run[w].old
    BY <1>t DEF RequestsAreSound, ReadingsLast, Reserved
  <2>3. RowsGoOn(w)
    BY <2>1, <2>2 DEF RowsGoOn
  <2>4. run' = [run EXCEPT ![w] = Idle] /\ UNCHANGED << earned, transfer >>
    BY <1>17 DEF AbandonStalePending
  <2> QED
    BY <2>3, <2>4, <1>i, QuietStep
<1> QED
  BY <1>1, <1>2, <1>3, <1>4, <1>5, <1>6, <1>7, <1>8, <1>9, <1>10, <1>11, <1>12, <1>13,
     <1>14, <1>15, <1>16, <1>17
  DEF Next, Request, Settle, Sweep

\* However many requests, webhooks and sweeps race, the money the gateway may pay out for
\* withdrawals that are not written off never exceeds what was earned.
THEOREM NeverSendsMoreThanEarned == Spec => []SentWithinEarnings
<1>1. WalletInv /\ BudgetInv => SentWithinEarnings
  <2> SUFFICES ASSUME WalletInv, BudgetInv PROVE SentWithinEarnings
    OBVIOUS
  <2>t. TypeOK /\ IsFiniteSet(Rows)
    BY DEF WalletInv, BudgetInv, EarningsCover
  <2> PICK all, live : all = Possible /\ live = { t \in Live : row[t].status # "failed" }
    OBVIOUS
  <2>1. live \in SUBSET all /\ all \in SUBSET Rows
    BY DEF Possible, Rows, Live, WalletInv, SendersAreFirst
  <2>2. /\ SumOver(all) = SumFunctionOnSet(Amounts, all) /\ SumOver(live) = SumFunctionOnSet(Amounts, live)
        /\ IsFiniteSet(all) /\ IsFiniteSet(live) /\ \A x \in all : Amounts[x] \in Nat
    BY <2>1, <2>t, SumsOfRows
  <2>3. SumFunctionOnSet(Amounts, live) <= SumFunctionOnSet(Amounts, all)
    BY <2>1, <2>2, TotalSubset
  <2>4. SumFunctionOnSet(Amounts, live) \in Int /\ SumFunctionOnSet(Amounts, all) \in Int /\ earned \in Nat
    BY <2>1, <2>2, <2>t, TotalType DEF TypeOK
  <2>5. SumFunctionOnSet(Amounts, all) <= earned
    BY <2>2 DEF BudgetInv, EarningsCover
  <2>6. SumFunctionOnSet(Amounts, live) <= earned
    BY <2>3, <2>4, <2>5
  <2> QED
    BY <2>2, <2>6 DEF SentWithinEarnings
<1>2. Spec => []BudgetInv
  BY InitBudget, NextBudget, WalletInvHolds, PTL DEF Spec
<1> QED
  BY <1>1, <1>2, WalletInvHolds, PTL
=============================================================================
