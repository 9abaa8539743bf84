----------------------------- MODULE GatewayProofs -----------------------------
(***************************************************************************)
(* What crosses the payment gateway, in and out.                           *)
(*                                                                         *)
(* First the money of a refunded deal, for any deals, charges, calls at a  *)
(* time and bound on the refunds asked for: a brand is sent it once unless *)
(* one of the mishaps befell the deal, and the row says what the gateway   *)
(* did.  The heart of it is Orderly, what is true of a deal no mishap      *)
(* befell: at most one call is between its claim and its mark, the row is  *)
(* pending exactly while it is, only the newest refund asked for can have  *)
(* moved money, and it was asked for when all the others had failed.       *)
(*                                                                         *)
(* Then the checkouts (F), for any deals, sessions and workers.  All rests *)
(* on one fact about the settlers: what a settler found out before it      *)
(* claimed the session stays true while it holds and marks, whatever the   *)
(* others do meanwhile.                                                    *)
(***************************************************************************)
EXTENDS Gateway, FiniteSetTheorems, TLAPS

----------------------------------------------------------------------------
\* Refunds

\* The call w is between its claim of d's row and its mark.
Holds(w, d) ==
  run[w].deal = d /\ run[w].pc \in {"claimed", "accepted", "rejected"}

Newest(d) == Len(gateway[d])

NoneLive(d) == \A n \in 1..Newest(d) : gateway[d][n] = "failed"

\* The gateway still owes an answer about the newest refund.
Awaited(d) ==
  /\ Newest(d) > 0
  /\ gateway[d][Newest(d)] = "open" \/ [deal |-> d, refund |-> Newest(d)] \in events

OneHolder(d) ==
  /\ \A w, v \in Worker : Holds(w, d) /\ Holds(v, d) => w = v
  /\ (\E w \in Worker : Holds(w, d)) <=> row[d] = "pending"

HoldersKnow(d) ==
  \A w \in Worker : run[w].deal = d =>
    /\ run[w].pc \in {"claimed", "rejected"} => NoneLive(d)
    /\ run[w].pc = "accepted" => Awaited(d)

RowKnows(d) ==
  /\ row[d] = "none" =>
       /\ Newest(d) = 0
       /\ d \in due => \/ charge[d] = NoCharge
                       \/ \E w \in Worker : run[w].deal = d /\ run[w].pc = "asked"
  /\ row[d] = "processing" => Awaited(d)
  /\ row[d] = "failed" => NoneLive(d)
  /\ row[d] = "refunded" => Newest(d) > 0 /\ gateway[d][Newest(d)] = "done"

OnlyNewestLive(d) == \A n \in 1..Newest(d) : n # Newest(d) => gateway[d][n] = "failed"

Orderly(d) == OneHolder(d) /\ HoldersKnow(d) /\ RowKnows(d) /\ OnlyNewestLive(d)

\* A worker with nothing to do is at no deal.
RunShape == \A w \in Worker : run[w].pc = "idle" <=> run[w].deal = NoCharge

\* The gateway sends events about refunds it has finished.
EventsAreTrue ==
  \A e \in events : /\ e.refund \in 1..Newest(e.deal)
                    /\ gateway[e.deal][e.refund] # "open"

\* One refund of the charge was paid.
Paid(c) ==
  \E d \in Deal : charge[d] = c /\ \E n \in 1..Newest(d) : gateway[d][n] = "done"

\* Whatever went wrong, a row under way or refunded stands for a refund asked for.
RowsAreBacked ==
  \A d \in Deal :
    /\ row[d] \in {"processing", "refunded"} => Newest(d) > 0
    /\ \A w \in Worker : run[w].deal = d /\ run[w].pc = "accepted" => Newest(d) > 0
    /\ row[d] = "refunded" => Paid(charge[d])

RefundInv ==
  /\ TypeOK
  /\ RunShape
  /\ EventsAreTrue
  /\ RowsAreBacked
  /\ \A d \in Deal \ mishap : Orderly(d)

----------------------------------------------------------------------------
\* What the steps do to the gateway's record and to the calls

\* The types of the pieces of state the proofs take apart.
LEMMA Types ==
  ASSUME TypeOK
  PROVE  /\ charge \in [Deal -> Charge \cup {NoCharge}]
         /\ row \in [Deal -> RefundStatus]
         /\ run \in [Worker -> [pc : {"idle", "asked", "claimed", "accepted", "rejected"},
                                deal : Deal \cup {NoCharge}]]
         /\ \A d \in Deal : /\ gateway[d] \in Seq({"open", "done", "failed"})
                            /\ Newest(d) \in Nat
                            /\ DOMAIN gateway[d] = 1..Newest(d)
                            /\ \A n \in 1..Newest(d) : gateway[d][n] \in {"open", "done", "failed"}
  BY DEF TypeOK, Newest

\* A refund the gateway accepts is one more, open, after all the others.
LEMMA AcceptsEffect ==
  ASSUME TypeOK, NEW w \in Worker, NEW answered \in BOOLEAN, GatewayAccepts(w, answered),
         NEW d \in Deal, d = run[w].deal
  PROVE  /\ gateway' \in [Deal -> Seq({"open", "done", "failed"})]
         /\ Newest(d)' = Newest(d) + 1
         /\ gateway'[d][Newest(d) + 1] = "open"
         /\ \A n \in 1..Newest(d) : gateway'[d][n] = gateway[d][n]
         /\ \A x \in Deal \ {d} : gateway'[x] = gateway[x]
<1>1. gateway' = [gateway EXCEPT ![d] = Append(gateway[d], "open")]
  BY DEF GatewayAccepts
<1>2. gateway[d] \in Seq({"open", "done", "failed"}) /\ gateway \in [Deal -> Seq({"open", "done", "failed"})]
  BY DEF TypeOK
<1>3. gateway'[d] = Append(gateway[d], "open") /\ \A x \in Deal \ {d} : gateway'[x] = gateway[x]
  BY <1>1, <1>2
<1>4. /\ Append(gateway[d], "open") \in Seq({"open", "done", "failed"})
      /\ Len(Append(gateway[d], "open")) = Len(gateway[d]) + 1
      /\ Append(gateway[d], "open")[Len(gateway[d]) + 1] = "open"
      /\ \A n \in 1..Len(gateway[d]) : Append(gateway[d], "open")[n] = gateway[d][n]
  BY <1>2
<1>5. gateway' \in [Deal -> Seq({"open", "done", "failed"})]
  BY <1>1, <1>2, <1>4
<1> QED
  BY <1>3, <1>4, <1>5 DEF Newest

\* A refund that is finished was open, and changes nothing but that.
LEMMA FinishesEffect ==
  ASSUME TypeOK, NEW d \in Deal, NEW n \in 1..MaxAsked, NEW outcome \in {"done", "failed"},
         GatewayFinishes(d, n, outcome)
  PROVE  /\ gateway' \in [Deal -> Seq({"open", "done", "failed"})]
         /\ n \in 1..Newest(d) /\ gateway[d][n] = "open" /\ gateway'[d][n] = outcome
         /\ \A m \in 1..Newest(d) : m # n => gateway'[d][m] = gateway[d][m]
         /\ \A x \in Deal : Newest(x)' = Newest(x)
         /\ \A x \in Deal \ {d} : gateway'[x] = gateway[x]
<1>1. gateway' = [gateway EXCEPT ![d] = [gateway[d] EXCEPT ![n] = outcome]]
  BY DEF GatewayFinishes
<1>2. /\ gateway[d] \in Seq({"open", "done", "failed"})
      /\ gateway \in [Deal -> Seq({"open", "done", "failed"})]
      /\ n \in 1..Len(gateway[d]) /\ gateway[d][n] = "open"
  BY DEF TypeOK, GatewayFinishes
<1>3. /\ gateway'[d] = [gateway[d] EXCEPT ![n] = outcome]
      /\ \A x \in Deal \ {d} : gateway'[x] = gateway[x]
  BY <1>1, <1>2
<1>4. /\ [gateway[d] EXCEPT ![n] = outcome] \in Seq({"open", "done", "failed"})
      /\ Len([gateway[d] EXCEPT ![n] = outcome]) = Len(gateway[d])
      /\ [gateway[d] EXCEPT ![n] = outcome][n] = outcome
      /\ \A m \in 1..Len(gateway[d]) : m # n => [gateway[d] EXCEPT ![n] = outcome][m] = gateway[d][m]
  BY <1>2
<1>5. gateway' \in [Deal -> Seq({"open", "done", "failed"})]
  BY <1>1, <1>2, <1>4
<1> QED
  BY <1>2, <1>3, <1>4, <1>5 DEF Newest

----------------------------------------------------------------------------
\* TypeOK and RunShape

\* The initial state has the types, and is orderly.
LEMMA InitRefundInv == Init => RefundInv
<1> SUFFICES ASSUME Init PROVE RefundInv
  OBVIOUS
<1>1. TypeOK /\ RunShape
  BY DEF Init, TypeOK, RefundStatus, Idle, RunShape
<1>2. \A d \in Deal : Newest(d) = 0 /\ row[d] = "none" /\ d \notin due
  BY DEF Init, Newest
<1>3. \A w \in Worker : run[w].pc = "idle" /\ run[w].deal = NoCharge
  BY DEF Init, Idle
<1>4. EventsAreTrue
  BY DEF EventsAreTrue, Init
<1>5. RowsAreBacked
  BY <1>2, <1>3 DEF RowsAreBacked
<1>6. \A d \in Deal : Orderly(d)
  BY <1>2, <1>3, NoChargeIsNothing
     DEF Orderly, OneHolder, Holds, HoldersKnow, RowKnows, OnlyNewestLive
<1> QED
  BY <1>1, <1>4, <1>5, <1>6 DEF RefundInv

\* No step leaves the types, and a worker is idle exactly while it is at no deal.
LEMMA NextTypeOK ==
  ASSUME TypeOK, RunShape, [Next]_vars
  PROVE  TypeOK' /\ RunShape'
<1> USE DEF RunShape
<1>t. /\ run \in [Worker -> [pc : {"idle", "asked", "claimed", "accepted", "rejected"},
                             deal : Deal \cup {NoCharge}]]
      /\ \A w \in Worker : run[w].pc # "idle" => run[w].deal \in Deal
      /\ NoCharge \notin Deal
  BY NoChargeIsNothing DEF TypeOK
<1>r. ASSUME NEW w \in Worker,
             \/ run' = [run EXCEPT ![w] = Idle]
             \/ \E d \in Deal : run' = [run EXCEPT ![w] = [pc |-> "asked", deal |-> d]]
      PROVE  /\ run' \in [Worker -> [pc : {"idle", "asked", "claimed", "accepted", "rejected"},
                                     deal : Deal \cup {NoCharge}]]
             /\ RunShape'
  BY <1>t, <1>r DEF Idle
<1>1. ASSUME NEW w \in Worker, NEW d \in Deal, Resolve(w, d) \/ Retry(w, d)
      PROVE  TypeOK' /\ RunShape'
  <2>1. /\ run' = [run EXCEPT ![w] = [pc |-> "asked", deal |-> d]]
        /\ due' \in {due, due \cup {d}}
        /\ UNCHANGED << charge, row, gateway, events, mishap >>
    BY <1>1 DEF Resolve, Retry
  <2> QED
    BY <1>r, <2>1 DEF TypeOK
<1>2. ASSUME NEW w \in Worker, FindNoCharge(w) \/ ClaimIsRefused(w) \/ CutShort(w)
      PROVE  TypeOK' /\ RunShape'
  <2>1. /\ run' = [run EXCEPT ![w] = Idle]
        /\ run[w].pc # "idle"
        /\ mishap' \in {mishap, mishap \cup {run[w].deal}}
        /\ UNCHANGED << charge, due, row, gateway, events >>
    BY <1>2 DEF FindNoCharge, ClaimIsRefused, CutShort, At
  <2> QED
    BY <1>t, <1>r, <2>1 DEF TypeOK
<1>3. ASSUME NEW w \in Worker, ClaimRow(w) PROVE TypeOK' /\ RunShape'
  BY <1>t, <1>3 DEF ClaimRow, At, Goto, TypeOK, RefundStatus
<1>4. ASSUME NEW w \in Worker, NEW answered \in BOOLEAN, GatewayAccepts(w, answered)
      PROVE  TypeOK' /\ RunShape'
  <2>1. run[w].pc = "claimed" /\ run[w].deal \in Deal
    BY <1>t, <1>4 DEF GatewayAccepts, At
  <2>2. gateway' \in [Deal -> Seq({"open", "done", "failed"})]
    BY <1>4, <2>1, AcceptsEffect
  <2>3. /\ run' \in [Worker -> [pc : {"idle", "asked", "claimed", "accepted", "rejected"},
                                deal : Deal \cup {NoCharge}]]
        /\ RunShape'
    BY <1>t, <1>4, <2>1 DEF GatewayAccepts, Goto
  <2> QED
    BY <1>4, <2>1, <2>2, <2>3 DEF GatewayAccepts, TypeOK
<1>5. ASSUME NEW w \in Worker, GatewayRefuses(w) PROVE TypeOK' /\ RunShape'
  BY <1>t, <1>5 DEF GatewayRefuses, At, Goto, TypeOK
<1>6. ASSUME NEW w \in Worker, MarkProcessing(w) \/ MarkFailed(w) PROVE TypeOK' /\ RunShape'
  <2>1. /\ run' = [run EXCEPT ![w] = Idle]
        /\ \E status \in RefundStatus : row' = [row EXCEPT ![run[w].deal] = status]
        /\ UNCHANGED << charge, due, gateway, events, mishap >>
    BY <1>6 DEF MarkProcessing, MarkFailed, AfterRejection, Mark, RefundStatus
  <2> QED
    BY <1>r, <2>1 DEF TypeOK
<1>7. ASSUME NEW d \in Deal, NEW n \in 1..MaxAsked, NEW outcome \in {"done", "failed"},
             GatewayFinishes(d, n, outcome)
      PROVE  TypeOK' /\ RunShape'
  BY <1>7, FinishesEffect DEF GatewayFinishes, TypeOK, Event
<1>8. ASSUME NEW e \in Event, NEW again \in BOOLEAN, DeliverEvent(e, again)
      PROVE  TypeOK' /\ RunShape'
  BY <1>8 DEF DeliverEvent, SettledAs, TypeOK, RefundStatus
<1>9. CASE UNCHANGED vars
  BY <1>9 DEF vars, TypeOK
<1> QED
  BY <1>1, <1>2, <1>3, <1>4, <1>5, <1>6, <1>7, <1>8, <1>9 DEF Next, Call

----------------------------------------------------------------------------
\* EventsAreTrue and RowsAreBacked

\* What the gateway's record keeps of a deal at every step.
LEMMA RecordGrows ==
  ASSUME TypeOK, RunShape, [Next]_vars, NEW d \in Deal
  PROVE  /\ Newest(d)' \in Nat /\ Newest(d) \in Nat /\ Newest(d)' >= Newest(d)
         /\ \A n \in 1..Newest(d) : gateway[d][n] # "open" => gateway'[d][n] = gateway[d][n]
<1>t. Newest(d) \in Nat /\ Newest(d)' \in Nat
  BY NextTypeOK DEF TypeOK, Newest
<1>1. ASSUME NEW w \in Worker, NEW answered \in BOOLEAN, GatewayAccepts(w, answered)
      PROVE  /\ Newest(d)' >= Newest(d)
             /\ \A n \in 1..Newest(d) : gateway[d][n] # "open" => gateway'[d][n] = gateway[d][n]
  <2>1. run[w].deal \in Deal
    BY <1>1 DEF GatewayAccepts, At, RunShape, TypeOK
  <2>2. CASE d = run[w].deal
    BY <1>t, <1>1, <2>2, AcceptsEffect
  <2>3. CASE d # run[w].deal
    <3>1. gateway'[d] = gateway[d]
      BY <1>1, <2>1, <2>3, AcceptsEffect
    <3> QED
      BY <1>t, <3>1 DEF Newest
  <2> QED
    BY <2>2, <2>3
<1>2. ASSUME NEW x \in Deal, NEW n \in 1..MaxAsked, NEW outcome \in {"done", "failed"},
             GatewayFinishes(x, n, outcome)
      PROVE  /\ Newest(d)' >= Newest(d)
             /\ \A m \in 1..Newest(d) : gateway[d][m] # "open" => gateway'[d][m] = gateway[d][m]
  BY <1>t, <1>2, FinishesEffect
<1>3. CASE UNCHANGED gateway
  BY <1>t, <1>3 DEF Newest
<1> QED
  BY <1>t, <1>1, <1>2, <1>3 DEF Next, vars, Call, FindNoCharge, ClaimRow, ClaimIsRefused,
     GatewayRefuses, MarkProcessing, MarkFailed, CutShort, Resolve, Retry, DeliverEvent

\* An event is about a refund that is finished, and finished refunds stay what they are.
LEMMA NextEventsAreTrue ==
  ASSUME TypeOK, RunShape, EventsAreTrue, [Next]_vars
  PROVE  EventsAreTrue'
<1> SUFFICES ASSUME NEW e \in events'
             PROVE  e.refund \in 1..Newest(e.deal)' /\ gateway'[e.deal][e.refund] # "open"
  BY DEF EventsAreTrue
<1>1. CASE e \in events
  <2>1. e.deal \in Deal /\ e.refund \in 1..Newest(e.deal) /\ gateway[e.deal][e.refund] # "open"
    BY <1>1 DEF TypeOK, Event, EventsAreTrue
  <2> QED
    BY <2>1, RecordGrows
<1>2. CASE e \notin events
  <2>1. PICK d \in Deal, n \in 1..MaxAsked, outcome \in {"done", "failed"} :
          GatewayFinishes(d, n, outcome)
    BY <1>2 DEF Next, vars, Call, FindNoCharge, ClaimRow, ClaimIsRefused, GatewayAccepts,
       GatewayRefuses, MarkProcessing, MarkFailed, CutShort, Resolve, Retry, DeliverEvent
  <2>2. e = [deal |-> d, refund |-> n]
    BY <1>2, <2>1 DEF GatewayFinishes
  <2> QED
    BY <2>1, <2>2, FinishesEffect
<1> QED
  BY <1>1, <1>2

\* Only a finished refund of the charge makes a row of it refunded.
LEMMA NextRowsAreBacked ==
  ASSUME TypeOK, RunShape, EventsAreTrue, RowsAreBacked, [Next]_vars
  PROVE  RowsAreBacked'
<1> SUFFICES ASSUME NEW d \in Deal
             PROVE  /\ row'[d] \in {"processing", "refunded"} => Newest(d)' > 0
                    /\ \A w \in Worker : run'[w].deal = d /\ run'[w].pc = "accepted"
                                           => Newest(d)' > 0
                    /\ row'[d] = "refunded" => Paid(charge[d])'
  BY DEF RowsAreBacked, Next, vars, Call, FindNoCharge, ClaimRow, ClaimIsRefused,
     GatewayAccepts, GatewayRefuses, MarkProcessing, MarkFailed, CutShort, Resolve, Retry,
     DeliverEvent, GatewayFinishes
<1>c. UNCHANGED charge
  BY DEF Next, vars, Call, FindNoCharge, ClaimRow, ClaimIsRefused,
     GatewayAccepts, GatewayRefuses, MarkProcessing, MarkFailed, CutShort, Resolve, Retry,
     DeliverEvent, GatewayFinishes
<1>n. Newest(d) > 0 => Newest(d)' > 0
  BY RecordGrows
<1>p. ASSUME NEW c, Paid(c) PROVE Paid(c)'
  <2>0. PICK e \in Deal : charge[e] = c /\ \E n \in 1..Newest(e) : gateway[e][n] = "done"
    BY <1>p DEF Paid
  <2>1. PICK n \in 1..Newest(e) : gateway[e][n] = "done"
    BY <2>0
  <2>2. n \in 1..Newest(e)' /\ gateway'[e][n] = "done"
    BY <2>1, RecordGrows
  <2> QED
    BY <1>c, <2>0, <2>2 DEF Paid
<1>i. /\ row[d] \in {"processing", "refunded"} => Newest(d) > 0
      /\ \A w \in Worker : run[w].deal = d /\ run[w].pc = "accepted" => Newest(d) > 0
      /\ row[d] = "refunded" => Paid(charge[d])
  BY DEF RowsAreBacked
<1>t. /\ run \in [Worker -> [pc : {"idle", "asked", "claimed", "accepted", "rejected"},
                             deal : Deal \cup {NoCharge}]]
      /\ row \in [Deal -> RefundStatus]
  BY Types
<1>1. ASSUME NEW w \in Worker, run'[w].deal = d, run'[w].pc = "accepted"
      PROVE  Newest(d)' > 0
  <2>1. CASE run[w].deal = d /\ run[w].pc = "accepted"
    BY <1>i, <1>n, <2>1
  <2>2. CASE ~(run[w].deal = d /\ run[w].pc = "accepted")
    <3>1. ASSUME NEW v \in Worker,
                 \/ FindNoCharge(v) \/ ClaimRow(v) \/ ClaimIsRefused(v) \/ GatewayRefuses(v)
                 \/ MarkProcessing(v) \/ MarkFailed(v) \/ CutShort(v)
                 \/ \E x \in Deal : Resolve(v, x) \/ Retry(v, x)
          PROVE  FALSE
      BY <1>t, <1>1, <2>2, <3>1 DEF FindNoCharge, ClaimRow, ClaimIsRefused, GatewayRefuses,
         MarkProcessing, MarkFailed, CutShort, Resolve, Retry, Idle, Goto
    <3>2. PICK v \in Worker, answered \in BOOLEAN : GatewayAccepts(v, answered)
      BY <1>1, <2>2, <3>1 DEF Next, vars, Call, DeliverEvent, GatewayFinishes
    <3>3. v = w /\ d = run[w].deal
      BY <1>t, <1>1, <2>2, <3>2 DEF GatewayAccepts, Goto
    <3>4. Newest(d)' = Newest(d) + 1 /\ Newest(d) \in Nat
      BY <3>2, <3>3, AcceptsEffect, Types
    <3> QED
      BY <3>4
  <2> QED
    BY <2>1, <2>2
<1>2. CASE row'[d] = row[d]
  BY <1>c, <1>i, <1>n, <1>p, <1>1, <1>2
<1>3. CASE row'[d] # row[d]
  <2>1. ASSUME NEW w \in Worker, ClaimRow(w) \/ MarkFailed(w)
        PROVE  row'[d] \in {"pending", "failed"}
    BY <1>t, <1>3, <2>1 DEF ClaimRow, MarkFailed, Mark, AfterRejection
  <2>2. ASSUME NEW w \in Worker, MarkProcessing(w)
        PROVE  row'[d] = "processing" /\ Newest(d)' > 0
    <3>1. run[w].deal = d /\ run[w].pc = "accepted" /\ row'[d] = "processing"
      BY <1>t, <1>3, <2>2 DEF MarkProcessing, Mark, At
    <3> QED
      BY <1>i, <1>n, <3>1
  <2>3. ASSUME NEW e \in Event, NEW again \in BOOLEAN, DeliverEvent(e, again)
        PROVE  /\ row[d] = "processing" /\ row'[d] \in {"refunded", "failed"}
               /\ row'[d] = "refunded" => Paid(charge[d])
    <3>1. /\ e \in events /\ d \in Settled(charge[e.deal]) /\ row'[d] = SettledAs(e)
      BY <1>3, <2>3 DEF DeliverEvent
    <3>2. e.deal \in Deal /\ e.refund \in 1..Newest(e.deal) /\ charge[e.deal] = charge[d]
      BY <3>1 DEF Event, EventsAreTrue, Settled
    <3>3. row'[d] = "refunded" => gateway[e.deal][e.refund] = "done"
      BY <3>1 DEF SettledAs
    <3> QED
      BY <3>1, <3>2, <3>3 DEF Paid, SettledAs, Settled
  <2>4. \/ \E w \in Worker : ClaimRow(w) \/ MarkFailed(w) \/ MarkProcessing(w)
        \/ \E e \in Event, again \in BOOLEAN : DeliverEvent(e, again)
    BY <1>3 DEF Next, vars, Call, FindNoCharge, ClaimIsRefused, GatewayAccepts,
       GatewayRefuses, CutShort, Resolve, Retry, GatewayFinishes
  <2> QED
    BY <1>c, <1>i, <1>n, <1>p, <1>1, <2>1, <2>2, <2>3, <2>4
<1> QED
  BY <1>2, <1>3

----------------------------------------------------------------------------
\* Orderly

\* A step that has nothing to do with a deal leaves it as orderly as it was.
LEMMA OrderlyFrame ==
  ASSUME NEW x \in Deal, Orderly(x),
         row'[x] = row[x], gateway'[x] = gateway[x], charge'[x] = charge[x],
         x \in due' => x \in due,
         \A e \in events : e.deal = x => e \in events',
         \A w \in Worker : run[w].deal = x \/ run'[w].deal = x => run'[w] = run[w]
  PROVE  Orderly(x)'
<1>1. \A w \in Worker : Holds(w, x)' <=> Holds(w, x)
  BY DEF Holds
<1>2. Newest(x)' = Newest(x) /\ (NoneLive(x)' <=> NoneLive(x))
  BY DEF Newest, NoneLive
<1>3. Awaited(x) => Awaited(x)'
  BY <1>2 DEF Awaited
<1> QED
  BY <1>1, <1>2, <1>3 DEF Orderly, OneHolder, HoldersKnow, RowKnows, OnlyNewestLive

\* A worker that is at a deal, and one that comes to it, is at it alone.
LEMMA OrderlyElsewhere ==
  ASSUME TypeOK, NEW w \in Worker, NEW new, run' = [run EXCEPT ![w] = new],
         NEW x \in Deal, Orderly(x), run[w].deal # x, new.deal # x,
         row'[x] = row[x], gateway'[x] = gateway[x], charge'[x] = charge[x],
         x \in due' => x \in due, UNCHANGED events
  PROVE  Orderly(x)'
<1>1. \A v \in Worker : run[v].deal = x \/ run'[v].deal = x => run'[v] = run[v]
  BY Types
<1> QED
  BY <1>1, OrderlyFrame

\* Where no call has a deal in its hands, what a call that comes or goes changes of it is
\* only whether it is asked for.
LEMMA OrderlyAsked ==
  ASSUME TypeOK, RunShape, NEW w \in Worker, NEW new, run' = [run EXCEPT ![w] = new],
         NEW x \in Deal, Orderly(x),
         ~Holds(w, x), new.deal = x => new.pc = "asked",
         row[x] = "none" /\ x \in due' =>
           charge[x] = NoCharge \/ (new.deal = x) \/ (run[w].deal # x /\ x \in due),
         UNCHANGED << row, gateway, charge, events >>
  PROVE  Orderly(x)'
<1>1. run'[w] = new /\ \A v \in Worker \ {w} : run'[v] = run[v]
  BY Types
<1>2. \A v \in Worker : Holds(v, x)' <=> Holds(v, x)
  BY <1>1 DEF Holds
<1>3. Newest(x)' = Newest(x) /\ (NoneLive(x)' <=> NoneLive(x)) /\ (Awaited(x)' <=> Awaited(x))
  BY DEF Newest, NoneLive, Awaited
<1>4. OneHolder(x)'
  BY <1>2 DEF OneHolder, Orderly
<1>5. HoldersKnow(x)'
  BY <1>1, <1>3 DEF HoldersKnow, Orderly
<1>6. OnlyNewestLive(x)'
  BY <1>3 DEF OnlyNewestLive, Orderly
<1>7. row[x] = "none" /\ x \in due' =>
        \/ charge[x] = NoCharge
        \/ \E v \in Worker : run'[v].deal = x /\ run'[v].pc = "asked"
  BY <1>1 DEF Orderly, RowKnows
<1>8. RowKnows(x)'
  BY <1>3, <1>7 DEF RowKnows, Orderly
<1> QED
  BY <1>4, <1>5, <1>6, <1>8 DEF Orderly

\* A call that begins, finds nothing to do or is cut short leaves a deal no mishap befell
\* orderly.
LEMMA OrderlyComesAndGoes ==
  ASSUME TypeOK, RunShape, NEW w \in Worker, NEW x \in Deal \ mishap', Orderly(x),
         \/ FindNoCharge(w) \/ ClaimIsRefused(w) \/ CutShort(w)
         \/ \E d \in Deal : Resolve(w, d) \/ Retry(w, d)
  PROVE  Orderly(x)'
<1>n. NoCharge \notin Deal
  BY NoChargeIsNothing
<1>1. ASSUME NEW d \in Deal, Resolve(w, d) \/ Retry(w, d) PROVE Orderly(x)'
  <2> DEFINE new == [pc |-> "asked", deal |-> d]
  <2>1. /\ run' = [run EXCEPT ![w] = new]
        /\ run[w].pc = "idle"
        /\ due' = due \cup {d} \/ due' = due
        /\ UNCHANGED << row, gateway, charge, events >>
    BY <1>1 DEF Resolve, Retry, At
  <2>2. new.deal = d /\ new.pc = "asked"
    OBVIOUS
  <2>3. run[w].deal # x /\ ~Holds(w, x)
    BY <1>n, <2>1 DEF RunShape, Holds
  <2> HIDE DEF new
  <2> QED
    BY <2>1, <2>2, <2>3, OrderlyAsked
<1>2. ASSUME FindNoCharge(w) \/ ClaimIsRefused(w) PROVE Orderly(x)'
  <2>1. /\ run' = [run EXCEPT ![w] = Idle]
        /\ run[w].pc = "asked"
        /\ charge[run[w].deal] = NoCharge \/ row[run[w].deal] # "none"
        /\ UNCHANGED << row, gateway, charge, events, due >>
    BY <1>2 DEF FindNoCharge, ClaimIsRefused, At, Claimable
  <2>2. Idle.deal = NoCharge
    BY DEF Idle
  <2>3. ~Holds(w, x)
    BY <2>1 DEF Holds
  <2> QED
    BY <1>n, <2>1, <2>2, <2>3, OrderlyAsked
<1>3. ASSUME CutShort(w) PROVE Orderly(x)'
  <2>1. /\ run' = [run EXCEPT ![w] = Idle]
        /\ run[w].deal # x
        /\ UNCHANGED << row, gateway, charge, events, due >>
    BY <1>3 DEF CutShort
  <2>2. Idle.deal = NoCharge
    BY DEF Idle
  <2> QED
    BY <1>n, <2>1, <2>2, OrderlyElsewhere
<1> QED
  BY <1>1, <1>2, <1>3

\* Where a deal no mishap befell is claimed, no refund of it has moved money, and no other
\* call is past its claim.
LEMMA OrderlyClaim ==
  ASSUME TypeOK, RunShape, NEW w \in Worker, NEW x \in Deal \ mishap', Orderly(x), ClaimRow(w)
  PROVE  Orderly(x)'
<1> DEFINE new == [run[w] EXCEPT !.pc = "claimed"]
<1>1. /\ run' = [run EXCEPT ![w] = new]
      /\ run[w].pc = "asked" /\ run[w].deal \in Deal
      /\ new.deal = run[w].deal /\ new.pc = "claimed"
      /\ UNCHANGED << gateway, charge, events, due >>
  BY Types DEF ClaimRow, Goto, At, RunShape
<1> HIDE DEF new
<1>2. CASE run[w].deal # x
  <2>1. row'[x] = row[x]
    BY <1>1, <1>2, Types DEF ClaimRow
  <2> QED
    BY <1>1, <1>2, <2>1, OrderlyElsewhere
<1>3. CASE run[w].deal = x
  <2>1. row'[x] = "pending" /\ row[x] \in Claimable
    BY <1>1, <1>3, Types DEF ClaimRow
  <2>2. \A v \in Worker : v # w /\ run[v].deal = x => run[v].pc = "asked"
    BY <1>3 DEF ClaimRow, Busy, At
  <2>3. \A v \in Worker : ~Holds(v, x)
    BY <1>1, <2>2 DEF Holds
  <2>4. row[x] # "pending"
    BY <2>3 DEF Orderly, OneHolder
  <2>5. NoneLive(x) /\ Newest(x)' = Newest(x) /\ NoneLive(x)'
    BY <1>1, <2>1, <2>4 DEF Claimable, Orderly, RowKnows, NoneLive, Newest
  <2>6. run'[w] = new /\ \A v \in Worker \ {w} : run'[v] = run[v]
    BY <1>1, Types
  <2>7. \A v \in Worker : Holds(v, x)' <=> v = w
    BY <1>1, <1>3, <2>3, <2>6 DEF Holds
  <2>8. OneHolder(x)'
    BY <2>1, <2>7 DEF OneHolder
  <2>9. HoldersKnow(x)'
    BY <1>1, <2>2, <2>5, <2>6 DEF HoldersKnow
  <2>10. OnlyNewestLive(x)'
    BY <2>5 DEF OnlyNewestLive, NoneLive
  <2>11. RowKnows(x)'
    BY <2>1 DEF RowKnows
  <2> QED
    BY <2>8, <2>9, <2>10, <2>11 DEF Orderly
<1> QED
  BY <1>2, <1>3

\* The call that has claimed a deal is the only one that asks the gateway for its refund,
\* and knows that all the earlier ones have failed.
LEMMA OrderlyRequest ==
  ASSUME TypeOK, RunShape, NEW w \in Worker, NEW x \in Deal \ mishap', Orderly(x),
         GatewayRefuses(w) \/ \E answered \in BOOLEAN : GatewayAccepts(w, answered)
  PROVE  Orderly(x)'
<1>1. PICK pc \in {"accepted", "rejected"} :
        /\ run' = [run EXCEPT ![w] = [run[w] EXCEPT !.pc = pc]]
        /\ pc = "accepted" => GatewayAccepts(w, TRUE)
        /\ pc = "rejected" => GatewayRefuses(w) \/ GatewayAccepts(w, FALSE)
  BY DEF GatewayAccepts, GatewayRefuses, Goto
<1> DEFINE new == [run[w] EXCEPT !.pc = pc]
<1>2. /\ run' = [run EXCEPT ![w] = new]
      /\ run[w].pc = "claimed" /\ run[w].deal \in Deal
      /\ new.deal = run[w].deal /\ new.pc = pc
      /\ UNCHANGED << row, charge, events, due >>
  BY <1>1, Types DEF GatewayAccepts, GatewayRefuses, At, RunShape
<1> HIDE DEF new
<1>3. CASE run[w].deal # x
  <2>1. gateway'[x] = gateway[x]
    BY <1>2, <1>3, AcceptsEffect DEF GatewayRefuses
  <2> QED
    BY <1>2, <1>3, <2>1, OrderlyElsewhere
<1>4. CASE run[w].deal = x
  <2>1. run'[w] = new /\ \A v \in Worker \ {w} : run'[v] = run[v]
    BY <1>2, Types
  <2>2. \A v \in Worker : Holds(v, x) <=> v = w
    BY <1>2, <1>4 DEF Holds, Orderly, OneHolder
  <2>3. NoneLive(x) /\ row[x] = "pending"
    BY <1>2, <1>4, <2>2 DEF Orderly, HoldersKnow, OneHolder
  <2>4. \A v \in Worker : Holds(v, x)' <=> v = w
    BY <1>1, <1>2, <1>4, <2>1, <2>2 DEF Holds
  <2>5. OneHolder(x)' /\ RowKnows(x)'
    BY <1>2, <2>3, <2>4 DEF OneHolder, RowKnows
  <2>6. \A v \in Worker : run'[v].deal = x /\ run'[v].pc \in {"claimed", "accepted", "rejected"} => v = w
    BY <2>4 DEF Holds
  <2>7. CASE pc = "rejected"
    <3>1. GatewayRefuses(w)
      BY <1>1, <1>4, <2>7 DEF GatewayAccepts
    <3>2. Newest(x)' = Newest(x) /\ NoneLive(x)'
      BY <2>3, <3>1 DEF GatewayRefuses, NoneLive, Newest
    <3>3. HoldersKnow(x)'
      BY <1>2, <2>1, <2>6, <2>7, <3>2 DEF HoldersKnow
    <3>4. OnlyNewestLive(x)'
      BY <3>2 DEF OnlyNewestLive, NoneLive
    <3> QED
      BY <2>5, <3>3, <3>4 DEF Orderly
  <2>8. CASE pc = "accepted"
    <3>0. GatewayAccepts(w, TRUE)
      BY <1>1, <2>8
    <3>n. Newest(x) \in Nat
      BY Types
    <3>1. /\ Newest(x) \in Nat /\ Newest(x)' = Newest(x) + 1
          /\ gateway'[x][Newest(x) + 1] = "open"
          /\ \A n \in 1..Newest(x) : gateway'[x][n] = gateway[x][n]
      BY <1>4, <3>0, <3>n, AcceptsEffect
    <3>2. Awaited(x)'
      BY <3>1 DEF Awaited
    <3>3. HoldersKnow(x)'
      BY <1>2, <2>1, <2>6, <2>8, <3>2 DEF HoldersKnow
    <3>4. OnlyNewestLive(x)'
      <4> SUFFICES ASSUME NEW n \in 1..Newest(x)', n # Newest(x)' PROVE gateway'[x][n] = "failed"
        BY DEF OnlyNewestLive
      <4>1. n \in 1..Newest(x)
        BY <3>1
      <4> QED
        BY <2>3, <3>1, <4>1 DEF NoneLive
    <3> QED
      BY <2>5, <3>3, <3>4 DEF Orderly
  <2> QED
    BY <2>7, <2>8
<1> QED
  BY <1>3, <1>4

\* The mark says what the call learnt, and leaves the deal to no call.
LEMMA OrderlyMark ==
  ASSUME TypeOK, RunShape, NEW w \in Worker, NEW x \in Deal \ mishap', Orderly(x),
         MarkProcessing(w) \/ MarkFailed(w)
  PROVE  Orderly(x)'
<1>1. /\ run' = [run EXCEPT ![w] = Idle]
      /\ run[w].pc \in {"accepted", "rejected"} /\ run[w].deal \in Deal
      /\ UNCHANGED << gateway, charge, events, due >>
  BY Types DEF MarkProcessing, MarkFailed, At, RunShape
<1>2. Idle.deal = NoCharge /\ NoCharge \notin Deal
  BY NoChargeIsNothing DEF Idle
<1>3. CASE run[w].deal # x
  <2>1. row'[x] = row[x]
    BY <1>1, <1>3, Types DEF MarkProcessing, MarkFailed, Mark
  <2> QED
    BY <1>1, <1>2, <1>3, <2>1, OrderlyElsewhere
<1>4. CASE run[w].deal = x
  <2>1. run'[w] = Idle /\ \A v \in Worker \ {w} : run'[v] = run[v]
    BY <1>1, Types
  <2>2. \A v \in Worker : Holds(v, x) <=> v = w
    BY <1>1, <1>4 DEF Holds, Orderly, OneHolder
  <2>3. \A v \in Worker : ~Holds(v, x)'
    BY <1>2, <2>1, <2>2 DEF Holds
  <2>4. \/ run[w].pc = "accepted" /\ row'[x] = "processing"
        \/ run[w].pc = "rejected" /\ row'[x] = "failed"
    BY <1>1, <1>4, Types DEF MarkProcessing, MarkFailed, Mark, At, AfterRejection
  <2>5. OneHolder(x)'
    BY <2>3, <2>4 DEF OneHolder
  <2>6. HoldersKnow(x)'
    BY <2>3 DEF HoldersKnow, Holds
  <2>7. Newest(x)' = Newest(x) /\ (NoneLive(x)' <=> NoneLive(x)) /\ (Awaited(x)' <=> Awaited(x))
    BY <1>1 DEF Newest, NoneLive, Awaited
  <2>8. RowKnows(x)'
    BY <1>4, <2>4, <2>7 DEF RowKnows, Orderly, HoldersKnow
  <2>9. OnlyNewestLive(x)'
    BY <1>1, <2>7 DEF OnlyNewestLive, Orderly
  <2> QED
    BY <2>5, <2>6, <2>8, <2>9 DEF Orderly
<1> QED
  BY <1>3, <1>4

\* The refund the gateway finishes is the newest, and the event about it is owed.
LEMMA OrderlyFinish ==
  ASSUME TypeOK, NEW x \in Deal, Orderly(x),
         NEW d \in Deal, NEW n \in 1..MaxAsked, NEW outcome \in {"done", "failed"},
         GatewayFinishes(d, n, outcome)
  PROVE  Orderly(x)'
<1>1. /\ events' = events \cup {[deal |-> d, refund |-> n]}
      /\ UNCHANGED << row, charge, run, due >>
  BY DEF GatewayFinishes
<1>2. CASE x # d
  <2>1. gateway'[x] = gateway[x]
    BY <1>2, FinishesEffect
  <2> QED
    BY <1>1, <2>1, OrderlyFrame
<1>3. CASE x = d
  <2>1. /\ n \in 1..Newest(x) /\ gateway[x][n] = "open" /\ Newest(x)' = Newest(x)
        /\ \A m \in 1..Newest(x) : m # n => gateway'[x][m] = gateway[x][m]
    BY <1>3, FinishesEffect
  <2>2. n = Newest(x)
    BY <2>1 DEF Orderly, OnlyNewestLive
  <2>3. Awaited(x)' /\ ~NoneLive(x)
    BY <1>1, <1>3, <2>1, <2>2 DEF Awaited, NoneLive
  <2>4. OneHolder(x)'
    BY <1>1 DEF OneHolder, Holds, Orderly
  <2>5. HoldersKnow(x)'
    BY <1>1, <2>3 DEF HoldersKnow, Orderly
  <2>6. RowKnows(x)'
    BY <1>1, <2>1, <2>2, <2>3 DEF RowKnows, Orderly
  <2>7. OnlyNewestLive(x)'
    BY <2>1, <2>2 DEF OnlyNewestLive, Orderly
  <2> QED
    BY <2>4, <2>5, <2>6, <2>7 DEF Orderly
<1> QED
  BY <1>2, <1>3

\* An event that misleads no row settles the row of the newest refund, or one no call and
\* no row waits for.
LEMMA OrderlyEvent ==
  ASSUME TypeOK, EventsAreTrue, NEW x \in Deal \ mishap', Orderly(x),
         NEW e \in Event, NEW again \in BOOLEAN, DeliverEvent(e, again)
  PROVE  Orderly(x)'
<1>1. /\ e \in events /\ events \ {e} \subseteq events'
      /\ UNCHANGED << gateway, charge, run, due >>
      /\ row'[x] = IF x \in Settled(charge[e.deal]) THEN SettledAs(e) ELSE row[x]
      /\ ~Misled(x, e)
  BY DEF DeliverEvent
<1>2. Newest(x)' = Newest(x) /\ (NoneLive(x)' <=> NoneLive(x))
  BY <1>1 DEF Newest, NoneLive
<1>3. OnlyNewestLive(x)'
  BY <1>1, <1>2 DEF OnlyNewestLive, Orderly
<1>4. CASE x \in Settled(charge[e.deal])
  <2>1. /\ x = e.deal /\ e.refund = Newest(x) /\ row[x] = "processing"
        /\ row'[x] = SettledAs(e)
    BY <1>1, <1>4 DEF Misled, Newest, Settled
  <2>2. Newest(x) \in 1..Newest(x) /\ gateway[x][Newest(x)] \in {"done", "failed"}
    BY <1>1, <2>1, Types DEF EventsAreTrue
  <2>3. \A w \in Worker : ~Holds(w, x) /\ ~Holds(w, x)'
    BY <1>1, <2>1 DEF Orderly, OneHolder, Holds
  <2>4. \/ row'[x] = "refunded" /\ gateway[x][Newest(x)] = "done"
        \/ row'[x] = "failed" /\ NoneLive(x)
    BY <2>1, <2>2 DEF SettledAs, Orderly, OnlyNewestLive, NoneLive
  <2>5. OneHolder(x)' /\ HoldersKnow(x)'
    BY <2>3, <2>4 DEF OneHolder, HoldersKnow, Holds
  <2>6. RowKnows(x)'
    BY <1>1, <1>2, <2>2, <2>4, Types DEF RowKnows
  <2> QED
    BY <1>3, <2>5, <2>6 DEF Orderly
<1>5. CASE x \notin Settled(charge[e.deal]) /\ x # e.deal
  <2>1. \A f \in events : f.deal = x => f \in events'
    BY <1>1, <1>5
  <2> QED
    BY <1>1, <1>5, <2>1, OrderlyFrame
<1>6. CASE x \notin Settled(charge[e.deal]) /\ x = e.deal
  <2>1. row[x] \notin {"pending", "processing"} /\ row'[x] = row[x]
    BY <1>1, <1>6 DEF Misled, Settled
  <2>2. \A w \in Worker : ~Holds(w, x) /\ ~Holds(w, x)'
    BY <1>1, <2>1 DEF Orderly, OneHolder, Holds
  <2>3. OneHolder(x)' /\ HoldersKnow(x)'
    BY <2>1, <2>2 DEF OneHolder, HoldersKnow, Holds
  <2>4. RowKnows(x)'
    BY <1>1, <1>2, <2>1 DEF RowKnows, Orderly
  <2> QED
    BY <1>3, <2>3, <2>4 DEF Orderly
<1> QED
  BY <1>4, <1>5, <1>6

----------------------------------------------------------------------------
\* The theorems

\* Every step keeps the invariant.
LEMMA NextRefundInv ==
  ASSUME RefundInv, [Next]_vars
  PROVE  RefundInv'
<1>1. TypeOK' /\ RunShape' /\ EventsAreTrue' /\ RowsAreBacked'
  BY NextTypeOK, NextEventsAreTrue, NextRowsAreBacked DEF RefundInv
<1>2. mishap \subseteq mishap'
  BY DEF Next, vars, Call, FindNoCharge, ClaimRow, ClaimIsRefused, GatewayAccepts,
     GatewayRefuses, MarkProcessing, MarkFailed, CutShort, Resolve, Retry, DeliverEvent,
     GatewayFinishes
<1>3. ASSUME NEW x \in Deal \ mishap' PROVE Orderly(x)'
  <2>1. TypeOK /\ RunShape /\ EventsAreTrue /\ Orderly(x)
    BY <1>2 DEF RefundInv
  <2>2. ASSUME NEW w \in Worker, Call(w) \/ CutShort(w) \/ \E d \in Deal : Resolve(w, d) \/ Retry(w, d)
        PROVE  Orderly(x)'
    <3>1. CASE FindNoCharge(w) \/ ClaimIsRefused(w) \/ CutShort(w)
               \/ \E d \in Deal : Resolve(w, d) \/ Retry(w, d)
      BY <2>1, <3>1, OrderlyComesAndGoes
    <3>2. CASE ClaimRow(w)
      BY <2>1, <3>2, OrderlyClaim
    <3>3. CASE GatewayRefuses(w) \/ \E answered \in BOOLEAN : GatewayAccepts(w, answered)
      BY <2>1, <3>3, OrderlyRequest
    <3>4. CASE MarkProcessing(w) \/ MarkFailed(w)
      BY <2>1, <3>4, OrderlyMark
    <3> QED
      BY <2>2, <3>1, <3>2, <3>3, <3>4 DEF Call
  <2>3. ASSUME NEW d \in Deal, NEW n \in 1..MaxAsked, NEW outcome \in {"done", "failed"},
               GatewayFinishes(d, n, outcome)
        PROVE  Orderly(x)'
    BY <2>1, <2>3, OrderlyFinish
  <2>4. ASSUME NEW e \in Event, NEW again \in BOOLEAN, DeliverEvent(e, again)
        PROVE  Orderly(x)'
    BY <2>1, <2>4, OrderlyEvent
  <2>5. CASE UNCHANGED vars
    BY <2>1, <2>5, OrderlyFrame DEF vars
  <2> QED
    BY <2>2, <2>3, <2>4, <2>5 DEF Next
<1> QED
  BY <1>1, <1>3 DEF RefundInv

\* The invariant holds in every state.
LEMMA RefundInvHolds == Spec => []RefundInv
<1>1. Init => RefundInv
  BY InitRefundInv
<1>2. RefundInv /\ [Next]_vars => RefundInv'
  BY NextRefundInv
<1> QED
  BY <1>1, <1>2, PTL DEF Spec

\* A set within a singleton has at most one member.
LEMMA AtMostOne ==
  ASSUME NEW S, NEW n, S \subseteq {n}
  PROVE  Cardinality(S) <= 1
<1>1. S = {} \/ S = {n}
  OBVIOUS
<1>2. Cardinality({}) = 0 /\ Cardinality({n}) = 1
  BY FS_EmptySet, FS_Singleton
<1> QED
  BY <1>1, <1>2

\* issueExternalRefund sends the money of a deal through the gateway at most once unless two
\* calls overlapped, an answer was lost, a call died, or another refund's event settled the row.
THEOREM MoneyGoesBackOnce == Spec => []OnceUnlessMishap
<1>1. RefundInv => OnceUnlessMishap
  <2> SUFFICES ASSUME RefundInv, NEW d \in Deal \ mishap PROVE Cardinality(Live(d)) <= 1
    BY DEF OnceUnlessMishap
  <2>1. Live(d) \subseteq {Newest(d)}
    BY Types DEF RefundInv, Orderly, OnlyNewestLive, Live
  <2> QED
    BY <2>1, AtMostOne
<1> QED
  BY <1>1, RefundInvHolds, PTL

\* With no call under way, a row no mishap befell says what the gateway did, and what
\* external-refund.ts lets an admin retry stands for no refund; and no row at all is called
\* refunded without a refund asked for and one of its charge paid.
THEOREM RowsTruthful == Spec => []RowsTellTheTruth
<1>1. RefundInv => RowsTellTheTruth
  <2> SUFFICES ASSUME RefundInv PROVE RowsTellTheTruth
    OBVIOUS
  <2>t. TypeOK
    BY DEF RefundInv
  <2>1. ASSUME NEW d \in Deal \ mishap, Busy(d) = {}
        PROVE  /\ row[d] = "none" => gateway[d] = <<>> /\ (d \in due => charge[d] = NoCharge)
               /\ row[d] # "pending"
               /\ row[d] = "processing" => Awaited(d)
               /\ row[d] = "failed" => Live(d) = {}
               /\ row[d] = "refunded" => Newest(d) > 0 /\ gateway[d][Newest(d)] = "done"
    <3>1. \A w \in Worker : run[w].deal # d
      BY <2>1 DEF Busy
    <3>2. Orderly(d)
      BY DEF RefundInv
    <3>3. row[d] # "pending"
      BY <3>1, <3>2 DEF Orderly, OneHolder, Holds
    <3>4. row[d] = "none" => Newest(d) = 0 /\ (d \in due => charge[d] = NoCharge)
      BY <3>1, <3>2 DEF Orderly, RowKnows
    <3>5. Newest(d) = 0 => gateway[d] = <<>>
      BY <2>t DEF TypeOK, Newest
    <3>6. NoneLive(d) => Live(d) = {}
      BY <2>t, Types DEF NoneLive, Live
    <3> QED
      BY <3>2, <3>3, <3>4, <3>5, <3>6 DEF Orderly, RowKnows
  <2>2. ASSUME NEW d \in Deal, row[d] = "refunded"
        PROVE  /\ gateway[d] # <<>>
               /\ \E e \in Deal : charge[e] = charge[d]
                                  /\ \E n \in DOMAIN gateway[e] : gateway[e][n] = "done"
    <3>1. Newest(d) > 0 /\ Paid(charge[d])
      BY <2>2 DEF RefundInv, RowsAreBacked
    <3>2. gateway[d] # <<>>
      BY <3>1 DEF Newest
    <3> QED
      BY <2>t, <3>1, <3>2, Types DEF Paid
  <2>3. \A d \in Deal : row[d] \in RefundStatus
    BY <2>t, Types
  <2> QED
    BY <2>1, <2>2, <2>3 DEF RowsTellTheTruth, RefundStatus, Awaited, Newest
<1> QED
  BY <1>1, RefundInvHolds, PTL

\* Every variable keeps its type.
THEOREM RefundTypeCorrect == Spec => []TypeOK
<1>1. RefundInv => TypeOK
  BY DEF RefundInv
<1> QED
  BY <1>1, RefundInvHolds, PTL

----------------------------------------------------------------------------
\* Checkouts

\* A settler past the gateway works on a session whose charge is paid, and one
\* about to mark it consumed on a campaign that is in escrow.
SettlersAreRight ==
  \A w \in Worker :
    /\ settler[w].pc \notin {"idle", "quote"} => settler[w].s \in Session
    /\ settler[w].pc \in {"claim", "hold", "recheck", "consume"}
         => checkout[settler[w].s] = "paid"
    /\ settler[w].pc = "consume" => campaign \in {"funded", "completed"}

FundingInv ==
  /\ F!TypeOK
  /\ SettlersAreRight
  /\ F!ValueOnlyForPaidCharges
  /\ F!ConsumedMeansFunded
  /\ F!OneOpenSession

\* The initial state satisfies the invariant.
LEMMA InitFunding == F!Init => FundingInv
  BY NoSessionIsNothing
     DEF F!Init, FundingInv, F!TypeOK, SettlersAreRight, F!ValueOnlyForPaidCharges,
         F!ConsumedMeansFunded, F!OneOpenSession, F!Row, F!NoRow, F!SessionStatus, F!Reason,
         F!ChargeStatus, F!Run, F!Idle

\* A worker's step keeps the settlers right if it leaves its own run right and takes
\* nothing back: no paid charge, no campaign in escrow.
LEMMA SettlerStep ==
  ASSUME F!TypeOK, SettlersAreRight,
         NEW w \in Worker, NEW new \in F!Run, settler' = [settler EXCEPT ![w] = new],
         \A s \in Session : checkout[s] = "paid" => checkout'[s] = "paid",
         campaign \in {"funded", "completed"} => campaign' \in {"funded", "completed"},
         new.pc \notin {"idle", "quote"} => new.s \in Session,
         new.pc \in {"claim", "hold", "recheck", "consume"} => checkout'[new.s] = "paid",
         new.pc = "consume" => campaign' \in {"funded", "completed"}
  PROVE  settler' \in [Worker -> F!Run] /\ SettlersAreRight'
<1>1. /\ settler' \in [Worker -> F!Run]
      /\ settler'[w] = new
      /\ \A v \in Worker \ {w} : settler'[v] = settler[v]
  BY DEF F!TypeOK
<1>2. \A v \in Worker \ {w} : settler[v] \in F!Run /\ (settler[v].pc \notin {"idle", "quote"} => settler[v].s \in Session)
  BY DEF F!TypeOK, SettlersAreRight
<1> QED
  BY <1>1, <1>2 DEF SettlersAreRight

\* The idle run is a run.
LEMMA IdleSettler == F!Idle \in F!Run /\ F!Idle.pc = "idle"
  BY DEF F!Idle, F!Run, F!Reason

\* Moving on to another statement keeps a run's session.
LEMMA MovedSettler ==
  ASSUME NEW k \in F!Run, NEW pc \in {"verify", "claim", "hold", "recheck", "consume"}
  PROVE  /\ [k EXCEPT !.pc = pc] \in F!Run
         /\ [k EXCEPT !.pc = pc].pc = pc /\ [k EXCEPT !.pc = pc].s = k.s
  BY DEF F!Run

\* So does giving up, which records why.
LEMMA FailedSettler ==
  ASSUME NEW k \in F!Run, NEW reason \in F!Reason, NEW thrown \in BOOLEAN
  PROVE  LET new == [k EXCEPT !.pc = "fail", !.reason = reason, !.thrown = thrown]
         IN  new \in F!Run /\ new.pc = "fail" /\ new.s = k.s
  BY DEF F!Run

\* A step that leaves the worker idle.
LEMMA SettlerEnds ==
  ASSUME F!TypeOK, SettlersAreRight, NEW w \in Worker, settler' = [settler EXCEPT ![w] = F!Idle],
         UNCHANGED << checkout, campaign >>
  PROVE  settler' \in [Worker -> F!Run] /\ SettlersAreRight'
  BY SettlerStep, IdleSettler

\* A step from one statement of a settlement to another.
LEMMA SettlerGoes ==
  ASSUME F!TypeOK, SettlersAreRight, NEW w \in Worker,
         NEW pc \in {"verify", "claim", "hold", "recheck", "consume"}, F!GoTo(w, pc),
         settler[w].pc \notin {"idle", "quote"},
         \A s \in Session : checkout[s] = "paid" => checkout'[s] = "paid",
         campaign \in {"funded", "completed"} => campaign' \in {"funded", "completed"},
         pc # "verify" => checkout'[settler[w].s] = "paid",
         pc = "consume" => campaign' \in {"funded", "completed"}
  PROVE  settler' \in [Worker -> F!Run] /\ SettlersAreRight'
<1>1. settler[w] \in F!Run /\ settler[w].s \in Session
  BY DEF F!TypeOK, SettlersAreRight
<1>2. settler' = [settler EXCEPT ![w] = [settler[w] EXCEPT !.pc = pc]]
  BY DEF F!GoTo, F!TypeOK
<1> QED
  BY <1>1, <1>2, MovedSettler, SettlerStep

\* A step that gives up.
LEMMA SettlerFails ==
  ASSUME F!TypeOK, SettlersAreRight, NEW w \in Worker, NEW reason \in F!Reason,
         NEW thrown \in BOOLEAN,
         settler' = [settler EXCEPT ![w] = [settler[w] EXCEPT !.pc = "fail", !.reason = reason,
                                                  !.thrown = thrown]],
         settler[w].pc \notin {"idle", "quote"},
         \A s \in Session : checkout[s] = "paid" => checkout'[s] = "paid",
         campaign \in {"funded", "completed"} => campaign' \in {"funded", "completed"}
  PROVE  settler' \in [Worker -> F!Run] /\ SettlersAreRight'
<1>1. settler[w] \in F!Run /\ settler[w].s \in Session
  BY DEF F!TypeOK, SettlersAreRight
<1> DEFINE new == [settler[w] EXCEPT !.pc = "fail", !.reason = reason, !.thrown = thrown]
<1>2. new \in F!Run /\ new.pc = "fail" /\ new.s = settler[w].s
  BY <1>1, FailedSettler
<1> QED
  BY <1>1, <1>2, SettlerStep

\* The worker's own record when the reason alone is set.
LEMMA FailWithSettler ==
  ASSUME F!TypeOK, NEW w \in Worker, NEW reason \in F!Reason, F!FailWith(w, reason)
  PROVE  settler' = [settler EXCEPT ![w] = [settler[w] EXCEPT !.pc = "fail", !.reason = reason,
                                                  !.thrown = settler[w].thrown]]
  BY DEF F!FailWith, F!TypeOK, F!Run

\* Every step keeps the invariant: one step of the proof per action.
LEMMA NextFunding == FundingInv /\ [F!Next]_F!vars => FundingInv'
<1> SUFFICES ASSUME FundingInv, [F!Next]_F!vars PROVE FundingInv'
  OBVIOUS
<1> USE NoSessionIsNothing DEF FundingInv
<1>1. CASE UNCHANGED F!vars
  BY <1>1 DEF F!vars, F!TypeOK, SettlersAreRight, F!ValueOnlyForPaidCharges,
              F!ConsumedMeansFunded, F!OneOpenSession
<1>2. ASSUME NEW d \in Deal, F!AcceptOffer(d) PROVE FundingInv'
  BY <1>2 DEF F!AcceptOffer, F!TypeOK, SettlersAreRight, F!ValueOnlyForPaidCharges,
              F!ConsumedMeansFunded, F!OneOpenSession
<1>3. ASSUME F!CancelCampaign \/ F!CompleteCampaign PROVE FundingInv'
  BY <1>3 DEF F!CancelCampaign, F!CompleteCampaign, F!TypeOK, SettlersAreRight,
              F!ValueOnlyForPaidCharges, F!ConsumedMeansFunded, F!OneOpenSession
<1>4. ASSUME F!FundDirectly PROVE FundingInv'
  BY <1>4 DEF F!FundDirectly, F!HoldAccepted, F!Fundable, F!TypeOK, SettlersAreRight,
         F!ValueOnlyForPaidCharges, F!ConsumedMeansFunded, F!OneOpenSession
<1>5. ASSUME NEW s \in Session, NEW verdict \in F!Verdict, F!Charged(s, verdict)
      PROVE  FundingInv'
  <2>1. \A t \in Session : checkout[t] = "paid" => checkout'[t] = "paid"
    BY <1>5 DEF F!Charged, F!TypeOK
  <2>2. F!TypeOK'
    BY <1>5 DEF F!Charged, F!TypeOK, F!Verdict, F!ChargeStatus
  <2> QED
    BY <1>5, <2>1, <2>2 DEF F!Charged, SettlersAreRight, F!ValueOnlyForPaidCharges,
                            F!ConsumedMeansFunded, F!OneOpenSession
<1>6. ASSUME NEW s \in Session, F!ExpireSession(s) PROVE FundingInv'
  <2>1. F!TypeOK'
    BY <1>6 DEF F!ExpireSession, F!TypeOK, F!Row, F!SessionStatus
  <2> QED
    BY <1>6, <2>1 DEF F!ExpireSession, F!TypeOK, F!Row, SettlersAreRight,
                      F!ValueOnlyForPaidCharges, F!ConsumedMeansFunded, F!OneOpenSession
<1>7. ASSUME NEW w \in Worker, NEW new \in F!Run, settler' = [settler EXCEPT ![w] = new],
             UNCHANGED << campaign, accepted, held, heldFor, session, checkout >>,
             owed' \in SUBSET owed,
             new.pc \notin {"idle", "quote"} => new.s \in Session,
             new.pc \in {"claim", "hold", "recheck", "consume"} => checkout[new.s] = "paid",
             new.pc = "consume" => campaign \in {"funded", "completed"}
      PROVE  FundingInv'
  <2>1. settler' \in [Worker -> F!Run] /\ SettlersAreRight'
    BY <1>7, SettlerStep
  <2> QED
    BY <1>7, <2>1 DEF F!TypeOK, F!ValueOnlyForPaidCharges, F!ConsumedMeansFunded,
                      F!OneOpenSession
<1>8. ASSUME NEW w \in Worker, settler' = [settler EXCEPT ![w] = F!Idle],
             UNCHANGED << campaign, accepted, held, heldFor, session, checkout >>,
             owed' \in SUBSET owed
      PROVE  FundingInv'
  BY <1>7, <1>8, IdleSettler
<1>9. ASSUME NEW w \in Worker, F!CheckCampaign(w) PROVE FundingInv'
  <2>1. [F!Idle EXCEPT !.pc = "quote"] \in F!Run /\ [F!Idle EXCEPT !.pc = "quote"].pc = "quote"
    BY IdleSettler DEF F!Run, F!Idle
  <2> QED
    BY <1>7, <1>9, <2>1 DEF F!CheckCampaign
<1>10. ASSUME NEW w \in Worker, NEW s \in Session, F!Quote(w, s) PROVE FundingInv'
  <2> DEFINE new == [F!Idle EXCEPT !.pc = "insert", !.s = s, !.quoted = F!Fundable]
  <2>1. new \in F!Run /\ new.pc = "insert" /\ new.s = s
    BY DEF F!Run, F!Idle, F!Reason, F!Fundable, F!TypeOK
  <2>2. \A t \in Session : checkout[t] = "paid" => checkout'[t] = "paid"
    BY <1>10 DEF F!Quote, F!TypeOK
  <2>3. settler' \in [Worker -> F!Run] /\ SettlersAreRight'
    BY <1>10, <2>1, <2>2, SettlerStep DEF F!Quote
  <2>4. checkout' \in [Session -> F!ChargeStatus]
    BY <1>10 DEF F!Quote, F!TypeOK, F!ChargeStatus
  <2> QED
    BY <1>10, <2>2, <2>3, <2>4
       DEF F!Quote, F!TypeOK, F!ValueOnlyForPaidCharges, F!ConsumedMeansFunded, F!OneOpenSession
<1>11. ASSUME NEW w \in Worker, F!QuoteFails(w) \/ F!VerifyPending(w) \/ F!Crash(w)
       PROVE  FundingInv'
  BY <1>8, <1>11 DEF F!QuoteFails, F!VerifyPending, F!Crash
<1>12. ASSUME NEW w \in Worker, F!InsertSession(w) PROVE FundingInv'
  <2>1. settler' \in [Worker -> F!Run] /\ SettlersAreRight'
    BY <1>12, SettlerEnds DEF F!InsertSession
  <2>2. settler[w].quoted \in SUBSET Deal
    BY DEF F!TypeOK, F!Run
  <2> DEFINE opened == [F!NoRow EXCEPT !.status = "initialized", !.quoted = settler[w].quoted]
  <2>3. opened \in F!Row /\ opened.status = "initialized"
    BY <2>2 DEF F!Row, F!NoRow, F!SessionStatus, F!Reason
  <2>4. \A s \in Session : session'[s] = session[s] \/ (session'[s] = opened /\ s = settler[w].s /\ F!NoneOpen)
    BY <1>12 DEF F!InsertSession, F!MayInsert
  <2>5. session' \in [Session -> F!Row]
    BY <1>12, <2>3 DEF F!InsertSession, F!TypeOK
  <2>6. F!OneOpenSession'
    BY <2>3, <2>4 DEF F!OneOpenSession, F!NoneOpen
  <2>7. F!ValueOnlyForPaidCharges' /\ F!ConsumedMeansFunded'
    BY <1>12, <2>3, <2>4 DEF F!InsertSession, F!ValueOnlyForPaidCharges, F!ConsumedMeansFunded
  <2> QED
    BY <1>12, <2>1, <2>5, <2>6, <2>7 DEF F!InsertSession, F!TypeOK
<1>13. ASSUME NEW w \in Worker, NEW s \in Session, F!OpenReturnPage(w, s) PROVE FundingInv'
  <2> DEFINE new == [F!Idle EXCEPT !.pc = "begun", !.s = s, !.by = "page"]
  <2>1. new \in F!Run /\ new.pc = "begun" /\ new.s = s
    BY DEF F!Run, F!Idle, F!Reason
  <2> QED
    BY <1>7, <1>13, <2>1 DEF F!OpenReturnPage
<1>14. ASSUME NEW w \in Worker, NEW s \in Session, NEW verdict \in F!Verdict,
              F!DeliverWebhook(w, s, verdict)
       PROVE  FundingInv'
  <2> DEFINE new == [F!Idle EXCEPT !.pc = "begun", !.s = s, !.by = verdict]
  <2>1. new \in F!Run /\ new.pc = "begun" /\ new.s = s
    BY DEF F!Run, F!Idle, F!Reason
  <2> QED
    BY <1>7, <1>14, <2>1 DEF F!DeliverWebhook
<1>15. ASSUME NEW w \in Worker, NEW pc \in {"verify", "claim", "hold", "recheck", "consume"},
              F!GoTo(w, pc), settler[w].pc \notin {"idle", "quote"},
              UNCHANGED << campaign, accepted, held, heldFor, session, checkout >>,
              pc # "verify" => checkout[settler[w].s] = "paid",
              pc = "consume" => campaign \in {"funded", "completed"}
       PROVE  FundingInv'
  <2>1. settler' \in [Worker -> F!Run] /\ SettlersAreRight'
    BY <1>15, SettlerGoes
  <2> QED
    BY <1>15, <2>1 DEF F!GoTo, F!TypeOK, F!ValueOnlyForPaidCharges, F!ConsumedMeansFunded,
                       F!OneOpenSession
<1>16. ASSUME NEW w \in Worker, NEW reason \in F!Reason, F!FailWith(w, reason),
              settler[w].pc \notin {"idle", "quote"},
              UNCHANGED << campaign, accepted, held, heldFor, session, checkout >>
       PROVE  FundingInv'
  <2>1. settler[w].thrown \in BOOLEAN
    BY DEF F!TypeOK, F!Run
  <2>2. settler' \in [Worker -> F!Run] /\ SettlersAreRight'
    BY <1>16, <2>1, SettlerFails, FailWithSettler
  <2> QED
    BY <1>16, <2>2 DEF F!FailWith, F!TypeOK, F!ValueOnlyForPaidCharges, F!ConsumedMeansFunded,
                       F!OneOpenSession
<1>17. ASSUME NEW w \in Worker, F!ReadSession(w) PROVE FundingInv'
  BY <1>8, <1>15, <1>17 DEF F!ReadSession, F!Answer
<1>18. ASSUME NEW w \in Worker, F!Verify(w) PROVE FundingInv'
  BY <1>15, <1>16, <1>18 DEF F!Verify, F!IsChargeOfSession, F!Reason
<1>19. ASSUME NEW w \in Worker, F!ClaimSession(w) PROVE FundingInv'
  <2>1. settler[w].s \in Session /\ checkout[settler[w].s] = "paid"
    BY <1>19 DEF F!ClaimSession, SettlersAreRight
  <2>2. settler' \in [Worker -> F!Run] /\ SettlersAreRight'
    BY <1>19, <2>1, SettlerGoes, SettlerEnds DEF F!ClaimSession, F!Answer
  <2>3. /\ session' \in [Session -> F!Row]
        /\ \A s \in Session : \/ session'[s] = session[s]
                              \/ s = settler[w].s /\ session'[s].status = "verified"
    BY <1>19, <2>1 DEF F!ClaimSession, F!TypeOK, F!Row, F!SessionStatus, F!Reason
  <2>4. owed' \in SUBSET owed
    BY <1>19 DEF F!ClaimSession, F!GoTo, F!Answer
  <2>5. F!ValueOnlyForPaidCharges' /\ F!ConsumedMeansFunded' /\ F!OneOpenSession'
    BY <1>19, <2>1, <2>3
       DEF F!ClaimSession, F!ValueOnlyForPaidCharges, F!ConsumedMeansFunded, F!OneOpenSession
  <2> QED
    BY <1>19, <2>2, <2>3, <2>4, <2>5 DEF F!ClaimSession, F!TypeOK
<1>20. ASSUME NEW w \in Worker, F!Hold(w) PROVE FundingInv'
  <2>1. settler[w].s \in Session /\ checkout[settler[w].s] = "paid"
    BY <1>20 DEF F!Hold, SettlersAreRight
  <2>2. settler' \in [Worker -> F!Run] /\ SettlersAreRight'
    BY <1>20, <2>1, SettlerGoes DEF F!Hold, F!HoldAccepted
  <2>3. F!TypeOK'
    BY <1>20, <2>1, <2>2 DEF F!Hold, F!HoldAccepted, F!GoTo, F!Fundable, F!TypeOK
  <2> QED
    BY <1>20, <2>1, <2>2, <2>3
       DEF F!Hold, F!HoldAccepted, F!ValueOnlyForPaidCharges, F!ConsumedMeansFunded,
           F!OneOpenSession
<1>21. ASSUME NEW w \in Worker, F!HoldRefused(w) PROVE FundingInv'
  <2>1. checkout[settler[w].s] = "paid"
    BY <1>21 DEF F!HoldRefused, SettlersAreRight
  <2> QED
    BY <1>15, <1>16, <1>21, <2>1 DEF F!HoldRefused, F!Reason
<1>22. ASSUME NEW w \in Worker, F!HoldBreaks(w) PROVE FundingInv'
  <2>1. settler[w].s \in Session /\ checkout[settler[w].s] = "paid"
    BY <1>22 DEF F!HoldBreaks, SettlersAreRight
  <2>2. campaign \in {"funded", "completed"} => campaign' \in {"funded", "completed"}
    BY <1>22 DEF F!HoldBreaks, F!HoldAccepted
  <2>3. PICK thrown \in BOOLEAN :
          settler' = [settler EXCEPT ![w].pc = "fail", ![w].reason = "hold", ![w].thrown = thrown]
    BY <1>22 DEF F!HoldBreaks
  <2>4. settler' = [settler EXCEPT ![w] = [settler[w] EXCEPT !.pc = "fail", !.reason = "hold",
                                                 !.thrown = thrown]]
    BY <2>3 DEF F!TypeOK
  <2>5. settler' \in [Worker -> F!Run] /\ SettlersAreRight'
    BY <1>22, <2>2, <2>4, SettlerFails DEF F!HoldBreaks, F!Reason
  <2>6. F!TypeOK'
    BY <1>22, <2>1, <2>5 DEF F!HoldBreaks, F!HoldAccepted, F!Fundable, F!TypeOK
  <2> QED
    BY <1>22, <2>1, <2>5, <2>6
       DEF F!HoldBreaks, F!HoldAccepted, F!ValueOnlyForPaidCharges, F!ConsumedMeansFunded,
           F!OneOpenSession
<1>23. ASSUME NEW w \in Worker, F!Recheck(w) PROVE FundingInv'
  <2>1. checkout[settler[w].s] = "paid"
    BY <1>23 DEF F!Recheck, SettlersAreRight
  <2> QED
    BY <1>15, <1>16, <1>23, <2>1 DEF F!Recheck, F!FundedMeanwhile, F!Reason
<1>24. ASSUME NEW w \in Worker, F!MarkConsumed(w) PROVE FundingInv'
  <2>1. /\ settler[w].s \in Session /\ checkout[settler[w].s] = "paid"
        /\ campaign \in {"funded", "completed"}
    BY <1>24 DEF F!MarkConsumed, SettlersAreRight
  <2>2. settler' \in [Worker -> F!Run] /\ SettlersAreRight'
    BY <1>24, SettlerEnds DEF F!MarkConsumed, F!Answer
  <2>3. /\ session' \in [Session -> F!Row]
        /\ \A s \in Session : \/ session'[s] = session[s]
                              \/ s = settler[w].s /\ session'[s].status = "consumed"
    BY <1>24, <2>1 DEF F!MarkConsumed, F!TypeOK, F!Row, F!SessionStatus
  <2>4. F!ValueOnlyForPaidCharges' /\ F!ConsumedMeansFunded' /\ F!OneOpenSession'
    BY <1>24, <2>1, <2>3
       DEF F!MarkConsumed, F!ValueOnlyForPaidCharges, F!ConsumedMeansFunded, F!OneOpenSession
  <2> QED
    BY <1>24, <2>2, <2>3, <2>4 DEF F!MarkConsumed, F!Answer, F!TypeOK
<1>25. ASSUME NEW w \in Worker, F!MarkFailed(w) PROVE FundingInv'
  <2>1. settler[w].s \in Session /\ settler[w].reason \in F!Reason
    BY <1>25 DEF F!MarkFailed, SettlersAreRight, F!TypeOK, F!Run
  <2>2. settler' = [settler EXCEPT ![w] = F!Idle] /\ owed' \in SUBSET owed
    BY <1>25 DEF F!MarkFailed, F!Answer
  <2>3. settler' \in [Worker -> F!Run] /\ SettlersAreRight'
    BY <1>25, <2>2, SettlerEnds DEF F!MarkFailed
  <2>4. /\ session' \in [Session -> F!Row]
        /\ \A s \in Session : \/ session'[s] = session[s]
                              \/ s = settler[w].s /\ session'[s].status = "failed"
    BY <1>25, <2>1 DEF F!MarkFailed, F!TypeOK, F!Row, F!SessionStatus
  <2>5. F!ValueOnlyForPaidCharges' /\ F!ConsumedMeansFunded' /\ F!OneOpenSession'
    BY <1>25, <2>1, <2>4
       DEF F!MarkFailed, F!ValueOnlyForPaidCharges, F!ConsumedMeansFunded, F!OneOpenSession
  <2> QED
    BY <1>25, <2>2, <2>3, <2>4, <2>5 DEF F!MarkFailed, F!TypeOK
<1> QED
  BY <1>1, <1>2, <1>3, <1>4, <1>5, <1>6, <1>9, <1>10, <1>11, <1>12, <1>13, <1>14,
     <1>17, <1>18, <1>19, <1>20, <1>21, <1>22, <1>23, <1>24, <1>25
     DEF F!Next, F!Create, F!Settle

\* Every reachable state of the funding flow satisfies the invariant.
LEMMA FundingHolds == F!Spec => []FundingInv
  BY InitFunding, NextFunding, PTL DEF F!Spec

\* No session is claimed or consumed, and no escrow held for it, unless the gateway
\* confirmed its charge, however many settlers run with however old answers.
THEOREM OnlyPaidChargesCount == F!Spec => []F!ValueOnlyForPaidCharges
  BY FundingHolds, PTL DEF FundingInv

\* A consumed session's campaign is in escrow, even when the settler that says so
\* lost the race for the hold.
THEOREM ConsumedIsInEscrow == F!Spec => []F!ConsumedMeansFunded
  BY FundingHolds, PTL DEF FundingInv

\* Both together: the sessions tell the money.
THEOREM SessionsAreRight == F!Spec => []SessionsTellTheMoney
<1>1. FundingInv => SessionsTellTheMoney
  BY DEF FundingInv, SessionsTellTheMoney, F!SessionsTellTheMoney
<1> QED
  BY FundingHolds, <1>1, PTL

\* One checkout at most is on offer.
THEOREM OneCheckoutOnOffer == F!Spec => []OneOpenSession
  BY FundingHolds, PTL DEF FundingInv, OneOpenSession
=============================================================================
