------------------------ MODULE DeliveryDeadlineProofs ------------------------
(***************************************************************************)
(* The properties of DeliveryDeadline for any number of requests, any      *)
(* windows and any difference between the servers' clocks.                 *)
(***************************************************************************)
EXTENDS DeliveryDeadline, FiniteSetTheorems, TLAPS

\* Before funding there is no date, no delivery and no request.
NothingAgreedYet ==
  deal.status = "accepted" =>
    /\ deal.due = NoTime /\ deal.original = NoTime /\ deal.firstDelivered = NoTime
    /\ \A x \in Extension : request[x] = NoRow

\* A funded deal is undelivered, and the date of a delivered one is frozen.
DeliveryIsDated ==
  /\ deal.status = "funded" => deal.firstDelivered = NoTime
  /\ deal.firstDelivered # NoTime => deal.dueAtFirst = deal.due
  /\ deal.status # "accepted" =>
       /\ (deal.due = NoTime) = (deal.window = NoTime)
       /\ (deal.original = NoTime) = (deal.window = NoTime)

\* A row that is not empty says who asked for which date, when.
RequestsAreComplete ==
  \A x \in Extension : request[x].status # "none" =>
    /\ request[x].proposer \in Party
    /\ request[x].previous \in Nat /\ request[x].proposed \in Nat
    /\ request[x].proposedAt \in Time
    /\ request[x].previous < request[x].proposed

OpenRequestIsOne ==
  /\ \A x, y \in Pending : x = y
  /\ \A x \in Pending : Active /\ request[x].previous = deal.due

\* An accepted extension replaced a date before the one in force.
AcceptedIsPast ==
  \A x \in Accepted :
    /\ deal.due \in Nat
    /\ request[x].previous < deal.due
    /\ request[x].decider = Other(request[x].proposer)
    /\ request[x].decidedAt \in Time

Chain ==
  /\ deal.due # NoTime =>
       { deal.original } \cup { request[x].proposed : x \in Accepted }
         = { deal.due } \cup { request[x].previous : x \in Accepted }
  /\ \A x, y \in Accepted : x # y => request[x].previous # request[y].previous

MissedIsRecorded ==
  deal.missed = (\E x \in Accepted : request[x].decidedAt > request[x].previous)

DeadlineInv ==
  /\ TypeOK
  /\ NothingAgreedYet
  /\ DeliveryIsDated
  /\ RequestsAreComplete
  /\ OpenRequestIsOne
  /\ AcceptedIsPast
  /\ Chain
  /\ MissedIsRecorded

LEMMA ClockIsTime == ASSUME NEW t \in Clock PROVE t \in Time
  BY DEF Clock

LEMMA ChainStays ==
  ASSUME Chain, deal'.due = deal.due, deal'.original = deal.original, Accepted' = Accepted,
         \A x \in Accepted : request'[x] = request[x]
  PROVE  Chain'
  <1>1. { request'[x].proposed : x \in Accepted' } = { request[x].proposed : x \in Accepted }
    OBVIOUS
  <1>2. { request'[x].previous : x \in Accepted' } = { request[x].previous : x \in Accepted }
    OBVIOUS
  <1>3. \A x, y \in Accepted' : x # y => request'[x].previous # request'[y].previous
    BY DEF Chain
  <1> QED
    BY <1>1, <1>2, <1>3 DEF Chain

\* A decision moves one request out of the open ones, and into the accepted ones when it
\* is an acceptance.
LEMMA DecideMoves ==
  ASSUME TypeOK, NEW x \in Extension, NEW party \in Party, NEW decision \in Decision,
         NEW t \in Clock, Decide(x, party, decision, t)
  PROVE  /\ Pending' = Pending \ {x}
         /\ Accepted' = IF decision = "accepted" THEN Accepted \cup {x} ELSE Accepted
         /\ x \notin Accepted
         /\ request'[x] = [request[x] EXCEPT !.status = decision, !.decider = party,
                                             !.decidedAt = t]
         /\ \A y \in Extension : y # x => request'[y] = request[y]
  <1> USE DEF TypeOK
  <1>1. request \in [Extension -> Row] /\ x \in Pending
    BY DEF Decide
  <1>2. request[x] \in Row /\ request[x].status = "pending"
    BY <1>1 DEF Pending
  <1>3. request'[x] = [request[x] EXCEPT !.status = decision, !.decider = party, !.decidedAt = t]
    BY <1>1, <1>2 DEF Decide, Row
  <1>4. \A y \in Extension : y # x => request'[y] = request[y]
    BY <1>1 DEF Decide
  <1>5. request'[x].status = decision /\ decision # "pending"
    BY <1>2, <1>3 DEF Row, Decision
  <1>6. Pending' = Pending \ {x}
    BY <1>4, <1>5 DEF Pending
  <1>7. Accepted' = IF decision = "accepted" THEN Accepted \cup {x} ELSE Accepted
    BY <1>2, <1>4, <1>5 DEF Accepted
  <1> QED
    BY <1>2, <1>3, <1>4, <1>6, <1>7 DEF Accepted

\* Closing empties the open requests and leaves the others as they are.
LEMMA CloseEmpties ==
  ASSUME TypeOK, NEW t \in Clock, Close(t)
  PROVE  /\ Pending' = {} /\ Accepted' = Accepted
         /\ \A x \in Extension :
              request'[x] = IF x \in Pending
                            THEN [request[x] EXCEPT !.status = "closed", !.decidedAt = t]
                            ELSE request[x]
  <1>1. \A x \in Extension : request'[x] = IF x \in Pending
                            THEN [request[x] EXCEPT !.status = "closed", !.decidedAt = t]
                            ELSE request[x]
    BY DEF Close
  <1>2. \A x \in Extension : request[x] \in Row
    BY DEF TypeOK
  <1>3. \A x \in Extension :
          request'[x].status = IF x \in Pending THEN "closed" ELSE request[x].status
    BY <1>1, <1>2 DEF Row
  <1> QED
    BY <1>1, <1>3 DEF Pending, Accepted

LEMMA InitInv == Init => DeadlineInv
  <1> SUFFICES ASSUME Init PROVE DeadlineInv
    OBVIOUS
  <1>1. \A x \in Extension : request[x] = NoRow
    BY DEF Init
  <1>2. Pending = {} /\ Accepted = {}
    BY <1>1 DEF Pending, Accepted, NoRow
  <1>3. PICK w \in Windows :
          deal = [status |-> "accepted", window |-> w, fundedAt |-> NoTime, original |-> NoTime,
                  due |-> NoTime, firstDelivered |-> NoTime, dueAtFirst |-> NoTime,
                  missed |-> FALSE]
    BY DEF Init
  <1>4. TypeOK
    BY <1>1, <1>3, TimesAreNatural DEF Init, TypeOK, Time, Deal, Statuses, Row, RequestStatus, NoRow
  <1> QED
    BY <1>1, <1>2, <1>3, <1>4
       DEF DeadlineInv, NothingAgreedYet, DeliveryIsDated, RequestsAreComplete, OpenRequestIsOne,
           AcceptedIsPast, Chain, MissedIsRecorded, NoRow

LEMMA FundKeepsInv ==
  ASSUME DeadlineInv, NEW t \in Clock, Fund(t) PROVE DeadlineInv'
  <1> DEFINE d == IF deal.window = NoTime THEN NoTime ELSE t + deal.window
  <1>1. /\ deal \in Deal /\ now \in Time /\ request \in [Extension -> Row]
        /\ deal.status = "accepted" /\ request' = request /\ now' = now
    BY DEF DeadlineInv, TypeOK, Fund, Deal, Statuses, CanTransition, LegalTransitions
  <1>2. deal' = [deal EXCEPT !.status = "funded", !.fundedAt = t, !.original = d, !.due = d]
    BY DEF Fund
  <1>3. t \in Time /\ t \in Nat
    BY ClockIsTime, TimesAreNatural DEF Time
  <1>4. d \in Nat \cup {NoTime} /\ (d = NoTime) = (deal.window = NoTime)
    <2>1. deal.window = NoTime \/ deal.window \in Nat
      BY <1>1, WindowsArePositive DEF Deal
    <2>2. CASE deal.window = NoTime
      BY <2>2
    <2>3. CASE deal.window \in Nat
      <3>1. deal.window # NoTime /\ t + deal.window \in Nat
        BY <1>3, <2>3, NoTimeIsNoTime
      <3> QED
        BY <3>1, NoTimeIsNoTime
    <2> QED
      BY <2>1, <2>2, <2>3
  <1> HIDE DEF d
  <1>5. /\ deal'.status = "funded" /\ deal'.window = deal.window /\ deal'.original = d
        /\ deal'.due = d /\ deal'.firstDelivered = NoTime /\ deal'.missed = deal.missed
        /\ deal' \in Deal
    BY <1>1, <1>2, <1>3, <1>4 DEF Deal, Statuses, DeadlineInv, NothingAgreedYet
  <1>6. \A x \in Extension : request[x] = NoRow
    BY <1>1 DEF DeadlineInv, NothingAgreedYet
  <1>7. Pending' = {} /\ Accepted' = {} /\ Accepted = {}
    BY <1>1, <1>6 DEF Pending, Accepted, NoRow
  <1>8. ~deal.missed
    BY <1>7 DEF DeadlineInv, MissedIsRecorded
  <1>9. TypeOK'
    BY <1>1, <1>4, <1>5, <1>6, NoTimeIsNoTime DEF TypeOK, NoRow
  <1> QED
    BY <1>1, <1>4, <1>5, <1>6, <1>7, <1>8, <1>9
       DEF DeadlineInv, NothingAgreedYet, DeliveryIsDated, RequestsAreComplete, OpenRequestIsOne,
           AcceptedIsPast, Chain, MissedIsRecorded, NoRow

LEMMA ProposeKeepsInv ==
  ASSUME DeadlineInv, NEW x \in Extension, NEW party \in Party, NEW proposed \in Time,
         NEW t \in Clock, Propose(x, party, proposed, t)
  PROVE  DeadlineInv'
  <1> DEFINE new == [NoRow EXCEPT !.status = "pending", !.proposer = party,
                                  !.previous = deal.due, !.proposed = proposed, !.proposedAt = t]
  <1>1. /\ deal \in Deal /\ now \in Time /\ request \in [Extension -> Row]
        /\ request' = [request EXCEPT ![x] = new] /\ deal' = deal /\ now' = now
        /\ request[x] = NoRow /\ Active /\ Pending = {} /\ proposed > deal.due
    BY DEF DeadlineInv, TypeOK, Propose, IsLater
  <1>2. deal.due \in Nat /\ deal.due # NoTime /\ proposed \in Nat /\ t \in Time /\ party \in Party
    BY <1>1, ClockIsTime, TimesAreNatural DEF Active, Deal, Time
  <1>3. /\ new \in Row /\ new.status = "pending" /\ new.previous = deal.due
        /\ new.proposer = party /\ new.proposed = proposed /\ new.proposedAt = t
        /\ new.decidedAt = NoTime
    BY <1>2 DEF Row, NoRow, RequestStatus, Time
  <1> HIDE DEF new
  <1>4. request'[x] = new /\ \A y \in Extension : y # x => request'[y] = request[y]
    BY <1>1
  <1>5. Pending' = {x} /\ Accepted' = Accepted /\ x \notin Accepted
    BY <1>1, <1>3, <1>4 DEF Pending, Accepted, NoRow
  <1>6. \A y \in Accepted : request'[y] = request[y]
    BY <1>4, <1>5 DEF Accepted
  <1>7. TypeOK'
    <2>1. request' \in [Extension -> Row]
      BY <1>1, <1>3
    <2>2. \A y \in Extension :
            (request'[y].decidedAt = NoTime) = (request'[y].status \in {"none", "pending"})
      BY <1>3, <1>4 DEF DeadlineInv, TypeOK
    <2> QED
      BY <1>1, <2>1, <2>2 DEF DeadlineInv, TypeOK
  <1>8. NothingAgreedYet' /\ DeliveryIsDated'
    BY <1>1 DEF DeadlineInv, NothingAgreedYet, DeliveryIsDated, Active
  <1>9. RequestsAreComplete'
    BY <1>1, <1>2, <1>3, <1>4 DEF DeadlineInv, RequestsAreComplete
  <1>10. OpenRequestIsOne'
    BY <1>1, <1>3, <1>4, <1>5 DEF OpenRequestIsOne, Active
  <1>11. AcceptedIsPast'
    BY <1>1, <1>5, <1>6 DEF DeadlineInv, AcceptedIsPast
  <1>12. Chain'
    BY <1>1, <1>5, <1>6, ChainStays DEF DeadlineInv
  <1>13. MissedIsRecorded'
    BY <1>1, <1>5, <1>6 DEF DeadlineInv, MissedIsRecorded
  <1> QED
    BY <1>7, <1>8, <1>9, <1>10, <1>11, <1>12, <1>13 DEF DeadlineInv

LEMMA DecideKeepsInv ==
  ASSUME DeadlineInv, NEW x \in Extension, NEW party \in Party, NEW decision \in Decision,
         NEW t \in Clock, Decide(x, party, decision, t)
  PROVE  DeadlineInv'
  <1> DEFINE accepts == decision = "accepted"
  <1>1. /\ deal \in Deal /\ now \in Time /\ request \in [Extension -> Row] /\ now' = now
        /\ x \in Pending /\ Active /\ request[x].previous = deal.due
        /\ MayDecide(x, party, decision)
    BY DEF DeadlineInv, TypeOK, Decide
  <1>2. /\ Pending' = Pending \ {x}
        /\ Accepted' = IF accepts THEN Accepted \cup {x} ELSE Accepted
        /\ x \notin Accepted
        /\ request'[x] = [request[x] EXCEPT !.status = decision, !.decider = party,
                                            !.decidedAt = t]
        /\ \A y \in Extension : y # x => request'[y] = request[y]
    BY DecideMoves DEF DeadlineInv
  <1>3. t \in Time /\ t \in Nat /\ t # NoTime
    BY ClockIsTime, TimesAreNatural, NoTimeIsNoTime DEF Time
  <1>4. request[x] \in Row /\ request[x].status = "pending"
    BY <1>1 DEF Pending
  <1>5. /\ request'[x].status = decision /\ request'[x].decider = party
        /\ request'[x].decidedAt = t /\ request'[x].previous = request[x].previous
        /\ request'[x].proposed = request[x].proposed
        /\ request'[x].proposer = request[x].proposer
        /\ request'[x].proposedAt = request[x].proposedAt
        /\ request'[x] \in Row
    BY <1>2, <1>3, <1>4 DEF Row, Decision, RequestStatus
  <1>6. /\ request[x].proposer \in Party /\ request[x].previous \in Nat
        /\ request[x].proposed \in Nat /\ request[x].previous < request[x].proposed
    BY <1>1, <1>4 DEF DeadlineInv, RequestsAreComplete, Pending
  <1>7. Pending' = {}
    BY <1>1, <1>2 DEF DeadlineInv, OpenRequestIsOne
  <1>8. /\ deal.due = request[x].previous /\ deal.due \in Nat /\ deal.due # NoTime
        /\ deal.missed \in BOOLEAN
    BY <1>1, <1>6, NoTimeIsNoTime DEF Deal
  <1>9. CASE accepts
    <2>1. /\ deal' = [deal EXCEPT !.due = request[x].proposed, !.missed = MissedBy(t)]
          /\ Accepted' = Accepted \cup {x}
      BY <1>2, <1>9 DEF Decide
    <2>2. /\ deal'.due = request[x].proposed /\ deal'.missed = (deal.missed \/ t > deal.due)
          /\ deal'.original = deal.original /\ deal'.status = deal.status
          /\ deal'.firstDelivered = deal.firstDelivered /\ deal'.window = deal.window
          /\ deal' \in Deal
      BY <1>1, <1>6, <1>8, <2>1 DEF Deal, MissedBy
    <2>3. \A y \in Accepted : request'[y] = request[y] /\ y # x
      BY <1>2 DEF Accepted
    <2>4. TypeOK'
      <3>1. request' \in [Extension -> Row]
        BY <1>1, <1>5 DEF Decide
      <3>2. \A y \in Extension :
              (request'[y].decidedAt = NoTime) = (request'[y].status \in {"none", "pending"})
        <4>1. request'[x].decidedAt # NoTime /\ request'[x].status \notin {"none", "pending"}
          BY <1>3, <1>5 DEF Decision
        <4>2. \A y \in Extension : y # x =>
                (request'[y].decidedAt = NoTime) = (request'[y].status \in {"none", "pending"})
          BY <1>2 DEF DeadlineInv, TypeOK
        <4> QED
          BY <4>1, <4>2
      <3>3. deal.original \in Nat /\ deal.due >= deal.original
        BY <1>1, <1>8, NoTimeIsNoTime DEF DeadlineInv, TypeOK, DeliveryIsDated, Active, Deal
      <3> QED
        BY <1>1, <1>6, <1>8, <2>2, <3>1, <3>2, <3>3 DEF TypeOK
    <2>5. NothingAgreedYet' /\ DeliveryIsDated'
      BY <1>1, <1>6, <1>8, <2>2, NoTimeIsNoTime DEF DeadlineInv, NothingAgreedYet, DeliveryIsDated, Active
    <2>6. RequestsAreComplete'
      BY <1>2, <1>4, <1>5, <1>6 DEF DeadlineInv, RequestsAreComplete
    <2>7. OpenRequestIsOne'
      BY <1>7 DEF OpenRequestIsOne
    <2>8. AcceptedIsPast'
      <3>1. request'[x].decider = Other(request'[x].proposer)
        BY <1>1, <1>5, <1>6, <1>9 DEF MayDecide, Other, Party
      <3>2. \A y \in Accepted : request[y].previous \in Nat
        BY DEF DeadlineInv, RequestsAreComplete, Accepted
      <3> QED
        BY <1>3, <1>5, <1>6, <1>8, <2>1, <2>2, <2>3, <3>1, <3>2 DEF DeadlineInv, AcceptedIsPast
    <2>9. Chain'
      <3>1. { request'[y].proposed : y \in Accepted' }
              = { request[y].proposed : y \in Accepted } \cup { deal'.due }
        BY <1>5, <2>1, <2>2, <2>3
      <3>2. { request'[y].previous : y \in Accepted' }
              = { request[y].previous : y \in Accepted } \cup { deal.due }
        BY <1>5, <1>8, <2>1, <2>3
      <3>3. \A y \in Accepted : request[y].previous # deal.due
        <4> SUFFICES ASSUME NEW y \in Accepted PROVE request[y].previous # deal.due
          OBVIOUS
        <4>1. request[y].previous \in Nat /\ request[y].previous < deal.due
          BY DEF DeadlineInv, AcceptedIsPast, RequestsAreComplete, Accepted
        <4> QED
          BY <1>8, <4>1
      <3>4. { deal'.original } \cup { request'[y].proposed : y \in Accepted' }
              = { deal'.due } \cup { request'[y].previous : y \in Accepted' }
        <4> DEFINE P == { request[y].proposed : y \in Accepted }
                   Q == { request[y].previous : y \in Accepted }
        <4>1. { deal.original } \cup P = { deal.due } \cup Q
          BY <1>8 DEF DeadlineInv, Chain
        <4>2. deal'.original = deal.original
          BY <2>2
        <4> HIDE DEF P, Q
        <4>3. { deal.original } \cup (P \cup { deal'.due }) = { deal'.due } \cup (Q \cup { deal.due })
          BY <4>1
        <4> QED
          BY <3>1, <3>2, <4>2, <4>3 DEF P, Q
      <3>5. \A y, z \in Accepted' : y # z => request'[y].previous # request'[z].previous
        BY <1>5, <1>8, <2>1, <2>3, <3>3 DEF DeadlineInv, Chain
      <3> QED
        BY <3>4, <3>5 DEF Chain
    <2>10. MissedIsRecorded'
      <3>1. (\E y \in Accepted' : request'[y].decidedAt > request'[y].previous)
              = ((\E y \in Accepted : request[y].decidedAt > request[y].previous) \/ t > deal.due)
        BY <1>5, <1>8, <2>1, <2>3
      <3> QED
        BY <2>2, <3>1 DEF DeadlineInv, MissedIsRecorded
    <2> QED
      BY <2>4, <2>5, <2>6, <2>7, <2>8, <2>9, <2>10 DEF DeadlineInv
  <1>10. CASE ~accepts
    <2>1. deal' = deal /\ Accepted' = Accepted
      BY <1>2, <1>10 DEF Decide
    <2>2. \A y \in Accepted : request'[y] = request[y]
      BY <1>2 DEF Accepted
    <2>3. TypeOK'
      <3>1. request' \in [Extension -> Row]
        BY <1>1, <1>5 DEF Decide
      <3>2. \A y \in Extension :
              (request'[y].decidedAt = NoTime) = (request'[y].status \in {"none", "pending"})
        <4>1. request'[x].decidedAt # NoTime /\ request'[x].status \notin {"none", "pending"}
          BY <1>3, <1>5 DEF Decision
        <4>2. \A y \in Extension : y # x =>
                (request'[y].decidedAt = NoTime) = (request'[y].status \in {"none", "pending"})
          BY <1>2 DEF DeadlineInv, TypeOK
        <4> QED
          BY <4>1, <4>2
      <3> QED
        BY <1>1, <2>1, <3>1, <3>2 DEF DeadlineInv, TypeOK
    <2>4. NothingAgreedYet' /\ DeliveryIsDated'
      BY <1>1, <2>1 DEF DeadlineInv, NothingAgreedYet, DeliveryIsDated, Active
    <2>5. RequestsAreComplete'
      BY <1>2, <1>4, <1>5, <1>6 DEF DeadlineInv, RequestsAreComplete
    <2>6. OpenRequestIsOne'
      BY <1>7 DEF OpenRequestIsOne
    <2>7. AcceptedIsPast' /\ Chain' /\ MissedIsRecorded'
      <3>1. AcceptedIsPast'
        BY <2>1, <2>2 DEF DeadlineInv, AcceptedIsPast
      <3>2. Chain'
        BY <2>1, <2>2, ChainStays DEF DeadlineInv
      <3>3. MissedIsRecorded'
        BY <2>1, <2>2 DEF DeadlineInv, MissedIsRecorded
      <3> QED
        BY <3>1, <3>2, <3>3
    <2> QED
      BY <2>3, <2>4, <2>5, <2>6, <2>7 DEF DeadlineInv
  <1> QED
    BY <1>9, <1>10

\* A delivery or a refund that closes the open requests, from any status they start in.
LEMMA ClosingKeepsInv ==
  ASSUME DeadlineInv, NEW t \in Clock, Close(t), UNCHANGED now,
         NEW s \in {"delivered", "refunded"}, deal.status # "accepted",
         \/ deal' = [deal EXCEPT !.status = s]
         \/ deal' = [deal EXCEPT !.status = s, !.firstDelivered = t, !.dueAtFirst = deal.due]
  PROVE  DeadlineInv'
  <1>1. /\ deal \in Deal /\ now \in Time /\ request \in [Extension -> Row] /\ now' = now
        /\ t \in Time /\ t # NoTime
    BY ClockIsTime, TimesAreNatural, NoTimeIsNoTime DEF DeadlineInv, TypeOK, Time
  <1>2. /\ Pending' = {} /\ Accepted' = Accepted
        /\ \A x \in Extension :
             request'[x] = IF x \in Pending
                           THEN [request[x] EXCEPT !.status = "closed", !.decidedAt = t]
                           ELSE request[x]
    BY CloseEmpties DEF DeadlineInv
  <1>3. /\ deal'.status = s /\ deal'.window = deal.window /\ deal'.original = deal.original
        /\ deal'.due = deal.due /\ deal'.missed = deal.missed /\ deal' \in Deal
        /\ deal'.firstDelivered # NoTime => deal'.dueAtFirst = deal'.due
    <2>1. CASE deal' = [deal EXCEPT !.status = s]
      BY <1>1, <2>1 DEF Deal, Statuses, DeadlineInv, DeliveryIsDated
    <2>2. CASE deal' = [deal EXCEPT !.status = s, !.firstDelivered = t, !.dueAtFirst = deal.due]
      BY <1>1, <2>2 DEF Deal, Statuses
    <2> QED
      BY <2>1, <2>2
  <1>4. \A x \in Extension : request[x] \in Row
    BY <1>1
  <1>5. \A x \in Pending :
          /\ request'[x] \in Row /\ request'[x].status = "closed" /\ request'[x].decidedAt = t
          /\ request'[x].proposer = request[x].proposer
          /\ request'[x].previous = request[x].previous
          /\ request'[x].proposed = request[x].proposed
          /\ request'[x].proposedAt = request[x].proposedAt
          /\ request[x].status # "none"
    <2> SUFFICES ASSUME NEW x \in Pending
                 PROVE  /\ request'[x] \in Row /\ request'[x].status = "closed"
                        /\ request'[x].decidedAt = t
                        /\ request'[x].proposer = request[x].proposer
                        /\ request'[x].previous = request[x].previous
                        /\ request'[x].proposed = request[x].proposed
                        /\ request'[x].proposedAt = request[x].proposedAt
                        /\ request[x].status # "none"
      OBVIOUS
    <2>1. x \in Extension /\ request[x] \in Row /\ request[x].status = "pending"
      BY <1>4 DEF Pending
    <2>2. request'[x] = [request[x] EXCEPT !.status = "closed", !.decidedAt = t]
      BY <1>2, <2>1
    <2> QED
      BY <1>1, <2>1, <2>2 DEF Row, RequestStatus
  <1>6. \A x \in Accepted : request'[x] = request[x]
    BY <1>2 DEF Accepted, Pending
  <1>7. TypeOK'
    <2>1. request' \in [Extension -> Row]
      <3>1. \A x \in Extension : request'[x] \in Row
        BY <1>2, <1>4, <1>5
      <3> QED
        BY <3>1 DEF Close
    <2>2. \A x \in Extension :
            (request'[x].decidedAt = NoTime) = (request'[x].status \in {"none", "pending"})
      <3>1. \A x \in Pending :
              request'[x].decidedAt # NoTime /\ request'[x].status \notin {"none", "pending"}
        BY <1>1, <1>5
      <3>2. \A x \in Extension : x \notin Pending =>
              (request'[x].decidedAt = NoTime) = (request'[x].status \in {"none", "pending"})
        BY <1>2 DEF DeadlineInv, TypeOK
      <3> QED
        BY <3>1, <3>2
    <2> QED
      BY <1>1, <1>3, <2>1, <2>2 DEF DeadlineInv, TypeOK
  <1>8. NothingAgreedYet' /\ DeliveryIsDated'
    BY <1>3 DEF DeadlineInv, NothingAgreedYet, DeliveryIsDated
  <1>9. RequestsAreComplete'
    BY <1>2, <1>5 DEF DeadlineInv, RequestsAreComplete
  <1>10. OpenRequestIsOne'
    BY <1>2 DEF OpenRequestIsOne
  <1>11. AcceptedIsPast'
    BY <1>2, <1>3, <1>6 DEF DeadlineInv, AcceptedIsPast
  <1>12. Chain'
    BY <1>2, <1>3, <1>6, ChainStays DEF DeadlineInv
  <1>13. MissedIsRecorded'
    BY <1>2, <1>3, <1>6 DEF DeadlineInv, MissedIsRecorded
  <1> QED
    BY <1>7, <1>8, <1>9, <1>10, <1>11, <1>12, <1>13 DEF DeadlineInv

\* Review and a later delivery change the status of a deal without open requests.
LEMMA StatusKeepsInv ==
  ASSUME DeadlineInv, UNCHANGED << now, request >>,
         NEW s \in {"delivered", "revision_requested", "completed"},
         deal.status \in {"delivered", "revision_requested"},
         deal' = [deal EXCEPT !.status = s]
  PROVE  DeadlineInv'
  <1>1. deal \in Deal
    BY DEF DeadlineInv, TypeOK
  <1>2. /\ deal'.status = s /\ deal'.window = deal.window /\ deal'.original = deal.original
        /\ deal'.due = deal.due /\ deal'.missed = deal.missed /\ deal' \in Deal
        /\ deal'.firstDelivered = deal.firstDelivered /\ deal'.dueAtFirst = deal.dueAtFirst
    BY <1>1 DEF Deal, Statuses
  <1>3. Pending = {} /\ Pending' = {} /\ Accepted' = Accepted
    BY DEF DeadlineInv, OpenRequestIsOne, Active, Pending, Accepted
  <1>4. TypeOK'
    BY <1>2 DEF DeadlineInv, TypeOK
  <1>5. NothingAgreedYet' /\ DeliveryIsDated'
    BY <1>2 DEF DeadlineInv, NothingAgreedYet, DeliveryIsDated
  <1>6. RequestsAreComplete' /\ OpenRequestIsOne'
    BY <1>3 DEF DeadlineInv, RequestsAreComplete, OpenRequestIsOne
  <1>7. AcceptedIsPast'
    BY <1>2, <1>3 DEF DeadlineInv, AcceptedIsPast
  <1>8. Chain'
    BY <1>2, <1>3, ChainStays DEF DeadlineInv
  <1>9. MissedIsRecorded'
    BY <1>2, <1>3 DEF DeadlineInv, MissedIsRecorded
  <1> QED
    BY <1>4, <1>5, <1>6, <1>7, <1>8, <1>9 DEF DeadlineInv

LEMMA NextInv == DeadlineInv /\ [Next]_vars => DeadlineInv'
  <1> SUFFICES ASSUME DeadlineInv, [Next]_vars PROVE DeadlineInv'
    OBVIOUS
  <1>0. deal \in Deal
    BY DEF DeadlineInv, TypeOK
  <1>1. CASE Tick
    <2>1. now' \in Time
      BY <1>1, TimesAreNatural DEF Tick, DeadlineInv, TypeOK, Time
    <2>2. Pending' = Pending /\ Accepted' = Accepted
      BY <1>1 DEF Tick, Pending, Accepted
    <2>3. TypeOK' /\ NothingAgreedYet' /\ DeliveryIsDated' /\ RequestsAreComplete'
      BY <1>1, <2>1 DEF Tick, DeadlineInv, TypeOK, NothingAgreedYet, DeliveryIsDated,
                        RequestsAreComplete
    <2>4. OpenRequestIsOne' /\ AcceptedIsPast'
      BY <1>1, <2>2 DEF Tick, DeadlineInv, OpenRequestIsOne, AcceptedIsPast, Active
    <2>5. Chain'
      BY <1>1, <2>2, ChainStays DEF Tick, DeadlineInv
    <2>6. MissedIsRecorded'
      BY <1>1, <2>2 DEF Tick, DeadlineInv, MissedIsRecorded
    <2> QED
      BY <2>3, <2>4, <2>5, <2>6 DEF DeadlineInv
  <1>2. ASSUME NEW t \in Clock, Fund(t) PROVE DeadlineInv'
    BY <1>2, FundKeepsInv
  <1>3. ASSUME NEW t \in Clock, Deliver(t) PROVE DeadlineInv'
    <2>1. CASE IsFirstDelivery
      <3>1. /\ deal' = [deal EXCEPT !.status = "delivered", !.firstDelivered = t,
                                    !.dueAtFirst = deal.due]
            /\ Close(t) /\ UNCHANGED now /\ deal.status # "accepted"
        BY <1>3, <2>1 DEF Deliver, IsFirstDelivery
      <3> QED
        BY <3>1, ClosingKeepsInv
    <2>2. CASE ~IsFirstDelivery
      <3>1. /\ deal' = [deal EXCEPT !.status = "delivered"]
            /\ UNCHANGED << now, request >> /\ deal.status \in {"funded", "revision_requested"}
        BY <1>0, <1>3, <2>2 DEF Deliver, CanTransition, LegalTransitions, Deal, Statuses
      <3>2. deal.status = "revision_requested"
        BY <2>2, <3>1 DEF IsFirstDelivery, DeadlineInv, DeliveryIsDated
      <3> QED
        BY <3>1, <3>2, StatusKeepsInv
    <2> QED
      BY <2>1, <2>2
  <1>4. ASSUME NEW t \in Clock, Refund(t) PROVE DeadlineInv'
    <2>1. /\ deal' = [deal EXCEPT !.status = "refunded"] /\ Close(t) /\ UNCHANGED now
          /\ deal.status # "accepted"
      BY <1>0, <1>4 DEF Refund, CanTransition, LegalTransitions, Deal, Statuses
    <2> QED
      BY <2>1, ClosingKeepsInv
  <1>5. ASSUME NEW x \in Extension, NEW party \in Party, NEW proposed \in Time, NEW t \in Clock,
               Propose(x, party, proposed, t)
        PROVE  DeadlineInv'
    BY <1>5, ProposeKeepsInv
  <1>6. ASSUME NEW x \in Extension, NEW party \in Party, NEW decision \in Decision,
               NEW t \in Clock, Decide(x, party, decision, t)
        PROVE  DeadlineInv'
    BY <1>6, DecideKeepsInv
  <1>7. ASSUME NEW verdict \in {"revision_requested", "completed"}, Review(verdict)
        PROVE  DeadlineInv'
    <2>1. /\ deal' = [deal EXCEPT !.status = verdict] /\ UNCHANGED << now, request >>
          /\ deal.status \in {"delivered", "revision_requested"}
      BY <1>0, <1>7 DEF Review, CanTransition, LegalTransitions, Deal, Statuses
    <2> QED
      BY <2>1, StatusKeepsInv
  <1>8. CASE UNCHANGED vars
    <2>1. now' = now /\ deal' = deal /\ request' = request
      BY <1>8 DEF vars
    <2>2. Pending' = Pending /\ Accepted' = Accepted
      BY <2>1 DEF Pending, Accepted
    <2>3. TypeOK' /\ NothingAgreedYet' /\ DeliveryIsDated' /\ RequestsAreComplete'
      BY <2>1 DEF DeadlineInv, TypeOK, NothingAgreedYet, DeliveryIsDated, RequestsAreComplete
    <2>4. OpenRequestIsOne' /\ AcceptedIsPast'
      BY <2>1, <2>2 DEF DeadlineInv, OpenRequestIsOne, AcceptedIsPast, Active
    <2>5. Chain'
      BY <2>1, <2>2, ChainStays DEF DeadlineInv
    <2>6. MissedIsRecorded'
      BY <2>1, <2>2 DEF DeadlineInv, MissedIsRecorded
    <2> QED
      BY <2>3, <2>4, <2>5, <2>6 DEF DeadlineInv
  <1> QED
    BY <1>1, <1>2, <1>3, <1>4, <1>5, <1>6, <1>7, <1>8 DEF Next

LEMMA SpecInv == Spec => []DeadlineInv
  BY InitInv, NextInv, PTL DEF Spec

----------------------------------------------------------------------------
\* Every reachable row of the deal and of its requests is well typed and passes the CHECKs.
THEOREM DeadlineTypeCorrect == Spec => []TypeOK
  <1>1. DeadlineInv => TypeOK
    BY DEF DeadlineInv
  <1> QED
    BY <1>1, SpecInv, PTL

\* No extension is left open behind a delivery or a refund, and no two are open at once.
THEOREM RequestsStayCurrent == Spec => []OpenRequestsAreCurrent
  <1>1. DeadlineInv => OpenRequestsAreCurrent
    <2> SUFFICES ASSUME DeadlineInv PROVE OpenRequestsAreCurrent
      OBVIOUS
    <2>1. \A x, y \in Pending : x = y
      BY DEF DeadlineInv, OpenRequestIsOne
    <2>2. CASE Pending = {}
      BY <2>2, FS_EmptySet DEF OpenRequestsAreCurrent
    <2>3. CASE Pending # {}
      <3>1. PICK x \in Pending : Pending = {x}
        BY <2>1, <2>3
      <3>2. Cardinality(Pending) = 1
        BY <3>1, FS_Singleton
      <3> QED
        BY <3>2 DEF DeadlineInv, OpenRequestIsOne, OpenRequestsAreCurrent
    <2> QED
      BY <2>2, <2>3
  <1> QED
    BY <1>1, SpecInv, PTL

\* The date in force is the outcome of agreements of both parties, in an unbroken chain.
THEOREM DateIsAgreed == Spec => []TheDateWasAgreed
  <1>1. DeadlineInv => TheDateWasAgreed
    BY DEF DeadlineInv, Chain, AcceptedIsPast, TheDateWasAgreed
  <1> QED
    BY <1>1, SpecInv, PTL

\* A delivery is on time exactly when no date in force ever passed, for any extensions.
THEOREM PunctualityIsTrue == Spec => []PunctualityTellsTheHistory
  <1>1. DeadlineInv => PunctualityTellsTheHistory
    <2> SUFFICES ASSUME DeadlineInv, deal.firstDelivered # NoTime, deal.window # NoTime,
                        NEW t \in Clock
                 PROVE  (Punctuality(t) = "on_time") = (\A c \in Commitments : c[2] <= c[1])
      BY DEF PunctualityTellsTheHistory
    <2>1. /\ deal \in Deal /\ deal.status # "accepted" /\ deal.dueAtFirst = deal.due
          /\ deal.due # NoTime
      BY DEF DeadlineInv, TypeOK, NothingAgreedYet, DeliveryIsDated
    <2>2. /\ deal.firstDelivered \in Time /\ deal.dueAtFirst \in Nat /\ deal.missed \in BOOLEAN
          /\ deal.dueAtFirst # NoTime
      BY <2>1 DEF Deal
    <2>3. (Punctuality(t) = "on_time")
            = (~(deal.firstDelivered > deal.dueAtFirst) /\ ~deal.missed)
      BY <2>2 DEF Punctuality
    <2>4. \A x \in Accepted : request[x].decidedAt \in Int /\ request[x].previous \in Int
      BY TimesAreNatural DEF DeadlineInv, AcceptedIsPast, RequestsAreComplete, Accepted, Time
    <2>5. (\A c \in Commitments : c[2] <= c[1])
            = (/\ deal.firstDelivered <= deal.dueAtFirst
               /\ \A x \in Accepted : request[x].decidedAt <= request[x].previous)
      <3>1. Commitments = { << request[x].previous, request[x].decidedAt >> : x \in Accepted }
                             \cup { << deal.dueAtFirst, deal.firstDelivered >> }
        BY DEF Commitments
      <3>2. ASSUME \A c \in Commitments : c[2] <= c[1]
            PROVE  /\ deal.firstDelivered <= deal.dueAtFirst
                   /\ \A x \in Accepted : request[x].decidedAt <= request[x].previous
        <4>1. << deal.dueAtFirst, deal.firstDelivered >> \in Commitments
          BY <3>1
        <4>2. \A x \in Accepted : << request[x].previous, request[x].decidedAt >> \in Commitments
          BY <3>1
        <4> QED
          BY <3>2, <4>1, <4>2
      <3>3. ASSUME /\ deal.firstDelivered <= deal.dueAtFirst
                   /\ \A x \in Accepted : request[x].decidedAt <= request[x].previous
            PROVE  \A c \in Commitments : c[2] <= c[1]
        BY <3>1, <3>3
      <3> QED
        BY <3>2, <3>3
    <2>6. deal.missed = ~(\A x \in Accepted : request[x].decidedAt <= request[x].previous)
      <3>1. \A x \in Accepted : (request[x].decidedAt > request[x].previous)
                                  = ~(request[x].decidedAt <= request[x].previous)
        BY <2>4
      <3>2. (\E x \in Accepted : request[x].decidedAt > request[x].previous)
              = ~(\A x \in Accepted : request[x].decidedAt <= request[x].previous)
        BY <3>1, Zenon
      <3> QED
        BY <2>2, <3>2 DEF DeadlineInv, MissedIsRecorded
    <2>7. (deal.firstDelivered > deal.dueAtFirst) = ~(deal.firstDelivered <= deal.dueAtFirst)
      BY <2>2, TimesAreNatural DEF Time
    <2> QED
      BY <2>3, <2>5, <2>6, <2>7
  <1> QED
    BY <1>1, SpecInv, PTL

\* Whatever happens after the first delivery, its date and its verdict stay.
THEOREM FrozenByDelivery == Spec => DeliveryFreezes
  <1>1. DeadlineInv /\ [Next]_vars =>
          [deal.firstDelivered # NoTime =>
             /\ deal'.firstDelivered = deal.firstDelivered
             /\ deal'.dueAtFirst = deal.dueAtFirst /\ deal'.due = deal.due
             /\ deal'.missed = deal.missed]_vars
    <2> SUFFICES ASSUME DeadlineInv, Next, deal.firstDelivered # NoTime
                 PROVE  /\ deal'.firstDelivered = deal.firstDelivered
                        /\ deal'.dueAtFirst = deal.dueAtFirst /\ deal'.due = deal.due
                        /\ deal'.missed = deal.missed
      OBVIOUS
    <2>1. deal \in Deal /\ deal.status # "accepted" /\ deal.status # "funded"
      BY DEF DeadlineInv, TypeOK, NothingAgreedYet, DeliveryIsDated
    <2>2. deal' = deal \/ \E s \in Statuses : deal' = [deal EXCEPT !.status = s]
      BY <2>1 DEF Next, Tick, Fund, Deliver, Refund, Propose, Decide, Review, Active,
                  IsFirstDelivery, CanTransition, LegalTransitions, Statuses
    <2> QED
      BY <2>1, <2>2 DEF Deal
  <1> QED
    BY <1>1, SpecInv, PTL DEF Spec, DeliveryFreezes
=============================================================================
