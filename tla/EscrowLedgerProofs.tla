------------------------- MODULE EscrowLedgerProofs -------------------------
(***************************************************************************)
(* The money path, for any deals, campaigns, workers, references and       *)
(* number of retries.  First the ground: the split of a price; type        *)
(* correctness, whose only arithmetic is that neither leg of a payout is   *)
(* negative and no leg overdraws its hold; what each step does to the      *)
(* calls, field by field; that calls stay in shape and row locks           *)
(* exclusive.  Then that EscrowInvariant's IInv is inductive, conjunct by  *)
(* conjunct, and what follows from it: the ledger of every deal is the one *)
(* its status owes, what it calls settled the provider settled, a          *)
(* campaign's status tells its money, no retry strands a hold, the whole   *)
(* money path implements EscrowPromise, and the pages of MoneyScreens      *)
(* agree.                                                                  *)
(***************************************************************************)
EXTENDS EscrowRefinement, MoneyScreens, SumFacts, TLAPS

----------------------------------------------------------------------------
\* CommissionSplit

\* The two legs of any deal add up to its price exactly, and neither is negative,
\* whatever the rounding of computeSplit does.
THEOREM SplitIsExact ==
  ASSUME NEW total \in Nat, NEW rateBp \in 0..FullRateBp
  PROVE  /\ Commission(total, rateBp) \in 0..total
         /\ Payout(total, rateBp) \in 0..total
         /\ Commission(total, rateBp) + Payout(total, rateBp) = total
<1>1. PICK k \in Nat : k = total * rateBp /\ k <= total * 10000
  BY SMT DEF FullRateBp
<1>2. (2 * k + 10000) \div 20000 \in 0..total
  BY <1>1, SMT
<1>3. Commission(total, rateBp) = (2 * k + 10000) \div 20000
  BY <1>1, SMT DEF Commission, FullRateBp
<1> QED
  BY <1>2, <1>3, SMT DEF Payout

----------------------------------------------------------------------------
\* TypeOK

\* The amounts of a deal are what SplitIsExact says of its price and rate.
LEMMA SplitInRange ==
  ASSUME NEW d \in Deal
  PROVE  /\ Price[d] \in Nat /\ Price[d] > 0
         /\ CommissionOf(d) \in 0..Price[d]
         /\ PayoutOf(d) \in 0..Price[d]
         /\ PayoutOf(d) + CommissionOf(d) = Price[d]
<1>1. Price[d] \in Nat /\ Price[d] > 0 /\ RateBp[d] \in 0..FullRateBp
  BY PricesArePositive, RatesAreFractions
<1> QED
  BY <1>1, SplitIsExact DEF CommissionOf, PayoutOf

\* The records a call passes through have the type Call.
LEMMA IdleIsCall == Idle \in Call
  BY RetriesAreBounded DEF Idle, Call, NoHolds

\* Counting rows stays within the natural numbers.
LEMMA AddRowsType ==
  ASSUME NEW counts \in [EntryType -> Nat], NEW types
  PROVE  AddRows(counts, types) \in [EntryType -> Nat]
  BY DEF AddRows

\* The initial state has the types of TypeOK.
LEMMA InitTypeOK == Init => TypeOK
  BY IdleIsCall DEF Init, TypeOK, DealStatus, CampaignStatus, NoRows, NoHolds,
     HoldRecord, Unminted

\* A call that moves on to another record of type Call keeps the variable's type.
LEMMA CallUpdate ==
  ASSUME TypeOK, NEW w \in Worker, NEW new \in Call,
         call' = [call EXCEPT ![w] = new]
  PROVE  call' \in [Worker -> Call]
  BY DEF TypeOK

\* What a worker is doing is a record of type Call.
LEMMA CallHasType == ASSUME TypeOK, NEW w \in Worker PROVE call[w] \in Call
  BY DEF TypeOK

\* Recording a provider leg keeps a call's record within its type.
LEMMA LegUpdate ==
  ASSUME TypeOK, NEW w \in Worker, NEW leg \in Leg
  PROVE  [call EXCEPT ![w].legs = @ \cup {leg}] \in [Worker -> Call]
<1>1. [call[w] EXCEPT !.legs = @ \cup {leg}] \in Call
  BY CallHasType DEF Call
<1> QED
  BY <1>1 DEF TypeOK

\* No step, and no rollback in the middle of a call, leaves the types: one step of
\* the proof per action.
LEMMA NextTypeOK == TypeOK /\ [Next]_vars => TypeOK'
<1> SUFFICES ASSUME TypeOK, [Next]_vars PROVE TypeOK'
  OBVIOUS
<1> USE DEF books
<1>0. CASE UNCHANGED vars
  BY <1>0 DEF vars, TypeOK
<1>1. ASSUME NEW d \in Deal, NEW to \in DealStatus, MoveDeal(d, to) PROVE TypeOK'
  BY <1>1 DEF MoveDeal, TypeOK
<1>2. CASE \E d \in Deal : \/ AcceptOffer(d) \/ DeclineOffer(d) \/ ExpireOffer(d)
                           \/ SubmitDeliverable(d) \/ RequestRevision(d)
  BY <1>1, <1>2 DEF AcceptOffer, DeclineOffer, ExpireOffer, SubmitDeliverable,
     RequestRevision, DealStatus
<1>3. ASSUME NEW c \in Campaign, CancelCampaign(c) PROVE TypeOK'
  BY <1>3 DEF CancelCampaign, CampaignStatus, TypeOK
<1>4. ASSUME NEW w \in Worker, NEW c \in Campaign, BeginHold(w, c) PROVE TypeOK'
  <2>1. [Idle EXCEPT !.pc = "begun", !.op = "hold", !.camp = {c}] \in Call
    BY IdleIsCall DEF Call
  <2> QED
    BY <1>4, <2>1, CallUpdate DEF BeginHold, TypeOK
<1>5. ASSUME NEW w \in Worker, NEW d \in Deal, NEW op \in DealOp,
             BeginDealCall(w, d, op) PROVE TypeOK'
  <2>1. [Idle EXCEPT !.pc = "begun", !.op = op, !.deal = {d},
                     !.camp = {CampaignOf[d]}] \in Call
    BY IdleIsCall, DealsHaveCampaigns DEF Call
  <2> QED
    BY <1>5, <2>1, CallUpdate DEF BeginDealCall, TypeOK
<1>6. ASSUME NEW w \in Worker, TakeFirstLock(w) PROVE TypeOK'
  <2>1. PICK c \in call[w].camp :
          call' = [call EXCEPT ![w].pc = "locked", ![w].balance = escrowed[c]]
    BY <1>6 DEF TakeFirstLock
  <2>2. call[w] \in Call /\ c \in Campaign /\ escrowed[c] \in Int
    BY DEF TypeOK, Call
  <2>3. call' \in [Worker -> Call]
    BY <2>1, <2>2 DEF TypeOK, Call
  <2> QED
    BY <1>6, <2>3 DEF TakeFirstLock, TypeOK
<1>7. ASSUME NEW w \in Worker, SelectDeals(w) PROVE TypeOK'
  <2>1. PICK c \in call[w].camp :
          call' = [call EXCEPT ![w].pc     = "moving",
                               ![w].todo   = AcceptedDeals(c),
                               ![w].picked = AcceptedDeals(c)]
    BY <1>7 DEF SelectDeals
  <2>2. AcceptedDeals(c) \subseteq Deal
    BY DEF AcceptedDeals, DealsOf
  <2>3. [call[w] EXCEPT !.pc = "moving", !.todo = AcceptedDeals(c),
                        !.picked = AcceptedDeals(c)] \in Call
    BY <2>2, CallHasType DEF Call
  <2>4. call' \in [Worker -> Call]
    BY <2>1, <2>3 DEF TypeOK
  <2> QED
    BY <1>7, <2>4 DEF SelectDeals, TypeOK
<1>8. ASSUME NEW w \in Worker, LockCampaign(w) PROVE TypeOK'
  <2>1. call' = [call EXCEPT ![w].pc = "moving"]
    BY <1>8 DEF LockCampaign
  <2>2. [call[w] EXCEPT !.pc = "moving"] \in Call
    BY CallHasType DEF Call
  <2>3. call' \in [Worker -> Call]
    BY <2>1, <2>2 DEF TypeOK
  <2> QED
    BY <1>8, <2>3 DEF LockCampaign, TypeOK
<1>9. ASSUME NEW w \in Worker, Refuse(w) PROVE TypeOK'
  BY <1>9, IdleIsCall DEF Refuse, TypeOK
<1>10. ASSUME NEW w \in Worker, NEW d \in Deal, PlaceHold(w, d) PROVE TypeOK'
  <2>1. PICK r \in Ref :
          /\ \/ UNCHANGED provider
             \/ provider' = [provider EXCEPT
                               ![r] = [state |-> "held", remaining |-> Price[d]]]
          /\ call' = [call EXCEPT ![w] = Placed(@, d, r)]
    BY <1>10 DEF PlaceHold
  <2>2. /\ call[w].inserted + Price[d] \in Nat
        /\ call[w].todo \ {d} \in SUBSET Deal
        /\ [call[w].refs EXCEPT ![d] = r] \in [Deal -> Ref \cup {NoRef}]
    BY CallHasType, SplitInRange DEF Call
  <2>3. Placed(call[w], d, r) \in Call
    BY <2>2, CallHasType DEF Call, Placed
  <2>4. call' \in [Worker -> Call]
    BY <2>1, <2>3 DEF TypeOK
  <2>5. [state |-> "held", remaining |-> Price[d]] \in HoldRecord
    BY SplitInRange DEF HoldRecord
  <2>6. provider' \in [Ref -> HoldRecord]
    BY <2>1, <2>5 DEF TypeOK
  <2> QED
    BY <1>10, <2>4, <2>6 DEF PlaceHold, TypeOK
<1>11. ASSUME NEW w \in Worker, NEW d \in Deal, NEW leg \in Leg, NEW amount \in Int,
              Draw(w, d, leg, amount) PROVE TypeOK'
  <2>1. call' = [call EXCEPT ![w].legs = @ \cup {leg}]
    BY <1>11 DEF Draw
  <2>2. call' \in [Worker -> Call]
    BY <2>1, LegUpdate DEF TypeOK
  <2>3. CanDraw(holdRef[d], amount)
        /\ provider' = [provider EXCEPT ![holdRef[d]] = Drawn(@, amount)]
    BY <1>11 DEF Draw
  <2>4. CASE holdRef[d] \in Ref
    <3>1. Drawn(provider[holdRef[d]], amount) \in HoldRecord
      BY <2>3, <2>4 DEF CanDraw, Drawn, TypeOK, HoldRecord
    <3> QED
      BY <1>11, <2>2, <2>3, <3>1 DEF Draw, TypeOK
  <2>5. CASE holdRef[d] \notin Ref
    BY <1>11, <2>2, <2>3, <2>5 DEF Draw, TypeOK
  <2> QED
    BY <2>4, <2>5
<1>12. ASSUME NEW w \in Worker, NEW d \in Deal,
              CapturePayout(w, d) \/ CaptureCommission(w, d) PROVE TypeOK'
  BY <1>11, <1>12, SplitInRange DEF CapturePayout, CaptureCommission, Leg
<1>13. ASSUME NEW w \in Worker, NEW d \in Deal, ReleaseHold(w, d) PROVE TypeOK'
  <2>1. call' = [call EXCEPT ![w].legs = @ \cup {"release"}]
    BY <1>13 DEF ReleaseHold
  <2>2. call' \in [Worker -> Call]
    BY <2>1, LegUpdate DEF TypeOK, Leg
  <2> QED
    BY <1>13, <2>2 DEF ReleaseHold, TypeOK, HoldRecord
<1>14. ASSUME NEW w \in Worker, ProviderRefuses(w) PROVE TypeOK'
  BY <1>14, IdleIsCall DEF ProviderRefuses, TypeOK
<1>15. ASSUME NEW w \in Worker, NEW net \in Int, PostRows(w, net)
       PROVE  escrowed' \in [Campaign -> Int] /\ balanceAfter' \in [Campaign -> Int]
  BY <1>15 DEF PostRows, TypeOK, Call
<1>16. ASSUME NEW w \in Worker, CommitHold(w) PROVE TypeOK'
  <2>1. call' \in [Worker -> Call] /\ call[w].inserted \in Int
    BY <1>16, IdleIsCall DEF CommitHold, TypeOK, Call
  <2>2. escrowed' \in [Campaign -> Int] /\ balanceAfter' \in [Campaign -> Int]
    BY <1>15, <1>16, <2>1 DEF CommitHold
  <2>3. rows' \in [Deal -> [EntryType -> Nat]]
    BY <1>16, AddRowsType DEF CommitHold, TypeOK
  <2>4. dealStatus' \in [Deal -> DealStatus]
        /\ campaignStatus' \in [Campaign -> CampaignStatus]
    BY <1>16 DEF CommitHold, TypeOK, DealStatus, CampaignStatus
  <2>5. holdRef' \in [Deal -> Ref \cup {NoRef}]
    BY <1>16 DEF CommitHold, TypeOK, Call
  <2> QED
    BY <1>16, <2>1, <2>2, <2>3, <2>4, <2>5 DEF CommitHold, TypeOK
<1>17. ASSUME NEW w \in Worker, NEW d \in Deal, CommitPayout(w, d) PROVE TypeOK'
  <2>1. [Idle EXCEPT !.pc = "closing", !.camp = call[w].camp] \in Call
    BY IdleIsCall DEF Call, TypeOK
  <2>2. call' \in [Worker -> Call]
    BY <1>17, <2>1, IdleIsCall DEF CommitPayout, TypeOK
  <2>3. escrowed' \in [Campaign -> Int] /\ balanceAfter' \in [Campaign -> Int]
    BY <1>15, <1>17, SplitInRange DEF CommitPayout
  <2> QED
    BY <1>17, <2>2, <2>3, AddRowsType DEF CommitPayout, TypeOK, DealStatus
<1>18. ASSUME NEW w \in Worker, NEW d \in Deal, CommitRefund(w, d) PROVE TypeOK'
  <2>1. escrowed' \in [Campaign -> Int] /\ balanceAfter' \in [Campaign -> Int]
    BY <1>15, <1>18, SplitInRange DEF CommitRefund
  <2> QED
    BY <1>18, <2>1, IdleIsCall, AddRowsType DEF CommitRefund, TypeOK, DealStatus
<1>19. ASSUME NEW w \in Worker, CheckCompletion(w) PROVE TypeOK'
  <2>1. [call[w] EXCEPT !.pc = "closeWrite"] \in Call
    BY DEF Call, TypeOK
  <2> QED
    BY <1>19, <2>1, IdleIsCall DEF CheckCompletion, TypeOK
<1>20. ASSUME NEW w \in Worker, MarkCompleted(w) PROVE TypeOK'
  BY <1>20, IdleIsCall DEF MarkCompleted, CampaignStatus, TypeOK
<1>21. ASSUME NEW w \in Worker, SerializationFailure(w) PROVE TypeOK'
  <2>1. ASSUME call[w].tries < MaxRetries PROVE Again(call[w]) \in Call
    <3>1. /\ call[w].tries + 1 \in 0..MaxRetries
          /\ 0 \in Int /\ 0 \in Nat /\ {} \in SUBSET Deal
      BY <2>1, CallHasType, RetriesAreBounded DEF Call
    <3> QED
      BY <3>1, CallHasType DEF Call, Again
  <2>2. call' \in [Worker -> Call]
    BY <1>21, <2>1, IdleIsCall, CallUpdate DEF SerializationFailure
  <2> QED
    BY <1>21, <2>2 DEF SerializationFailure, TypeOK
<1>22. ASSUME NEW w \in Worker, Fault(w) PROVE TypeOK'
  BY <1>22, IdleIsCall DEF Fault, TypeOK
<1> QED
  BY <1>0, <1>2, <1>3, <1>4, <1>5, <1>6, <1>7, <1>8, <1>9, <1>10, <1>12, <1>13,
     <1>14, <1>16, <1>17, <1>18, <1>19, <1>20, <1>21, <1>22
     DEF Next, Endpoint, Begin, Lock, Progress

\* Every state the money path can be in is well typed: in particular no hold at the
\* provider is ever overdrawn, whatever calls died half-way through it.
THEOREM TypeCorrect == Spec => []TypeOK
  BY InitTypeOK, NextTypeOK, PTL DEF Spec

----------------------------------------------------------------------------
\* What each step does to the calls, field by field

OthersKeep(w) == \A v \in Worker : v # w => call'[v] = call[v]

\* The step keeps what the call is about and what its keys would replay.
SameErrand(w) ==
  /\ call'[w].op = call[w].op
  /\ call'[w].deal = call[w].deal
  /\ call'[w].camp = call[w].camp
  /\ call'[w].refs = call[w].refs
  /\ call'[w].legs = call[w].legs

Dropped(w) ==
  /\ OthersKeep(w)
  /\ call'[w] = Idle

\* The fields of the records the longer steps build.
LEMMA AgainFields ==
  ASSUME NEW k \in Call, NEW new, new = Again(k)
  PROVE  /\ new.pc = "begun"  /\ new.todo = {}     /\ new.picked = {}
         /\ new.op = k.op     /\ new.deal = k.deal /\ new.camp = k.camp
         /\ new.refs = k.refs /\ new.legs = k.legs
  BY DEF Call, Again

\* The fields of the record of a running call.
LEMMA CallDomain ==
  ASSUME TypeOK, NEW w \in Worker
  PROVE  DOMAIN call[w] = {"pc", "op", "deal", "camp", "balance", "inserted", "todo",
                           "picked", "refs", "legs", "tries"}
  BY CallHasType DEF Call

\* A funding call starts on one campaign.
LEMMA BeginHoldEffect ==
  ASSUME TypeOK, NEW w \in Worker, NEW c \in Campaign, BeginHold(w, c)
  PROVE  /\ OthersKeep(w)
         /\ call'[w] = [Idle EXCEPT !.pc = "begun", !.op = "hold", !.camp = {c}]
  BY DEF BeginHold, OthersKeep, TypeOK

\* A payout or a refund starts on one deal and its campaign.
LEMMA BeginDealCallEffect ==
  ASSUME TypeOK, NEW w \in Worker, NEW d \in Deal, NEW op \in DealOp,
         BeginDealCall(w, d, op)
  PROVE  /\ OthersKeep(w)
         /\ call'[w] = [Idle EXCEPT !.pc = "begun", !.op = op, !.deal = {d},
                                    !.camp = {CampaignOf[d]}]
  BY DEF BeginDealCall, OthersKeep, TypeOK

\* The first lock changes the program counter and the balance read.
LEMMA TakeFirstLockEffect ==
  ASSUME TypeOK, NEW w \in Worker, TakeFirstLock(w)
  PROVE  /\ OthersKeep(w)
         /\ SameErrand(w)
         /\ call[w].pc = "begun"
         /\ call'[w].pc = "locked"
         /\ call'[w].todo = call[w].todo
         /\ call'[w].picked = call[w].picked
<1>1. PICK c \in call[w].camp :
        call' = [call EXCEPT ![w] = [@ EXCEPT !.pc = "locked", !.balance = escrowed[c]]]
  BY DEF TakeFirstLock
<1>2. OthersKeep(w) /\ call'[w] = [call[w] EXCEPT !.pc = "locked", !.balance = escrowed[c]]
  BY <1>1 DEF OthersKeep, TypeOK
<1> QED
  BY <1>2, CallDomain DEF TakeFirstLock, SameErrand

\* The selection fills todo and picked with the accepted deals.
LEMMA SelectDealsEffect ==
  ASSUME TypeOK, NEW w \in Worker, SelectDeals(w)
  PROVE  /\ OthersKeep(w)
         /\ SameErrand(w)
         /\ call'[w].pc = "moving"
         /\ \E c \in call[w].camp : /\ Fundable(c)
                                    /\ \A d \in AcceptedDeals(c) : DealFree(d)
                                    /\ call'[w].todo = AcceptedDeals(c)
                                    /\ call'[w].picked = AcceptedDeals(c)
<1>1. PICK c \in call[w].camp :
        /\ Fundable(c)
        /\ \A d \in AcceptedDeals(c) : DealFree(d)
        /\ call' = [call EXCEPT ![w] = [@ EXCEPT !.pc = "moving",
                      !.todo = AcceptedDeals(c), !.picked = AcceptedDeals(c)]]
  BY DEF SelectDeals
<1>2. /\ OthersKeep(w)
      /\ call'[w] = [call[w] EXCEPT !.pc = "moving", !.todo = AcceptedDeals(c),
                                    !.picked = AcceptedDeals(c)]
  BY <1>1 DEF OthersKeep, TypeOK
<1>3. /\ SameErrand(w)
      /\ call'[w].pc = "moving"
      /\ call'[w].todo = AcceptedDeals(c) /\ call'[w].picked = AcceptedDeals(c)
  BY <1>2, CallHasType DEF SameErrand, Call
<1> QED
  BY <1>1, <1>2, <1>3

\* Taking the campaign's lock changes the program counter alone.
LEMMA LockCampaignEffect ==
  ASSUME TypeOK, NEW w \in Worker, LockCampaign(w)
  PROVE  /\ OthersKeep(w)
         /\ SameErrand(w)
         /\ call'[w].pc = "moving"
         /\ call'[w].todo = call[w].todo
         /\ call'[w].picked = call[w].picked
<1>1. call' = [call EXCEPT ![w] = [@ EXCEPT !.pc = "moving"]]
  BY DEF LockCampaign
<1>2. OthersKeep(w) /\ call'[w] = [call[w] EXCEPT !.pc = "moving"]
  BY <1>1 DEF OthersKeep, TypeOK
<1> QED
  BY <1>2, CallDomain DEF SameErrand

\* A placed hold is ticked off and its reference kept for replay.
LEMMA PlaceHoldEffect ==
  ASSUME TypeOK, NEW w \in Worker, NEW d \in Deal, PlaceHold(w, d)
  PROVE  /\ OthersKeep(w)
         /\ call'[w].pc = call[w].pc
         /\ call'[w].op = call[w].op
         /\ call'[w].deal = call[w].deal
         /\ call'[w].camp = call[w].camp
         /\ call'[w].legs = call[w].legs
         /\ call'[w].picked = call[w].picked
         /\ call'[w].todo = call[w].todo \ {d}
         /\ \E r \in Ref :
              /\ \/ call[w].refs[d] = r /\ UNCHANGED provider
                 \/ /\ call[w].refs[d] = NoRef
                    /\ provider[r].state = "none"
                    /\ provider' = [provider EXCEPT
                                     ![r] = [state |-> "held", remaining |-> Price[d]]]
              /\ call'[w].refs = [call[w].refs EXCEPT ![d] = r]
<1>1. PICK r \in Ref :
       /\ \/ call[w].refs[d] = r /\ UNCHANGED provider
          \/ /\ call[w].refs[d] = NoRef
             /\ provider[r].state = "none"
             /\ provider' = [provider EXCEPT
                               ![r] = [state |-> "held", remaining |-> Price[d]]]
       /\ call' = [call EXCEPT ![w] = Placed(@, d, r)]
  BY DEF PlaceHold
<1>2. /\ OthersKeep(w)
      /\ call'[w] = Placed(call[w], d, r)
  BY <1>1 DEF OthersKeep, TypeOK
<1>3. /\ call'[w].pc = call[w].pc     /\ call'[w].picked = call[w].picked
      /\ call'[w].op = call[w].op     /\ call'[w].deal = call[w].deal
      /\ call'[w].camp = call[w].camp /\ call'[w].legs = call[w].legs
      /\ call'[w].todo = call[w].todo \ {d}
      /\ call'[w].refs = [call[w].refs EXCEPT ![d] = r]
  BY <1>2, CallHasType DEF Call, Placed
<1> QED
  BY <1>1, <1>2, <1>3

\* CapturePayout, CaptureCommission and ReleaseHold.
LEMMA LegEffect ==
  ASSUME TypeOK, NEW w \in Worker, NEW leg \in Leg,
         call' = [call EXCEPT ![w].legs = @ \cup {leg}]
  PROVE  /\ OthersKeep(w)
         /\ call'[w].pc = call[w].pc
         /\ call'[w].op = call[w].op
         /\ call'[w].deal = call[w].deal
         /\ call'[w].camp = call[w].camp
         /\ call'[w].refs = call[w].refs
         /\ call'[w].picked = call[w].picked
         /\ call'[w].todo = call[w].todo
         /\ call'[w].legs = call[w].legs \cup {leg}
<1>1. OthersKeep(w) /\ call'[w] = [call[w] EXCEPT !.legs = @ \cup {leg}]
  BY DEF OthersKeep, TypeOK
<1> QED
  BY <1>1, CallDomain

\* A retry keeps the errand and the keys and forgets the rest.
LEMMA AgainEffect ==
  ASSUME TypeOK, NEW w \in Worker, call' = [call EXCEPT ![w] = Again(@)]
  PROVE  /\ OthersKeep(w)
         /\ SameErrand(w)
         /\ call'[w].pc = "begun"
         /\ call'[w].todo = {}
         /\ call'[w].picked = {}
<1>1. OthersKeep(w) /\ call'[w] = Again(call[w])
  BY DEF OthersKeep, TypeOK
<1> QED
  BY <1>1, CallHasType, AgainFields DEF SameErrand

\* A call that ends is idle and leaves every other call alone.
LEMMA DropEffect ==
  ASSUME TypeOK, NEW w \in Worker, call' = [call EXCEPT ![w] = Idle]
  PROVE  Dropped(w)
  BY DEF Dropped, OthersKeep, TypeOK

\* After an approval the same worker goes on to close the campaign.
LEMMA ClosingEffect ==
  ASSUME TypeOK, NEW w \in Worker,
         call' = [call EXCEPT ![w] = [Idle EXCEPT !.pc = "closing", !.camp = call[w].camp]]
  PROVE  /\ OthersKeep(w)
         /\ call'[w] = [Idle EXCEPT !.pc = "closing", !.camp = call[w].camp]
  BY DEF OthersKeep, TypeOK

\* The completion check either gives up or goes on to its update.
LEMMA CheckCompletionEffect ==
  ASSUME TypeOK, NEW w \in Worker, CheckCompletion(w)
  PROVE  \/ Dropped(w)
         \/ /\ OthersKeep(w)
            /\ SameErrand(w)
            /\ call'[w].pc = "closeWrite"
            /\ \A c \in call[w].camp : AllCompleted(c)
<1>1. CASE \A c \in call[w].camp : AllCompleted(c)
  <2>1. OthersKeep(w) /\ call'[w] = [call[w] EXCEPT !.pc = "closeWrite"]
    BY <1>1 DEF CheckCompletion, OthersKeep, TypeOK
  <2> QED
    BY <1>1, <2>1, CallDomain DEF SameErrand
<1>2. CASE ~(\A c \in call[w].camp : AllCompleted(c))
  BY <1>2 DEF CheckCompletion, Dropped, OthersKeep, TypeOK
<1> QED
  BY <1>1, <1>2

----------------------------------------------------------------------------
\* CallShape

\* The fields of the idle record.
LEMMA IdleFields ==
  /\ Idle.pc = "idle" /\ Idle.op = "none" /\ Idle.deal = {} /\ Idle.camp = {}
  /\ Idle.todo = {}   /\ Idle.picked = {} /\ Idle.legs = {} /\ Idle.refs = NoHolds
  BY DEF Idle

\* The operation of a call is one of the known ones.
LEMMA OpHasType ==
  ASSUME TypeOK, NEW w \in Worker PROVE call[w].op \in {"none", "hold"} \cup DealOp
  BY CallHasType DEF Call

\* Every step keeps a call's errand in shape: one deal and its campaign, or one
\* campaign, never a mixture.
LEMMA NextCallShape ==
  TypeOK /\ (\A w \in Worker : CallShape(w)) /\ [Next]_vars
    => \A w \in Worker : CallShape(w)'
<1> SUFFICES ASSUME TypeOK, \A w \in Worker : CallShape(w), [Next]_vars,
                    NEW u \in Worker
             PROVE  CallShape(u)'
  OBVIOUS
<1>a. ASSUME call'[u] = call[u] PROVE CallShape(u)'
  BY <1>a DEF CallShape, NoHolds
<1>b. ASSUME call'[u] = Idle PROVE CallShape(u)'
  BY <1>b, IdleFields DEF CallShape, DealOp
<1>0. CASE UNCHANGED vars
  BY <1>0, <1>a DEF vars
<1>1. CASE Endpoint
  BY <1>1, <1>a DEF Endpoint, MoveDeal, CancelCampaign, AcceptOffer, DeclineOffer,
     ExpireOffer, SubmitDeliverable, RequestRevision
<1>2. ASSUME NEW w \in Worker, NEW c \in Campaign, BeginHold(w, c) PROVE CallShape(u)'
  <2>1. CASE u = w
    <3>1. call'[u] = [Idle EXCEPT !.pc = "begun", !.op = "hold", !.camp = {c}]
      BY <1>2, <2>1, BeginHoldEffect
    <3>2. /\ call'[u].pc = "begun" /\ call'[u].op = "hold" /\ call'[u].deal = {}
          /\ call'[u].camp = {c} /\ call'[u].legs = {}
      BY <3>1 DEF Idle
    <3> QED
      BY <3>2 DEF CallShape, DealOp
  <2> QED
    BY <1>2, <2>1, <1>a, BeginHoldEffect DEF OthersKeep
<1>3. ASSUME NEW w \in Worker, NEW d \in Deal, NEW op \in DealOp,
             BeginDealCall(w, d, op)
      PROVE  CallShape(u)'
  <2>1. CASE u = w
    <3>1. call'[u] = [Idle EXCEPT !.pc = "begun", !.op = op, !.deal = {d},
                                  !.camp = {CampaignOf[d]}]
      BY <1>3, <2>1, BeginDealCallEffect
    <3>2. /\ call'[u].pc = "begun" /\ call'[u].op = op /\ call'[u].deal = {d}
          /\ call'[u].camp = {CampaignOf[d]} /\ call'[u].refs = NoHolds
          /\ call'[u].todo = {} /\ call'[u].picked = {}
      BY <3>1 DEF Idle
    <3>3. op # "none" /\ op # "hold" /\ CampaignOf[d] \in Campaign
      BY DealsHaveCampaigns DEF DealOp
    <3> QED
      BY <3>2, <3>3 DEF CallShape
  <2> QED
    BY <1>3, <2>1, <1>a, BeginDealCallEffect DEF OthersKeep
<1>4. ASSUME NEW w \in Worker, TakeFirstLock(w) PROVE CallShape(u)'
  <2>1. CASE u = w
    BY <1>4, <2>1, TakeFirstLockEffect DEF CallShape, SameErrand, NoHolds
  <2> QED
    BY <1>4, <2>1, <1>a, TakeFirstLockEffect DEF OthersKeep
<1>5. ASSUME NEW w \in Worker, SelectDeals(w) PROVE CallShape(u)'
  <2>1. CASE u = w
    <3>1. call[u].op = "hold" /\ call[u].pc = "locked"
      BY <1>5, <2>1 DEF SelectDeals
    <3> QED
      BY <1>5, <2>1, <3>1, SelectDealsEffect DEF CallShape, SameErrand, NoHolds, DealOp
  <2> QED
    BY <1>5, <2>1, <1>a, SelectDealsEffect DEF OthersKeep
<1>6. ASSUME NEW w \in Worker, LockCampaign(w) PROVE CallShape(u)'
  <2>1. CASE u = w
    <3>1. call[u].pc = "locked"
      BY <1>6, <2>1 DEF LockCampaign
    <3> QED
      BY <1>6, <2>1, <3>1, LockCampaignEffect DEF CallShape, SameErrand, NoHolds
  <2> QED
    BY <1>6, <2>1, <1>a, LockCampaignEffect DEF OthersKeep
<1>7. ASSUME NEW w \in Worker, NEW d \in Deal, PlaceHold(w, d) PROVE CallShape(u)'
  <2>1. CASE u = w
    <3>1. call[u].op = "hold"
      BY <1>7, <2>1, OpHasType DEF PlaceHold, CallShape
    <3> QED
      BY <1>7, <2>1, <3>1, PlaceHoldEffect DEF CallShape, DealOp
  <2> QED
    BY <1>7, <2>1, <1>a, PlaceHoldEffect DEF OthersKeep
<1>8. ASSUME NEW w \in Worker, NEW leg \in Leg, call[w].op \in DealOp,
             call' = [call EXCEPT ![w].legs = @ \cup {leg}]
      PROVE  CallShape(u)'
  <2>1. CASE u = w
    BY <1>8, <2>1, LegEffect DEF CallShape, NoHolds, DealOp
  <2> QED
    BY <1>8, <2>1, <1>a, LegEffect DEF OthersKeep
<1>9. ASSUME NEW w \in Worker, call' = [call EXCEPT ![w] = Idle] PROVE CallShape(u)'
  BY <1>9, <1>a, <1>b, DropEffect DEF Dropped, OthersKeep
<1>10. ASSUME NEW w \in Worker, NEW d \in Deal, CommitPayout(w, d) PROVE CallShape(u)'
  <2>1. CASE call[w].op = "approve"
    <3>1. CASE u = w
      <4>1. call'[u] = [Idle EXCEPT !.pc = "closing", !.camp = call[u].camp]
        BY <1>10, <2>1, <3>1, ClosingEffect DEF CommitPayout
      <4>2. /\ call'[u].pc = "closing" /\ call'[u].op = "none" /\ call'[u].deal = {}
            /\ call'[u].camp = call[u].camp /\ call'[u].legs = {}
            /\ call'[u].refs = NoHolds
        BY <4>1 DEF Idle
      <4>3. call[u].pc = "moving"
        BY <1>10, <3>1 DEF CommitPayout
      <4> QED
        BY <4>2, <4>3 DEF CallShape, DealOp
    <3> QED
      BY <1>10, <2>1, <3>1, <1>a, ClosingEffect DEF OthersKeep, CommitPayout
  <2> QED
    BY <1>9, <1>10, <2>1 DEF CommitPayout
<1>11. ASSUME NEW w \in Worker, CheckCompletion(w) PROVE CallShape(u)'
  <2>1. CASE u = w
    <3>1. call[u].pc = "closing"
      BY <1>11, <2>1 DEF CheckCompletion
    <3> QED
      BY <1>11, <2>1, <3>1, <1>b, CheckCompletionEffect
         DEF CallShape, SameErrand, NoHolds, Dropped, DealOp
  <2> QED
    BY <1>11, <2>1, <1>a, CheckCompletionEffect DEF OthersKeep, Dropped
<1>12. ASSUME NEW w \in Worker, SerializationFailure(w) PROVE CallShape(u)'
  <2>1. CASE call' = [call EXCEPT ![w] = Again(@)] /\ u = w
    <3>1. call[u].pc \in {"locked", "moving"}
      BY <1>12, <2>1 DEF SerializationFailure, InTransaction
    <3>2. SameErrand(u) /\ call'[u].pc = "begun" /\ call'[u].todo = {}
          /\ call'[u].picked = {}
      BY <2>1, AgainEffect
    <3> QED
      BY <3>1, <3>2 DEF CallShape, SameErrand, NoHolds
  <2> QED
    BY <1>12, <2>1, <1>a, <1>9, AgainEffect DEF OthersKeep, SerializationFailure
<1> QED
  <2>1. ASSUME NEW w \in Worker, NEW d \in Deal,
               CapturePayout(w, d) \/ CaptureCommission(w, d) \/ ReleaseHold(w, d)
        PROVE  CallShape(u)'
    BY <2>1, <1>8 DEF CapturePayout, CaptureCommission, ReleaseHold, Draw, Leg,
       DealOp, PayOp
  <2>2. ASSUME NEW w \in Worker,
               \/ Refuse(w)     \/ ProviderRefuses(w) \/ Fault(w) \/ CommitHold(w)
               \/ MarkCompleted(w) \/ \E d \in Deal : CommitRefund(w, d)
        PROVE  CallShape(u)'
    BY <2>2, <1>9 DEF Refuse, ProviderRefuses, Fault, CommitHold, MarkCompleted,
       CommitRefund
  <2> QED
    BY <1>0, <1>1, <1>2, <1>3, <1>4, <1>5, <1>6, <1>7, <1>10, <1>11, <1>12, <2>1, <2>2
       DEF Next, Begin, Lock, Progress

----------------------------------------------------------------------------
\* LocksExclude

\* A worker that takes only free rows keeps the locks exclusive.
LEMMA LockStep ==
  ASSUME LocksExclude, NEW w \in Worker, OthersKeep(w),
         \A d \in Deal : LocksDeal(w, d)' => LocksDeal(w, d) \/ DealFree(d),
         \A c \in Campaign : LocksCampaign(w, c)' => LocksCampaign(w, c) \/ CampaignFree(c)
  PROVE  LocksExclude'
<1>1. \A v \in Worker : v # w =>
        /\ \A d \in Deal : LocksDeal(v, d)' <=> LocksDeal(v, d)
        /\ \A c \in Campaign : LocksCampaign(v, c)' <=> LocksCampaign(v, c)
  BY DEF OthersKeep, LocksDeal, LocksCampaign, InTransaction
<1> QED
  BY <1>1 DEF LocksExclude, DealFree, CampaignFree

\* A worker that drops its locks keeps the locks exclusive.
LEMMA UnlockStep ==
  ASSUME LocksExclude, NEW w \in Worker, OthersKeep(w),
         call'[w].pc \notin {"locked", "moving"}
  PROVE  LocksExclude'
  BY LockStep DEF LocksDeal, LocksCampaign, InTransaction

\* No step gives two calls the same row.
LEMMA NextLocksExclude ==
  TypeOK /\ (\A w \in Worker : CallShape(w)) /\ LocksExclude /\ [Next]_vars
    => LocksExclude'
<1> SUFFICES ASSUME TypeOK, \A w \in Worker : CallShape(w), LocksExclude, [Next]_vars
             PROVE  LocksExclude'
  OBVIOUS
<1>0. ASSUME UNCHANGED call PROVE LocksExclude'
  BY <1>0 DEF LocksExclude, LocksDeal, LocksCampaign, InTransaction
<1>1. CASE UNCHANGED vars \/ Endpoint
  BY <1>0, <1>1 DEF vars, Endpoint, MoveDeal, CancelCampaign, AcceptOffer, DeclineOffer,
     ExpireOffer, SubmitDeliverable, RequestRevision
<1>2. ASSUME NEW w \in Worker, NEW c \in Campaign, BeginHold(w, c) PROVE LocksExclude'
  <2>1. call'[w].pc = "begun"
    BY <1>2, BeginHoldEffect DEF Idle
  <2> QED
    BY <1>2, <2>1, BeginHoldEffect, UnlockStep
<1>3. ASSUME NEW w \in Worker, NEW d \in Deal, NEW op \in DealOp,
             BeginDealCall(w, d, op)
      PROVE  LocksExclude'
  <2>1. call'[w].pc = "begun"
    BY <1>3, BeginDealCallEffect DEF Idle
  <2> QED
    BY <1>3, <2>1, BeginDealCallEffect, UnlockStep
<1>4. ASSUME NEW w \in Worker, TakeFirstLock(w) PROVE LocksExclude'
  <2>1. OthersKeep(w) /\ SameErrand(w) /\ call'[w].pc = "locked"
    BY <1>4, TakeFirstLockEffect
  <2>2. \A d \in Deal : LocksDeal(w, d)' => DealFree(d)
    BY <1>4, <2>1 DEF TakeFirstLock, LocksDeal, SameErrand, DealOp
  <2>3. \A c \in Campaign : LocksCampaign(w, c)' => CampaignFree(c)
    BY <1>4, <2>1 DEF TakeFirstLock, LocksCampaign, SameErrand, DealOp
  <2> QED
    BY <2>1, <2>2, <2>3, LockStep
<1>5. ASSUME NEW w \in Worker, SelectDeals(w) PROVE LocksExclude'
  <2>1. OthersKeep(w) /\ SameErrand(w) /\ call'[w].pc = "moving"
    BY <1>5, SelectDealsEffect
  <2>2. call[w].op = "hold" /\ call[w].pc = "locked"
    BY <1>5 DEF SelectDeals
  <2>3. \A d \in Deal : LocksDeal(w, d)' => DealFree(d)
    BY <1>5, <2>1, <2>2, SelectDealsEffect DEF LocksDeal, SameErrand, DealOp
  <2>4. \A c \in Campaign : LocksCampaign(w, c)' => LocksCampaign(w, c)
    BY <2>1, <2>2 DEF LocksCampaign, SameErrand
  <2> QED
    BY <2>1, <2>3, <2>4, LockStep
<1>6. ASSUME NEW w \in Worker, LockCampaign(w) PROVE LocksExclude'
  <2>1. OthersKeep(w) /\ SameErrand(w) /\ call'[w].pc = "moving"
    BY <1>6, LockCampaignEffect
  <2>2. /\ call[w].op \in DealOp /\ call[w].pc = "locked"
        /\ \A c \in call[w].camp : CampaignFree(c)
    BY <1>6 DEF LockCampaign
  <2>3. \A d \in Deal : LocksDeal(w, d)' => LocksDeal(w, d)
    BY <2>1, <2>2 DEF LocksDeal, SameErrand, DealOp, InTransaction
  <2>4. \A c \in Campaign : LocksCampaign(w, c)' => CampaignFree(c)
    BY <2>1, <2>2 DEF LocksCampaign, SameErrand
  <2> QED
    BY <2>1, <2>3, <2>4, LockStep
<1>7. ASSUME NEW w \in Worker, OthersKeep(w), call'[w].pc = call[w].pc,
             call'[w].op = call[w].op, call'[w].deal = call[w].deal,
             call'[w].camp = call[w].camp, call'[w].picked = call[w].picked
      PROVE  LocksExclude'
  BY <1>7, LockStep DEF LocksDeal, LocksCampaign, InTransaction
<1>8. ASSUME NEW w \in Worker, call' = [call EXCEPT ![w] = Idle] PROVE LocksExclude'
  BY <1>8, DropEffect, IdleFields, UnlockStep DEF Dropped
<1>9. ASSUME NEW w \in Worker, NEW d \in Deal, CommitPayout(w, d) PROVE LocksExclude'
  <2>1. CASE call[w].op = "approve"
    <3>1. /\ OthersKeep(w)
          /\ call'[w] = [Idle EXCEPT !.pc = "closing", !.camp = call[w].camp]
      BY <1>9, <2>1, ClosingEffect DEF CommitPayout
    <3>2. call'[w].pc = "closing"
      BY <3>1 DEF Idle
    <3> QED
      BY <3>1, <3>2, UnlockStep
  <2> QED
    BY <1>8, <1>9, <2>1 DEF CommitPayout
<1>10. ASSUME NEW w \in Worker, CheckCompletion(w) PROVE LocksExclude'
  BY <1>10, CheckCompletionEffect, IdleFields, UnlockStep DEF Dropped
<1>11. ASSUME NEW w \in Worker, SerializationFailure(w) PROVE LocksExclude'
  <2>1. CASE call' = [call EXCEPT ![w] = Again(@)]
    BY <2>1, AgainEffect, UnlockStep
  <2> QED
    BY <1>8, <1>11, <2>1 DEF SerializationFailure
<1>12. ASSUME NEW w \in Worker, NEW d \in Deal,
              \/ CapturePayout(w, d) \/ CaptureCommission(w, d) \/ ReleaseHold(w, d)
       PROVE  LocksExclude'
  BY <1>7, <1>12, LegEffect DEF CapturePayout, CaptureCommission, ReleaseHold, Draw, Leg
<1>13. ASSUME NEW w \in Worker, NEW d \in Deal, PlaceHold(w, d) PROVE LocksExclude'
  BY <1>7, <1>13, PlaceHoldEffect
<1>14. ASSUME NEW w \in Worker,
              \/ Refuse(w)     \/ ProviderRefuses(w) \/ Fault(w) \/ CommitHold(w)
              \/ MarkCompleted(w) \/ \E d \in Deal : CommitRefund(w, d)
       PROVE  LocksExclude'
  BY <1>8, <1>14 DEF Refuse, ProviderRefuses, Fault, CommitHold, MarkCompleted,
     CommitRefund
<1> QED
  BY <1>1, <1>2, <1>3, <1>4, <1>5, <1>6, <1>9, <1>10, <1>11, <1>12, <1>13, <1>14
     DEF Next, Begin, Lock, Progress

----------------------------------------------------------------------------
\* One step, one call

\* A payout that commits leaves the deal's row behind, and the call with it.
LEMMA CommitPayoutEffect ==
  ASSUME TypeOK, NEW w \in Worker, NEW d \in Deal, CommitPayout(w, d)
  PROVE  /\ OthersKeep(w)
         /\ call'[w].pc \in {"idle", "closing"}
         /\ call'[w].refs = NoHolds /\ call'[w].deal = {} /\ call'[w].legs = {}
<1>1. CASE call[w].op = "approve"
  <2>1. OthersKeep(w) /\ call'[w] = [Idle EXCEPT !.pc = "closing", !.camp = call[w].camp]
    BY <1>1, ClosingEffect DEF CommitPayout
  <2> QED
    BY <2>1 DEF Idle
<1>2. CASE call[w].op # "approve"
  BY <1>2, DropEffect, IdleFields DEF CommitPayout, Dropped
<1> QED
  BY <1>1, <1>2

\* A step moves one call at most.  It begins, ends (or is left with the campaign to
\* close), waits for locks with the errand it has, takes the last lock, or has the
\* provider do something.
Started(w) == call[w].pc = "idle" /\ call'[w].pc = "begun" /\ call'[w].refs = NoHolds
              /\ call'[w].legs = {}

Ended(w) == \/ call'[w].pc = "idle"
            \/ call'[w].pc = "closing" /\ call[w].op \in PayOp
            \/ /\ call'[w].pc = "closeWrite" /\ SameErrand(w)
               /\ \A c \in call[w].camp : AllCompleted(c)

Waits(w) == SameErrand(w) /\ call'[w].pc \in {"begun", "locked"}

AtProvider(w) ==
  \E d \in Deal : \/ PlaceHold(w, d)         \/ CapturePayout(w, d)
                  \/ CaptureCommission(w, d) \/ ReleaseHold(w, d)

\* Every step is one of these for the call it moves.
LEMMA CallStep ==
  ASSUME TypeOK, [Next]_vars
  PROVE  \/ UNCHANGED call
         \/ \E w \in Worker :
              /\ OthersKeep(w)
              /\ \/ Started(w) \/ Ended(w) \/ Waits(w)
                 \/ SelectDeals(w) \/ LockCampaign(w) \/ AtProvider(w)
<1> DEFINE Goal ==
      \/ UNCHANGED call
      \/ \E w \in Worker :
           /\ OthersKeep(w)
           /\ \/ Started(w) \/ Ended(w) \/ Waits(w)
              \/ SelectDeals(w) \/ LockCampaign(w) \/ AtProvider(w)
<1> SUFFICES Goal
  OBVIOUS
<1>1. CASE UNCHANGED vars \/ Endpoint
  BY <1>1 DEF vars, Endpoint, MoveDeal, CancelCampaign, AcceptOffer, DeclineOffer,
     ExpireOffer, SubmitDeliverable, RequestRevision
<1>2. ASSUME NEW w \in Worker, Begin(w) PROVE Goal
  <2>1. ASSUME NEW c \in Campaign, BeginHold(w, c) PROVE OthersKeep(w) /\ Started(w)
    <3>1. call'[w] = [Idle EXCEPT !.pc = "begun", !.op = "hold", !.camp = {c}]
      BY <2>1, BeginHoldEffect
    <3>2. call'[w].pc = "begun" /\ call'[w].refs = NoHolds /\ call'[w].legs = {}
      BY <3>1 DEF Idle
    <3> QED
      BY <2>1, <3>2, BeginHoldEffect DEF BeginHold, Started
  <2>2. ASSUME NEW d \in Deal, NEW op \in DealOp, BeginDealCall(w, d, op)
        PROVE  OthersKeep(w) /\ Started(w)
    <3>1. call'[w] = [Idle EXCEPT !.pc = "begun", !.op = op, !.deal = {d},
                                  !.camp = {CampaignOf[d]}]
      BY <2>2, BeginDealCallEffect
    <3>2. call'[w].pc = "begun" /\ call'[w].refs = NoHolds /\ call'[w].legs = {}
      BY <3>1 DEF Idle
    <3> QED
      BY <2>2, <3>2, BeginDealCallEffect DEF BeginDealCall, Started
  <2> QED
    BY <1>2, <2>1, <2>2 DEF Begin
<1>3. ASSUME NEW w \in Worker, call' = [call EXCEPT ![w] = Idle] PROVE Goal
  BY <1>3, DropEffect, IdleFields DEF Dropped, Ended
<1>4. ASSUME NEW w \in Worker, Lock(w) PROVE Goal
  <2>1. CASE TakeFirstLock(w)
    BY <2>1, TakeFirstLockEffect DEF Waits
  <2>2. CASE SelectDeals(w) \/ LockCampaign(w)
    BY <2>2, SelectDealsEffect, LockCampaignEffect
  <2> QED
    BY <1>3, <1>4, <2>1, <2>2 DEF Lock, Refuse, MarkCompleted
<1>5. ASSUME NEW w \in Worker, NEW d \in Deal,
             CapturePayout(w, d) \/ CaptureCommission(w, d) \/ ReleaseHold(w, d)
      PROVE  Goal
  <2>1. PICK leg \in Leg : call' = [call EXCEPT ![w].legs = @ \cup {leg}]
    BY <1>5 DEF CapturePayout, CaptureCommission, ReleaseHold, Draw, Leg
  <2>2. OthersKeep(w)
    BY <2>1, LegEffect
  <2> QED
    BY <1>5, <2>2 DEF AtProvider
<1>6. ASSUME NEW w \in Worker, NEW d \in Deal,
             PlaceHold(w, d) \/ CommitPayout(w, d) \/ CommitRefund(w, d)
      PROVE  Goal
  <2>1. CASE PlaceHold(w, d)
    BY <2>1, PlaceHoldEffect DEF AtProvider
  <2>2. CASE CommitPayout(w, d)
    BY <2>2, CommitPayoutEffect DEF Ended, CommitPayout
  <2>3. CASE CommitRefund(w, d)
    BY <1>3, <2>3 DEF CommitRefund
  <2> QED
    BY <1>6, <2>1, <2>2, <2>3
<1>7. ASSUME NEW w \in Worker, ProviderRefuses(w) \/ CommitHold(w) \/ Fault(w) PROVE Goal
  BY <1>3, <1>7 DEF ProviderRefuses, CommitHold, Fault
<1>8. ASSUME NEW w \in Worker, CheckCompletion(w) PROVE Goal
  BY <1>8, CheckCompletionEffect, IdleFields DEF Dropped, Ended
<1>9. ASSUME NEW w \in Worker, SerializationFailure(w) PROVE Goal
  <2>1. CASE call' = [call EXCEPT ![w] = Again(@)]
    BY <2>1, AgainEffect DEF Waits
  <2> QED
    BY <1>3, <1>9, <2>1 DEF SerializationFailure
<1> HIDE DEF Goal
<1> QED
  BY <1>1, <1>2, <1>4, <1>5, <1>6, <1>7, <1>8, <1>9 DEF Next, Progress

----------------------------------------------------------------------------
\* LedgerMatchesStatus

\* Where the table lets each move start.
LEMMA TransitionTable ==
  ASSUME NEW s \in DealStatus
  PROVE  /\ CanTransition(s, "accepted")           => s = "pending"
         /\ CanTransition(s, "declined")           => s = "pending"
         /\ CanTransition(s, "expired")            => s = "pending"
         /\ CanTransition(s, "funded")             => s = "accepted"
         /\ CanTransition(s, "delivered")          => s \in {"funded", "revision_requested"}
         /\ CanTransition(s, "revision_requested") => s = "delivered"
         /\ CanTransition(s, "completed")          => s = "delivered"
         /\ CanTransition(s, "refunded")           => s \in RefundableFrom
  BY DEF CanTransition, LegalTransitions, DealStatus, RefundableFrom

\* What RowsOwed says, status by status.
LEMMA RowsOwedBy ==
  /\ \A s \in {"pending", "accepted", "declined", "expired"} : RowsOwed(s) = NoRows
  /\ \A s \in RefundableFrom : RowsOwed(s) = AddRows(NoRows, {"hold"})
  /\ RowsOwed("completed") = AddRows(NoRows, {"hold", "release_payout", "commission"})
  /\ RowsOwed("refunded") = AddRows(NoRows, {"hold", "refund"})
  BY DEF RowsOwed, RefundableFrom

\* The rows a step inserts turn what the old status owes into what the new one does.
LEMMA RowsAddUp ==
  /\ AddRows(AddRows(NoRows, {"hold"}), {"release_payout", "commission"})
       = AddRows(NoRows, {"hold", "release_payout", "commission"})
  /\ AddRows(AddRows(NoRows, {"hold"}), {"refund"}) = AddRows(NoRows, {"hold", "refund"})
  BY DEF AddRows, NoRows, EntryType

\* The only steps that touch a status or a row.
BooksMove ==
  \/ \E d \in Deal : \/ AcceptOffer(d) \/ DeclineOffer(d) \/ ExpireOffer(d)
                     \/ SubmitDeliverable(d) \/ RequestRevision(d)
  \/ \E w \in Worker : \/ CommitHold(w)
                       \/ \E d \in Deal : CommitPayout(w, d) \/ CommitRefund(w, d)

\* Every step but an endpoint's move and the three commits leaves the deals' statuses
\* and rows alone.
LEMMA OtherStepsKeepRows ==
  ASSUME [Next]_vars, ~BooksMove
  PROVE  UNCHANGED << dealStatus, rows, holdRef >>
  BY DEF BooksMove, Next, vars, books, Endpoint, CancelCampaign, Begin, BeginHold,
     BeginDealCall, Lock, TakeFirstLock, SelectDeals, LockCampaign, Progress, Refuse,
     PlaceHold, CapturePayout, CaptureCommission, ReleaseHold, Draw, ProviderRefuses,
     CheckCompletion, MarkCompleted, SerializationFailure, Fault

\* A move without rows is between statuses that owe the same rows; a commit inserts
\* exactly the rows of the move it makes.
LEMMA NextLedgerMatchesStatus ==
  TypeOK /\ LedgerMatchesStatus /\ [Next]_vars => LedgerMatchesStatus'
<1> SUFFICES ASSUME TypeOK, LedgerMatchesStatus, [Next]_vars, NEW e \in Deal
             PROVE  rows'[e] = RowsOwed(dealStatus'[e])
  BY DEF LedgerMatchesStatus, RowsOwed
<1>0. dealStatus[e] \in DealStatus /\ rows[e] = RowsOwed(dealStatus[e])
  BY DEF TypeOK, LedgerMatchesStatus
<1>1. ASSUME UNCHANGED << dealStatus, rows >> PROVE rows'[e] = RowsOwed(dealStatus'[e])
  BY <1>0, <1>1
<1>2. ASSUME NEW d \in Deal, NEW to, MoveDeal(d, to),
             RowsOwed(to) = RowsOwed(dealStatus[d])
      PROVE  rows'[e] = RowsOwed(dealStatus'[e])
  <2>1. dealStatus'[e] = IF e = d THEN to ELSE dealStatus[e]
    BY <1>2 DEF MoveDeal, TypeOK
  <2> QED
    BY <1>0, <1>2, <2>1 DEF MoveDeal
<1>3. ASSUME NEW d \in Deal,
             \/ AcceptOffer(d) \/ DeclineOffer(d) \/ ExpireOffer(d)
             \/ SubmitDeliverable(d) \/ RequestRevision(d)
      PROVE  rows'[e] = RowsOwed(dealStatus'[e])
  <2>1. PICK to \in {"accepted", "declined", "expired", "delivered", "revision_requested"} :
          MoveDeal(d, to)
    BY <1>3 DEF AcceptOffer, DeclineOffer, ExpireOffer, SubmitDeliverable, RequestRevision
  <2>2. dealStatus[d] \in DealStatus /\ CanTransition(dealStatus[d], to)
    BY <2>1 DEF MoveDeal, TypeOK
  <2>3. RowsOwed(to) = RowsOwed(dealStatus[d])
    BY <2>2, TransitionTable, RowsOwedBy DEF RefundableFrom
  <2> QED
    BY <1>2, <2>1, <2>3
<1>4. ASSUME NEW w \in Worker, CommitHold(w) PROVE rows'[e] = RowsOwed(dealStatus'[e])
  <2>1. CASE e \in call[w].picked
    <3>1. /\ CanTransition(dealStatus[e], "funded")
          /\ dealStatus'[e] = "funded"
          /\ rows'[e] = AddRows(rows[e], {"hold"})
      BY <1>4, <2>1 DEF CommitHold
    <3> QED
      BY <1>0, <3>1, TransitionTable, RowsOwedBy DEF RefundableFrom
  <2> QED
    BY <1>0, <1>4, <2>1 DEF CommitHold
<1>5. ASSUME NEW w \in Worker, NEW d \in Deal, CommitPayout(w, d)
      PROVE  rows'[e] = RowsOwed(dealStatus'[e])
  <2>1. CASE e = d
    <3>1. /\ CanTransition(dealStatus[e], "completed")
          /\ dealStatus'[e] = "completed"
          /\ rows'[e] = AddRows(rows[e], {"release_payout", "commission"})
      BY <1>5, <2>1 DEF CommitPayout, PayoutRows, TypeOK
    <3> QED
      BY <1>0, <3>1, TransitionTable, RowsOwedBy, RowsAddUp DEF RefundableFrom
  <2>2. CASE e # d
    <3>1. dealStatus'[e] = dealStatus[e] /\ rows'[e] = rows[e]
      BY <1>5, <2>2 DEF CommitPayout, TypeOK
    <3> QED
      BY <1>0, <3>1
  <2> QED
    BY <2>1, <2>2
<1>6. ASSUME NEW w \in Worker, NEW d \in Deal, CommitRefund(w, d)
      PROVE  rows'[e] = RowsOwed(dealStatus'[e])
  <2>1. CASE e = d
    <3>1. /\ CanTransition(dealStatus[e], "refunded")
          /\ dealStatus'[e] = "refunded"
          /\ rows'[e] = AddRows(rows[e], {"refund"})
      BY <1>6, <2>1 DEF CommitRefund, TypeOK
    <3> QED
      BY <1>0, <3>1, TransitionTable, RowsOwedBy, RowsAddUp
  <2>2. CASE e # d
    <3>1. dealStatus'[e] = dealStatus[e] /\ rows'[e] = rows[e]
      BY <1>6, <2>2 DEF CommitRefund, TypeOK
    <3> QED
      BY <1>0, <3>1
  <2> QED
    BY <2>1, <2>2
<1> QED
  BY <1>1, <1>3, <1>4, <1>5, <1>6, OtherStepsKeepRows DEF BooksMove

\* A pending deal owes no rows.
LEMMA InitLedgerMatchesStatus == Init => LedgerMatchesStatus
  BY RowsOwedBy DEF Init, LedgerMatchesStatus

\* No deal is ever held, paid or refunded twice, or moved without its rows: the
\* ledger of every deal is the one its status owes.
THEOREM LedgerStaysWithStatus == Spec => []LedgerMatchesStatus
<1>1. TypeOK /\ LedgerMatchesStatus /\ [Next]_vars => TypeOK' /\ LedgerMatchesStatus'
  BY NextTypeOK, NextLedgerMatchesStatus
<1>2. Init => TypeOK /\ LedgerMatchesStatus
  BY InitTypeOK, InitLedgerMatchesStatus
<1> QED
  BY <1>1, <1>2, PTL DEF Spec

----------------------------------------------------------------------------
\* ChecksStillHold

\* The only steps that touch a campaign's status.
CampaignMove ==
  \/ \E c \in Campaign : CancelCampaign(c)
  \/ \E w \in Worker : CommitHold(w) \/ MarkCompleted(w)

\* Every other step leaves the campaigns' statuses alone.
LEMMA OtherStepsKeepCampaigns ==
  ASSUME [Next]_vars, ~CampaignMove
  PROVE  UNCHANGED campaignStatus
<1>1. CASE UNCHANGED vars \/ Endpoint
  BY <1>1 DEF CampaignMove, vars, books, Endpoint, MoveDeal, AcceptOffer, DeclineOffer,
     ExpireOffer, SubmitDeliverable, RequestRevision
<1>2. ASSUME NEW w \in Worker, Begin(w) \/ Lock(w) PROVE UNCHANGED campaignStatus
  BY <1>2 DEF CampaignMove, books, Begin, BeginHold, BeginDealCall, Lock, TakeFirstLock,
     SelectDeals, LockCampaign, Refuse
<1>3. ASSUME NEW w \in Worker, NEW d \in Deal,
             \/ PlaceHold(w, d)    \/ CapturePayout(w, d) \/ CaptureCommission(w, d)
             \/ ReleaseHold(w, d)  \/ CommitPayout(w, d)  \/ CommitRefund(w, d)
      PROVE  UNCHANGED campaignStatus
  BY <1>3 DEF books, PlaceHold, CapturePayout, CaptureCommission, ReleaseHold, Draw,
     CommitPayout, CommitRefund
<1>4. ASSUME NEW w \in Worker,
             \/ ProviderRefuses(w)      \/ CheckCompletion(w)
             \/ SerializationFailure(w) \/ Fault(w)
      PROVE  UNCHANGED campaignStatus
  BY <1>4 DEF books, ProviderRefuses, CheckCompletion, SerializationFailure, Fault
<1> QED
  BY <1>1, <1>2, <1>3, <1>4 DEF CampaignMove, Next, Progress

\* A deal whose row a call keeps locked is not moved.
LEMMA LockedDealStays ==
  ASSUME TypeOK, \A w \in Worker : CallShape(w), LocksExclude, [Next]_vars,
         NEW w \in Worker, NEW d \in Deal, LocksDeal(w, d), call'[w].pc = "moving"
  PROVE  dealStatus'[d] = dealStatus[d]
<1>0. CASE ~BooksMove
  BY <1>0, OtherStepsKeepRows
<1>1. ASSUME NEW e \in Deal, NEW to, MoveDeal(e, to)
      PROVE  dealStatus'[d] = dealStatus[d]
  <2>1. e # d
    BY <1>1 DEF MoveDeal, DealFree
  <2> QED
    BY <1>1, <2>1 DEF MoveDeal, TypeOK
<1>2. CASE \E e \in Deal : \/ AcceptOffer(e) \/ DeclineOffer(e) \/ ExpireOffer(e)
                           \/ SubmitDeliverable(e) \/ RequestRevision(e)
  BY <1>1, <1>2 DEF AcceptOffer, DeclineOffer, ExpireOffer, SubmitDeliverable,
     RequestRevision
<1>3. ASSUME NEW v \in Worker, CommitHold(v) PROVE dealStatus'[d] = dealStatus[d]
  <2>1. call'[v].pc = "idle"
    BY <1>3, DropEffect, IdleFields DEF CommitHold, Dropped
  <2>2. \A e \in call[v].picked : e \in Deal => LocksDeal(v, e)
    BY <1>3 DEF CommitHold, LocksDeal
  <2>3. d \notin call[v].picked
    BY <2>1, <2>2 DEF LocksExclude
  <2> QED
    BY <1>3, <2>3 DEF CommitHold
<1>4. ASSUME NEW v \in Worker, NEW e \in Deal, CommitPayout(v, e) \/ CommitRefund(v, e)
      PROVE  dealStatus'[d] = dealStatus[d]
  <2>1. call'[v].pc # "moving"
    BY <1>4, CommitPayoutEffect, DropEffect, IdleFields DEF CommitRefund, Dropped
  <2>2. LocksDeal(v, e)
    BY <1>4 DEF CommitPayout, CommitRefund, LocksDeal, InTransaction, DealOp, PayOp
  <2>3. d # e
    BY <2>1, <2>2 DEF LocksExclude
  <2> QED
    BY <1>4, <2>3 DEF CommitPayout, CommitRefund, TypeOK
<1> QED
  BY <1>0, <1>2, <1>3, <1>4 DEF BooksMove

\* A campaign whose row a call keeps locked does not change its status.
LEMMA LockedCampaignStays ==
  ASSUME TypeOK, \A w \in Worker : CallShape(w), LocksExclude, [Next]_vars,
         NEW w \in Worker, NEW c \in Campaign, LocksCampaign(w, c), call'[w].pc = "moving"
  PROVE  campaignStatus'[c] = campaignStatus[c]
<1>0. CASE ~CampaignMove
  BY <1>0, OtherStepsKeepCampaigns
<1>1. ASSUME NEW b \in Campaign, CancelCampaign(b)
      PROVE  campaignStatus'[c] = campaignStatus[c]
  <2>1. b # c
    BY <1>1 DEF CancelCampaign, CampaignFree
  <2> QED
    BY <1>1, <2>1 DEF CancelCampaign, TypeOK
<1>2. ASSUME NEW v \in Worker, CommitHold(v) PROVE campaignStatus'[c] = campaignStatus[c]
  <2>1. call'[v].pc = "idle"
    BY <1>2, DropEffect, IdleFields DEF CommitHold, Dropped
  <2>2. c \in call[v].camp => LocksCampaign(v, c)
    BY <1>2 DEF CommitHold, LocksCampaign
  <2>3. c \notin call[v].camp
    BY <2>1, <2>2 DEF LocksExclude
  <2> QED
    BY <1>2, <2>3 DEF CommitHold
<1>3. ASSUME NEW v \in Worker, MarkCompleted(v) PROVE campaignStatus'[c] = campaignStatus[c]
  <2>1. c \notin call[v].camp
    BY <1>3 DEF MarkCompleted, CampaignFree
  <2> QED
    BY <1>3, <2>1 DEF MarkCompleted
<1> QED
  BY <1>0, <1>1, <1>2, <1>3 DEF CampaignMove

\* What a call checked about its deal or its campaign, it checked under locks it keeps
\* until it commits.
LEMMA NextChecksStillHold ==
  ASSUME TypeOK, LocksExclude, \A w \in Worker : CallShape(w),
         \A w \in Worker : ChecksStillHold(w), [Next]_vars,
         NEW w \in Worker
  PROVE  ChecksStillHold(w)'
<1> SUFFICES ASSUME call'[w].pc = "moving" PROVE ChecksStillHold(w)'
  BY DEF ChecksStillHold
<1>t. call[w] \in Call
  BY CallHasType
<1>1. CASE call[w].pc = "moving" /\ call'[w].op = call[w].op /\ call'[w].deal = call[w].deal
           /\ call'[w].camp = call[w].camp /\ call'[w].picked = call[w].picked
           /\ \A d \in call'[w].picked \ call'[w].todo : call'[w].refs[d] # NoRef
  <2>1. ASSUME call[w].op \in DealOp, NEW d \in call[w].deal
        PROVE  dealStatus'[d] = dealStatus[d]
    <3>1. d \in Deal /\ LocksDeal(w, d)
      BY <1>1, <1>t, <2>1 DEF LocksDeal, InTransaction, Call
    <3> QED
      BY <3>1, LockedDealStays
  <2>2. ASSUME call[w].op = "hold", NEW d \in call[w].picked
        PROVE  dealStatus'[d] = dealStatus[d]
    <3>1. d \in Deal /\ LocksDeal(w, d)
      BY <1>1, <1>t, <2>2 DEF LocksDeal, Call
    <3> QED
      BY <3>1, LockedDealStays
  <2>3. ASSUME NEW c \in call[w].camp PROVE campaignStatus'[c] = campaignStatus[c]
    <3>1. c \in Campaign /\ LocksCampaign(w, c)
      BY <1>1, <1>t, <2>3 DEF LocksCampaign, Call
    <3> QED
      BY <3>1, LockedCampaignStays
  <2> QED
    BY <1>1, <2>1, <2>2, <2>3 DEF ChecksStillHold, StatusAllows
<1>2. CASE SelectDeals(w)
  <2>1. PICK c \in call[w].camp : /\ Fundable(c)
                                  /\ call'[w].todo = AcceptedDeals(c)
                                  /\ call'[w].picked = AcceptedDeals(c)
    BY <1>2, SelectDealsEffect
  <2>2. /\ call[w].op = "hold" /\ call'[w].op = "hold" /\ call'[w].camp = call[w].camp
        /\ UNCHANGED << dealStatus, campaignStatus >>
    BY <1>2, SelectDealsEffect DEF SelectDeals, SameErrand, books
  <2>3. call[w].camp = {c}
    BY <1>2, <2>1, <2>2 DEF CallShape, SelectDeals
  <2> QED
    BY <2>1, <2>2, <2>3 DEF ChecksStillHold, Fundable, AcceptedDeals, DealsOf, DealOp
<1>3. CASE LockCampaign(w)
  <2>1. /\ call[w].op \in DealOp /\ call'[w].op = call[w].op /\ call'[w].deal = call[w].deal
        /\ UNCHANGED dealStatus
        /\ \A d \in call[w].deal : StatusAllows(call[w].op, d)
    BY <1>3, LockCampaignEffect DEF LockCampaign, SameErrand, books
  <2> QED
    BY <2>1 DEF ChecksStillHold, StatusAllows, DealOp
<1>4. CASE call'[w] = call[w]
  BY <1>1, <1>4 DEF ChecksStillHold, CallShape
<1>5. ASSUME NEW d \in Deal, PlaceHold(w, d) PROVE ChecksStillHold(w)'
  <2>1. PICK r \in Ref : call'[w].refs = [call[w].refs EXCEPT ![d] = r]
    BY <1>5, PlaceHoldEffect
  <2>2. call[w].pc = "moving" /\ call[w].op = "hold"
    BY <1>5, OpHasType DEF PlaceHold, CallShape
  <2>3. \A e \in call'[w].picked \ call'[w].todo : call'[w].refs[e] # NoRef
    BY <1>5, <1>t, <2>1, <2>2, PlaceHoldEffect, NoRefIsNoRef DEF ChecksStillHold, Call
  <2> QED
    BY <1>1, <1>5, <2>2, <2>3, PlaceHoldEffect
<1>6. ASSUME NEW d \in Deal, CapturePayout(w, d) \/ CaptureCommission(w, d) \/ ReleaseHold(w, d)
      PROVE  ChecksStillHold(w)'
  <2>1. PICK leg \in Leg : call' = [call EXCEPT ![w].legs = @ \cup {leg}]
    BY <1>6 DEF CapturePayout, CaptureCommission, ReleaseHold, Draw, Leg
  <2>2. call[w].pc = "moving" /\ call[w].op \in DealOp
    BY <1>6 DEF CapturePayout, CaptureCommission, ReleaseHold, Draw, DealOp, PayOp
  <2> QED
    BY <1>1, <2>1, <2>2, LegEffect DEF CallShape
<1>7. CASE AtProvider(w)
  BY <1>5, <1>6, <1>7 DEF AtProvider
<1>8. CASE Started(w) \/ Ended(w) \/ Waits(w)
  BY <1>8 DEF Started, Ended, Waits
<1> QED
  BY <1>2, <1>3, <1>4, <1>7, <1>8, CallStep DEF OthersKeep

----------------------------------------------------------------------------
\* FundedPhase

\* A paid or refunded deal stays so: the table lets nothing follow.
LEMMA SettledStays ==
  ASSUME TypeOK, [Next]_vars, NEW d \in Deal,
         dealStatus[d] \in {"completed", "refunded"}
  PROVE  dealStatus'[d] = dealStatus[d]
<1>0. CASE ~BooksMove
  BY <1>0, OtherStepsKeepRows
<1>1. \A to \in DealStatus : ~CanTransition(dealStatus[d], to)
  BY DEF CanTransition, LegalTransitions
<1>2. ASSUME NEW e \in Deal, NEW to \in DealStatus, MoveDeal(e, to)
      PROVE  dealStatus'[d] = dealStatus[d]
  BY <1>1, <1>2 DEF MoveDeal, TypeOK
<1>3. CASE \E e \in Deal : \/ AcceptOffer(e) \/ DeclineOffer(e) \/ ExpireOffer(e)
                           \/ SubmitDeliverable(e) \/ RequestRevision(e)
  BY <1>2, <1>3 DEF AcceptOffer, DeclineOffer, ExpireOffer, SubmitDeliverable,
     RequestRevision, DealStatus
<1>4. ASSUME NEW w \in Worker, CommitHold(w) PROVE dealStatus'[d] = dealStatus[d]
  <2>1. d \notin call[w].picked
    BY <1>1, <1>4 DEF CommitHold, DealStatus
  <2> QED
    BY <1>4, <2>1 DEF CommitHold
<1>5. ASSUME NEW w \in Worker, NEW e \in Deal, CommitPayout(w, e) \/ CommitRefund(w, e)
      PROVE  dealStatus'[d] = dealStatus[d]
  <2>1. d # e
    BY <1>1, <1>5 DEF CommitPayout, CommitRefund, DealStatus
  <2> QED
    BY <1>5, <2>1 DEF CommitPayout, CommitRefund, TypeOK
<1> QED
  BY <1>0, <1>3, <1>4, <1>5 DEF BooksMove

\* So a campaign whose deals are all paid stays that way.
LEMMA AllCompletedStays ==
  ASSUME TypeOK, [Next]_vars, NEW c \in Campaign, AllCompleted(c)
  PROVE  AllCompleted(c)'
  BY SettledStays DEF AllCompleted, DealsOf

\* What the ledger's rows say of a deal's status.
LEMMA RowsTellStatus ==
  ASSUME TypeOK, LedgerMatchesStatus, NEW d \in Deal
  PROVE  /\ rows[d] = NoRows <=> dealStatus[d] \in {"pending", "accepted", "declined", "expired"}
         /\ rows[d]["hold"] = 0 <=> rows[d] = NoRows
<1>1. /\ rows[d] = RowsOwed(dealStatus[d])
      /\ dealStatus[d] \in DealStatus
  BY DEF TypeOK, LedgerMatchesStatus
<1>2. \A types \in SUBSET EntryType :
        "hold" \in types => AddRows(NoRows, types)["hold"] = 1
  BY DEF AddRows, NoRows, EntryType
<1>3. NoRows["hold"] = 0
  BY DEF NoRows, EntryType
<1>4. CASE dealStatus[d] \in {"pending", "accepted", "declined", "expired"}
  BY <1>1, <1>3, <1>4, RowsOwedBy
<1>5. CASE dealStatus[d] \in RefundableFrom \cup {"completed", "refunded"}
  <2>1. rows[d]["hold"] = 1
    BY <1>1, <1>2, <1>5, RowsOwedBy DEF EntryType
  <2> QED
    BY <1>3, <1>5, <2>1 DEF RefundableFrom
<1> QED
  BY <1>1, <1>4, <1>5 DEF DealStatus, RefundableFrom

\* A campaign is funded before its deals have rows, closed when they are all paid, and
\* a check that let it close stays true.
LEMMA NextFundedPhase ==
  ASSUME TypeOK, LedgerMatchesStatus, \A w \in Worker : CallShape(w),
         \A w \in Worker : ChecksStillHold(w), FundedPhase, [Next]_vars
  PROVE  FundedPhase'
<1>a. \A c \in Campaign : AllCompleted(c) => AllCompleted(c)'
  BY AllCompletedStays
<1>b. /\ dealStatus \in [Deal -> DealStatus] /\ rows \in [Deal -> [EntryType -> Nat]]
      /\ campaignStatus \in [Campaign -> CampaignStatus]
      /\ \A d \in Deal : CampaignOf[d] \in Campaign
      /\ \A w \in Worker : call[w] \in Call
  BY DealsHaveCampaigns DEF TypeOK
<1>c. ASSUME NEW w \in Worker, CommitHold(w)
      PROVE  \E c \in Campaign : call[w].camp = {c} /\ campaignStatus[c] = "confirmed"
  BY <1>c DEF CommitHold, CallShape, ChecksStillHold
<1>1. ASSUME NEW c \in Campaign, campaignStatus'[c] = "completed" PROVE AllCompleted(c)'
  <2>1. CASE campaignStatus[c] = "completed"
    BY <1>a, <2>1 DEF FundedPhase
  <2>2. CASE campaignStatus[c] # "completed"
    <3>1. ~(\E b \in Campaign : CancelCampaign(b)) /\ ~(\E w \in Worker : CommitHold(w))
      BY <1>b, <1>1, <2>2 DEF CancelCampaign, CommitHold
    <3>2. PICK w \in Worker : MarkCompleted(w)
      BY <1>1, <2>2, <3>1, OtherStepsKeepCampaigns DEF CampaignMove
    <3>3. c \in call[w].camp
      BY <1>1, <2>2, <3>2 DEF MarkCompleted
    <3> QED
      BY <1>a, <3>2, <3>3 DEF MarkCompleted, FundedPhase
  <2> QED
    BY <2>1, <2>2
<1>2. ASSUME NEW d \in Deal, rows'[d] # NoRows
      PROVE  campaignStatus'[CampaignOf[d]] \in {"funded", "completed"}
  <2> DEFINE c == CampaignOf[d]
  <2>1. ASSUME campaignStatus[c] \in {"funded", "completed"}
        PROVE  campaignStatus'[c] \in {"funded", "completed"}
    <3>1. CASE ~CampaignMove
      BY <2>1, <3>1, OtherStepsKeepCampaigns
    <3>2. ASSUME NEW b \in Campaign, CancelCampaign(b)
          PROVE  campaignStatus'[c] \in {"funded", "completed"}
      BY <1>b, <2>1, <3>2 DEF CancelCampaign, Cancellable
    <3>3. ASSUME NEW w \in Worker, CommitHold(w) \/ MarkCompleted(w)
          PROVE  campaignStatus'[c] \in {"funded", "completed"}
      BY <1>b, <2>1, <3>3 DEF CommitHold, MarkCompleted
    <3> QED
      BY <3>1, <3>2, <3>3 DEF CampaignMove
  <2>2. CASE rows[d] # NoRows
    BY <2>1, <2>2 DEF FundedPhase
  <2>3. CASE rows[d] = NoRows
    <3>1. ~(\E e \in Deal : \/ AcceptOffer(e) \/ DeclineOffer(e) \/ ExpireOffer(e)
                            \/ SubmitDeliverable(e) \/ RequestRevision(e))
      BY <1>2, <2>3 DEF AcceptOffer, DeclineOffer, ExpireOffer, SubmitDeliverable,
         RequestRevision, MoveDeal
    <3>2. ASSUME NEW w \in Worker, NEW e \in Deal, CommitPayout(w, e) \/ CommitRefund(w, e)
          PROVE  FALSE
      <4>1. dealStatus[e] \in RefundableFrom
        BY <1>b, <3>2, TransitionTable DEF CommitPayout, CommitRefund, RefundableFrom
      <4>2. rows[e] # NoRows
        BY <4>1, RowsTellStatus DEF RefundableFrom
      <4>3. e = d
        BY <1>b, <1>2, <2>3, <3>2 DEF CommitPayout, CommitRefund
      <4> QED
        BY <2>3, <4>2, <4>3
    <3>3. PICK w \in Worker : CommitHold(w)
      BY <1>2, <2>3, <3>1, <3>2, OtherStepsKeepRows DEF BooksMove
    <3>4. d \in call[w].picked
      BY <1>2, <2>3, <3>3 DEF CommitHold
    <3>5. c \in call[w].camp
      BY <3>3, <3>4 DEF CommitHold, ChecksStillHold
    <3> QED
      BY <1>b, <3>3, <3>5 DEF CommitHold
  <2> QED
    BY <2>2, <2>3
<1>3. ASSUME NEW w \in Worker, call'[w].pc = "closeWrite", NEW c \in call'[w].camp
      PROVE  AllCompleted(c)'
  <2>1. CASE call'[w] = call[w]
    BY <1>a, <1>b, <1>3, <2>1 DEF FundedPhase, Call
  <2>2. CASE SameErrand(w) /\ \A b \in call[w].camp : AllCompleted(b)
    BY <1>a, <1>b, <1>3, <2>2 DEF SameErrand, Call
  <2>3. ~AtProvider(w)
    BY <1>3, PlaceHoldEffect, LegEffect
       DEF AtProvider, PlaceHold, CapturePayout, CaptureCommission, ReleaseHold, Draw, Leg
  <2> QED
    BY <1>3, <2>1, <2>2, <2>3, CallStep, SelectDealsEffect, LockCampaignEffect
       DEF OthersKeep, Started, Ended, Waits
<1> QED
  BY <1>1, <1>2, <1>3 DEF FundedPhase

----------------------------------------------------------------------------
\* HoldsAreSound

\* What a step can do to a hold: mint it for a deal, or draw on, capture or release the
\* live hold of one.
MintedFor(r, d) ==
  provider[r].state = "none" /\ provider'[r] = [state |-> "held", remaining |-> Price[d]]

DrawnDown(r) ==
  \/ provider'[r].state = "held" /\ provider'[r].remaining > 0
     /\ provider'[r].remaining <= provider[r].remaining
  \/ provider'[r] = [state |-> "captured", remaining |-> 0]
  \/ provider'[r] = [state |-> "released", remaining |-> provider[r].remaining]

\* Every other step leaves the provider alone.
LEMMA OtherStepsKeepProvider ==
  ASSUME [Next]_vars, \A w \in Worker : ~AtProvider(w)
  PROVE  UNCHANGED provider
<1>1. CASE UNCHANGED vars \/ Endpoint
  BY <1>1 DEF vars, Endpoint, MoveDeal, AcceptOffer, DeclineOffer, ExpireOffer,
     SubmitDeliverable, RequestRevision, CancelCampaign
<1>2. ASSUME NEW w \in Worker, Begin(w) \/ Lock(w) PROVE UNCHANGED provider
  BY <1>2 DEF Begin, BeginHold, BeginDealCall, Lock, TakeFirstLock, SelectDeals,
     LockCampaign, Refuse, MarkCompleted
<1>3. ASSUME NEW w \in Worker, Progress(w) PROVE UNCHANGED provider
  BY <1>3 DEF AtProvider, Progress, CommitPayout, CommitRefund, CommitHold,
     ProviderRefuses, CheckCompletion
<1>4. ASSUME NEW w \in Worker, SerializationFailure(w) \/ Fault(w) PROVE UNCHANGED provider
  BY <1>4 DEF SerializationFailure, Fault
<1> QED
  BY <1>1, <1>2, <1>3, <1>4 DEF Next

\* A hold is minted, or drawn on through the reference of a deal, or left alone.
LEMMA ProviderStep ==
  ASSUME TypeOK, [Next]_vars, NEW r \in Ref
  PROVE  \/ provider'[r] = provider[r]
         \/ \E d \in Deal : MintedFor(r, d)
         \/ /\ provider[r].state = "held" /\ DrawnDown(r)
            /\ \E d \in Deal : holdRef[d] = r
<1> DEFINE Goal == \/ provider'[r] = provider[r]
                   \/ \E d \in Deal : MintedFor(r, d)
                   \/ /\ provider[r].state = "held" /\ DrawnDown(r)
                      /\ \E d \in Deal : holdRef[d] = r
<1> SUFFICES Goal
  OBVIOUS
<1>t. provider \in [Ref -> HoldRecord]
  BY DEF TypeOK
<1>1. ASSUME NEW w \in Worker, NEW d \in Deal, NEW leg, NEW amount \in Nat,
             Draw(w, d, leg, amount)
      PROVE  Goal
  <2>1. CASE holdRef[d] = r
    <3>1. /\ CanDraw(r, amount)
          /\ provider'[r] = Drawn(provider[r], amount)
      BY <1>t, <1>1, <2>1 DEF Draw
    <3>2. provider[r].state = "held" /\ DrawnDown(r)
      BY <1>t, <3>1 DEF CanDraw, Drawn, DrawnDown, HoldRecord
    <3> QED
      BY <2>1, <3>2
  <2>2. CASE holdRef[d] # r
    BY <1>t, <1>1, <2>2 DEF Draw
  <2> QED
    BY <2>1, <2>2
<1>2. ASSUME NEW w \in Worker, NEW d \in Deal, CapturePayout(w, d) \/ CaptureCommission(w, d)
      PROVE  Goal
  BY <1>1, <1>2, SplitInRange DEF CapturePayout, CaptureCommission
<1>3. ASSUME NEW w \in Worker, NEW d \in Deal, ReleaseHold(w, d) PROVE Goal
  <2>1. CASE holdRef[d] = r
    <3>1. /\ provider[r].state = "held"
          /\ provider'[r] = [provider[r] EXCEPT !.state = "released"]
      BY <1>t, <1>3, <2>1 DEF ReleaseHold
    <3>2. DrawnDown(r)
      BY <1>t, <3>1 DEF DrawnDown, HoldRecord
    <3> QED
      BY <2>1, <3>1, <3>2
  <2>2. CASE holdRef[d] # r
    BY <1>t, <1>3, <2>2 DEF ReleaseHold
  <2> QED
    BY <2>1, <2>2
<1>4. ASSUME NEW w \in Worker, NEW d \in Deal, PlaceHold(w, d) PROVE Goal
  <2>1. PICK s \in Ref : \/ UNCHANGED provider
                         \/ /\ provider[s].state = "none"
                            /\ provider' = [provider EXCEPT
                                   ![s] = [state |-> "held", remaining |-> Price[d]]]
    BY <1>4 DEF PlaceHold
  <2>2. \/ provider'[r] = provider[r]
        \/ /\ provider[r].state = "none"
           /\ provider'[r] = [state |-> "held", remaining |-> Price[d]]
    BY <1>t, <2>1
  <2> QED
    BY <2>2 DEF MintedFor
<1>5. CASE UNCHANGED provider
  BY <1>5
<1> HIDE DEF Goal
<1> QED
  BY <1>2, <1>3, <1>4, <1>5, OtherStepsKeepProvider DEF AtProvider

\* A mint is for a positive price, and what is drawn on a hold leaves it live exactly
\* while something remains.
LEMMA NextHoldsAreSound ==
  ASSUME TypeOK, HoldsAreSound, [Next]_vars
  PROVE  HoldsAreSound'
<1> SUFFICES ASSUME NEW r \in Ref
             PROVE  /\ provider'[r].state \in {"held", "released"} => provider'[r].remaining > 0
                    /\ provider'[r].state = "captured" => provider'[r].remaining = 0
  BY DEF HoldsAreSound
<1>1. /\ provider[r].state \in {"held", "released"} => provider[r].remaining > 0
      /\ provider[r].state = "captured" => provider[r].remaining = 0
  BY DEF HoldsAreSound
<1>2. CASE provider'[r] = provider[r]
  BY <1>1, <1>2
<1>3. ASSUME NEW d \in Deal, MintedFor(r, d)
      PROVE  provider'[r].state = "held" /\ provider'[r].remaining > 0
  BY <1>3, SplitInRange DEF MintedFor
<1>4. CASE provider[r].state = "held" /\ DrawnDown(r)
  BY <1>1, <1>4 DEF DrawnDown
<1> QED
  BY <1>2, <1>3, <1>4, ProviderStep

\* How a deal comes by its hold row, and the reference in it: in the commit of the
\* funding that picked it, and only then.
LEMMA HoldRowStep ==
  ASSUME TypeOK, LedgerMatchesStatus, [Next]_vars, NEW d \in Deal
  PROVE  \/ rows'[d]["hold"] = rows[d]["hold"] /\ holdRef'[d] = holdRef[d]
         \/ \E w \in Worker : /\ CommitHold(w) /\ d \in call[w].picked
                              /\ rows[d]["hold"] = 0 /\ rows'[d]["hold"] # 0
                              /\ holdRef'[d] = call[w].refs[d]
<1>t. /\ rows \in [Deal -> [EntryType -> Nat]]
      /\ holdRef \in [Deal -> Ref \cup {NoRef}]
      /\ \A e \in Deal : dealStatus[e] \in DealStatus
  BY DEF TypeOK
<1>0. CASE ~BooksMove
  BY <1>0, OtherStepsKeepRows
<1>1. CASE \E e \in Deal : \/ AcceptOffer(e) \/ DeclineOffer(e) \/ ExpireOffer(e)
                           \/ SubmitDeliverable(e) \/ RequestRevision(e)
  BY <1>1 DEF AcceptOffer, DeclineOffer, ExpireOffer, SubmitDeliverable, RequestRevision,
     MoveDeal
<1>2. ASSUME NEW w \in Worker, CommitHold(w), d \in call[w].picked
      PROVE  /\ rows[d]["hold"] = 0 /\ rows'[d]["hold"] # 0
             /\ holdRef'[d] = call[w].refs[d]
  <2>1. dealStatus[d] = "accepted"
    BY <1>t, <1>2, TransitionTable DEF CommitHold
  <2>2. rows[d]["hold"] = 0
    BY <2>1, RowsTellStatus
  <2>3. rows'[d] = AddRows(rows[d], {"hold"})
    BY <1>2 DEF CommitHold
  <2>4. rows'[d]["hold"] = 1
    BY <2>2, <2>3 DEF AddRows, EntryType
  <2> QED
    BY <1>2, <2>2, <2>4 DEF CommitHold
<1>3. ASSUME NEW w \in Worker, CommitHold(w), d \notin call[w].picked
      PROVE  rows'[d] = rows[d] /\ holdRef'[d] = holdRef[d]
  BY <1>3 DEF CommitHold
<1>4. ASSUME NEW w \in Worker, NEW e \in Deal, CommitPayout(w, e) \/ CommitRefund(w, e)
      PROVE  rows'[d]["hold"] = rows[d]["hold"] /\ holdRef'[d] = holdRef[d]
  <2>1. CASE d = e
    <3>1. PICK types \in {PayoutRows(d), {"refund"}} : rows'[d] = AddRows(rows[d], types)
      BY <1>t, <1>4, <2>1 DEF CommitPayout, CommitRefund
    <3>2. "hold" \notin types
      BY DEF PayoutRows
    <3>3. rows'[d]["hold"] = rows[d]["hold"]
      BY <3>1, <3>2 DEF AddRows, EntryType
    <3> QED
      BY <1>4, <3>3 DEF CommitPayout, CommitRefund
  <2>2. CASE d # e
    BY <1>t, <1>4, <2>2 DEF CommitPayout, CommitRefund
  <2> QED
    BY <2>1, <2>2
<1> QED
  BY <1>0, <1>1, <1>2, <1>3, <1>4 DEF BooksMove

----------------------------------------------------------------------------
\* RefsAreMinted

\* How a call comes by a reference: the provider mints it, and nothing else moves.
PlacedFor(v, e, r) ==
  /\ MintedFor(r, e)
  /\ call'[v].refs[e] = r
  /\ UNCHANGED << rows, holdRef >>
  /\ \A w \in Worker, d \in Deal : w # v \/ d # e => call'[w].refs[d] = call[w].refs[d]

\* A call's references are kept or dropped, except where one more is minted.
LEMMA RefsStep ==
  ASSUME TypeOK, \A w \in Worker : CallShape(w)', [Next]_vars
  PROVE  \/ \A w \in Worker, d \in Deal : call'[w].refs[d] \in {NoRef, call[w].refs[d]}
         \/ \E v \in Worker, e \in Deal, r \in Ref : PlacedFor(v, e, r)
<1> DEFINE Goal ==
      \/ \A w \in Worker, d \in Deal : call'[w].refs[d] \in {NoRef, call[w].refs[d]}
      \/ \E v \in Worker, e \in Deal, r \in Ref : PlacedFor(v, e, r)
<1> SUFFICES Goal
  OBVIOUS
<1>1. CASE UNCHANGED call
  BY <1>1
<1>2. ASSUME NEW v \in Worker, OthersKeep(v),
             call'[v].refs = NoHolds \/ call'[v].refs = call[v].refs
      PROVE  Goal
  BY <1>2 DEF OthersKeep, NoHolds
<1>3. ASSUME NEW v \in Worker, OthersKeep(v),
             Started(v) \/ Ended(v) \/ Waits(v) \/ SelectDeals(v) \/ LockCampaign(v)
      PROVE  call'[v].refs = NoHolds \/ call'[v].refs = call[v].refs
  <2>1. CASE Ended(v) /\ call'[v].pc \in {"idle", "closing"}
    BY <2>1 DEF CallShape
  <2> QED
    BY <1>3, <2>1, SelectDealsEffect, LockCampaignEffect
       DEF Started, Ended, Waits, SameErrand
<1>4. ASSUME NEW v \in Worker, NEW e \in Deal,
             CapturePayout(v, e) \/ CaptureCommission(v, e) \/ ReleaseHold(v, e)
      PROVE  OthersKeep(v) /\ call'[v].refs = call[v].refs
  <2>1. PICK leg \in Leg : call' = [call EXCEPT ![v].legs = @ \cup {leg}]
    BY <1>4 DEF CapturePayout, CaptureCommission, ReleaseHold, Draw, Leg
  <2> QED
    BY <2>1, LegEffect
<1>5. ASSUME NEW v \in Worker, NEW e \in Deal, PlaceHold(v, e) PROVE Goal
  <2>1. PICK r \in Ref :
          /\ \/ call[v].refs[e] = r /\ UNCHANGED provider
             \/ /\ call[v].refs[e] = NoRef
                /\ provider[r].state = "none"
                /\ provider' = [provider EXCEPT
                                 ![r] = [state |-> "held", remaining |-> Price[e]]]
          /\ call'[v].refs = [call[v].refs EXCEPT ![e] = r]
    BY <1>5, PlaceHoldEffect
  <2>2. /\ OthersKeep(v) /\ UNCHANGED << rows, holdRef >>
        /\ call[v].refs \in [Deal -> Ref \cup {NoRef}]
    BY <1>5, PlaceHoldEffect, CallHasType DEF PlaceHold, books, Call
  <2>3. CASE call[v].refs[e] = r
    BY <2>1, <2>2, <2>3 DEF OthersKeep
  <2>4. CASE provider[r].state = "none" /\ provider' = [provider EXCEPT
                                 ![r] = [state |-> "held", remaining |-> Price[e]]]
    <3>1. MintedFor(r, e)
      BY <2>4 DEF TypeOK, MintedFor
    <3>2. PlacedFor(v, e, r)
      BY <2>1, <2>2, <3>1 DEF PlacedFor, OthersKeep
    <3> QED
      BY <3>2
  <2> QED
    BY <2>1, <2>3, <2>4
<1> HIDE DEF Goal
<1> QED
  BY <1>1, <1>2, <1>3, <1>4, <1>5, CallStep DEF AtProvider

\* What a commit of a funding does with the references it kept.
LEMMA CommitHoldRefs ==
  ASSUME TypeOK, \A w \in Worker : ChecksStillHold(w), KeptHoldsAreLive,
         NEW w \in Worker, CommitHold(w)
  PROVE  /\ UNCHANGED provider
         /\ \A d \in Deal : call'[w].refs[d] = NoRef
         /\ \A d \in call[w].picked :
              /\ call[w].refs[d] # NoRef
              /\ provider[call[w].refs[d]] = [state |-> "held", remaining |-> Price[d]]
<1>1. call'[w].refs = NoHolds
  BY DropEffect, IdleFields DEF CommitHold, Dropped
<1>2. ASSUME NEW d \in call[w].picked PROVE d \in Deal /\ call[w].refs[d] # NoRef
  BY CallHasType DEF CommitHold, ChecksStillHold, Call
<1> QED
  BY <1>1, <1>2 DEF CommitHold, KeptHoldsAreLive, NoHolds

\* A hold a funding keeps is touched by nobody.
LEMMA KeptHoldStays ==
  ASSUME TypeOK, KeptHoldsAreLive, KeptHoldsAreNoDeals, [Next]_vars,
         NEW w \in Worker, NEW d \in Deal, call[w].refs[d] # NoRef
  PROVE  provider'[call[w].refs[d]] = provider[call[w].refs[d]]
<1>1. PICK r \in Ref : r = call[w].refs[d]
  BY CallHasType DEF Call
<1>2. provider[call[w].refs[d]] = [state |-> "held", remaining |-> Price[d]]
  BY DEF KeptHoldsAreLive
<1>3. \A e \in Deal : holdRef[e] # r
  BY <1>1 DEF KeptHoldsAreNoDeals
<1>4. provider[r].state = "held"
  BY <1>1, <1>2
<1> QED
  BY <1>1, <1>3, <1>4, ProviderStep DEF MintedFor

\* A minted reference was nobody's.
LEMMA MintedIsFresh ==
  ASSUME RefsAreMinted, NEW r \in Ref, NEW x \in Deal, MintedFor(r, x)
  PROVE  /\ \A d \in Deal : holdRef[d] # r
         /\ \A w \in Worker, d \in Deal : call[w].refs[d] # r
<1>0. r # NoRef /\ provider[r].state = "none"
  BY NoRefIsNoRef DEF MintedFor
<1>1. ASSUME NEW d \in Deal, holdRef[d] = r PROVE FALSE
  BY <1>0, <1>1 DEF RefsAreMinted, RowsAreBacked
<1>2. ASSUME NEW w \in Worker, NEW d \in Deal, call[w].refs[d] = r PROVE FALSE
  <2>1. provider[r] = [state |-> "held", remaining |-> Price[d]]
    BY <1>0, <1>2 DEF RefsAreMinted, KeptHoldsAreLive
  <2> QED
    BY <1>0, <2>1
<1> QED
  BY <1>1, <1>2

\* The hold of a deal's row stays what it is, but for what is drawn on it.
LEMMA NextRowsAreBacked ==
  ASSUME TypeOK, TypeOK', \A w \in Worker : ChecksStillHold(w), LedgerMatchesStatus,
         RefsAreMinted, [Next]_vars
  PROVE  RowsAreBacked'
<1>t. /\ \A d \in Deal : Price[d] \in Nat
      /\ \A w \in Worker, d \in Deal : call[w].refs[d] \in Ref \cup {NoRef}
  BY SplitInRange, CallHasType DEF Call
<1>c. ASSUME NEW w \in Worker, CommitHold(w), NEW d \in call[w].picked
      PROVE  /\ call[w].refs[d] # NoRef
             /\ provider'[call[w].refs[d]] = [state |-> "held", remaining |-> Price[d]]
  BY <1>c, CommitHoldRefs DEF RefsAreMinted
<1>1. ASSUME NEW d \in Deal
      PROVE  IF rows'[d]["hold"] = 0
               THEN holdRef'[d] = NoRef
               ELSE /\ holdRef'[d] \in Ref
                    /\ provider'[holdRef'[d]].state # "none"
                    /\ provider'[holdRef'[d]].remaining <= Price[d]
  <2>1. CASE rows'[d]["hold"] = rows[d]["hold"] /\ holdRef'[d] = holdRef[d]
    <3>1. CASE rows[d]["hold"] = 0
      BY <2>1, <3>1 DEF RefsAreMinted, RowsAreBacked
    <3>2. CASE rows[d]["hold"] # 0
      <4>1. /\ holdRef[d] \in Ref /\ provider[holdRef[d]].state # "none"
            /\ provider[holdRef[d]].remaining <= Price[d]
        BY <3>2 DEF RefsAreMinted, RowsAreBacked
      <4>2. /\ provider'[holdRef[d]].state # "none"
            /\ provider'[holdRef[d]].remaining <= Price[d]
        <5>1. CASE provider'[holdRef[d]] = provider[holdRef[d]]
          BY <4>1, <5>1
        <5>2. CASE DrawnDown(holdRef[d])
          <6>1. provider[holdRef[d]] \in HoldRecord /\ provider'[holdRef[d]] \in HoldRecord
            BY <4>1 DEF TypeOK
          <6> QED
            BY <1>t, <4>1, <5>2, <6>1 DEF DrawnDown, HoldRecord
        <5> QED
          BY <4>1, <5>1, <5>2, ProviderStep DEF MintedFor
      <4> QED
        BY <2>1, <3>2, <4>1, <4>2
    <3> QED
      BY <3>1, <3>2
  <2>2. ASSUME NEW w \in Worker, CommitHold(w), d \in call[w].picked, rows'[d]["hold"] # 0,
               holdRef'[d] = call[w].refs[d]
        PROVE  /\ holdRef'[d] \in Ref
               /\ provider'[holdRef'[d]].state # "none"
               /\ provider'[holdRef'[d]].remaining <= Price[d]
    <3>1. /\ call[w].refs[d] # NoRef
          /\ provider'[call[w].refs[d]] = [state |-> "held", remaining |-> Price[d]]
      BY <1>c, <2>2
    <3>2. Price[d] <= Price[d] /\ call[w].refs[d] \in Ref
      BY <1>t, <3>1
    <3> QED
      BY <2>2, <3>1, <3>2
  <2> QED
    BY <2>1, <2>2, HoldRowStep
<1>2. ASSUME NEW d \in Deal, NEW e \in Deal, holdRef'[d] # NoRef, holdRef'[d] = holdRef'[e]
      PROVE  d = e
  <2>1. CASE holdRef'[d] = holdRef[d] /\ holdRef'[e] = holdRef[e]
    BY <1>2, <2>1 DEF RefsAreMinted, RowsAreBacked
  <2>2. ASSUME NEW w \in Worker, holdRef'[d] = call[w].refs[d] PROVE d = e
    <3>1. call[w].refs[d] # NoRef
      BY <1>2, <2>2
    <3>2. CASE holdRef'[e] = holdRef[e]
      BY <1>2, <2>2, <3>1, <3>2 DEF RefsAreMinted, KeptHoldsAreNoDeals
    <3>3. ASSUME NEW v \in Worker, holdRef'[e] = call[v].refs[e] PROVE d = e
      <4>1. call[v].refs[e] = call[w].refs[d]
        BY <1>2, <2>2, <3>3
      <4> QED
        BY <3>1, <4>1 DEF RefsAreMinted, KeptHoldsAreApart
    <3> QED
      BY <3>2, <3>3, HoldRowStep
  <2>3. ASSUME NEW w \in Worker, holdRef'[e] = call[w].refs[e], holdRef'[d] = holdRef[d]
        PROVE  d = e
    <3>1. call[w].refs[e] # NoRef /\ holdRef[d] = call[w].refs[e]
      BY <1>2, <2>3
    <3> QED
      BY <3>1 DEF RefsAreMinted, KeptHoldsAreNoDeals
  <2> QED
    BY <2>1, <2>2, <2>3, HoldRowStep
<1> QED
  BY <1>1, <1>2 DEF RowsAreBacked

\* What a call keeps for replay stays a live hold of the full price that no deal and no
\* other call refers to, until the commit gives it to the deal.
LEMMA NextKeptHolds ==
  ASSUME TypeOK, TypeOK', \A w \in Worker : CallShape(w)', \A w \in Worker : ChecksStillHold(w),
         LedgerMatchesStatus, RefsAreMinted, [Next]_vars
  PROVE  KeptHoldsAreLive' /\ KeptHoldsAreNoDeals' /\ KeptHoldsAreApart'
<1> USE DEF RefsAreMinted
<1>1. ASSUME NEW w \in Worker, NEW d \in Deal, NEW s, s # NoRef,
             s = call[w].refs[d], s = call'[w].refs[d]
      PROVE  /\ provider'[s] = [state |-> "held", remaining |-> Price[d]]
             /\ \A e \in Deal : holdRef'[e] # s
  <2>1. provider'[s] = [state |-> "held", remaining |-> Price[d]]
    BY <1>1, KeptHoldStays DEF KeptHoldsAreLive
  <2>2. ASSUME NEW e \in Deal, holdRef'[e] = s PROVE FALSE
    <3>1. holdRef[e] # s
      BY <1>1 DEF KeptHoldsAreNoDeals
    <3>2. PICK v \in Worker : CommitHold(v) /\ s = call[v].refs[e]
      BY <2>2, <3>1, HoldRowStep
    <3>3. v = w /\ e = d
      <4>1. call[w].refs[d] # NoRef /\ call[v].refs[e] = call[w].refs[d]
        BY <1>1, <3>2
      <4> QED
        BY <4>1 DEF KeptHoldsAreApart
    <3> QED
      BY <1>1, <3>2, <3>3, CommitHoldRefs
  <2> QED
    BY <2>1, <2>2
<1>2. CASE \A w \in Worker, d \in Deal : call'[w].refs[d] \in {NoRef, call[w].refs[d]}
  <2>1. ASSUME NEW w \in Worker, NEW d \in Deal, call'[w].refs[d] # NoRef
        PROVE  /\ call'[w].refs[d] = call[w].refs[d]
               /\ provider'[call'[w].refs[d]] = [state |-> "held", remaining |-> Price[d]]
               /\ \A e \in Deal : holdRef'[e] # call'[w].refs[d]
    <3>1. call'[w].refs[d] = call[w].refs[d]
      BY <1>2, <2>1
    <3> QED
      BY <1>1, <2>1, <3>1
  <2>2. KeptHoldsAreLive'
    BY <2>1 DEF KeptHoldsAreLive
  <2>4. KeptHoldsAreNoDeals'
    BY <2>1 DEF KeptHoldsAreNoDeals
  <2>3. ASSUME NEW w \in Worker, NEW v \in Worker, NEW d \in Deal, NEW e \in Deal,
               call'[w].refs[d] # NoRef, call'[v].refs[e] = call'[w].refs[d]
        PROVE  v = w /\ e = d
    <3>1. call[w].refs[d] # NoRef /\ call[v].refs[e] = call[w].refs[d]
      BY <2>1, <2>3
    <3> QED
      BY <3>1 DEF KeptHoldsAreApart
  <2> QED
    BY <2>2, <2>3, <2>4 DEF KeptHoldsAreApart
<1>3. ASSUME NEW u \in Worker, NEW x \in Deal, NEW r \in Ref, PlacedFor(u, x, r)
      PROVE  KeptHoldsAreLive' /\ KeptHoldsAreNoDeals' /\ KeptHoldsAreApart'
  <2>1. /\ \A d \in Deal : holdRef'[d] # r
        /\ \A w \in Worker, d \in Deal : call[w].refs[d] # r
    BY <1>3, MintedIsFresh DEF PlacedFor
  <2>2. /\ call'[u].refs[x] = r
        /\ provider'[r] = [state |-> "held", remaining |-> Price[x]]
    BY <1>3 DEF PlacedFor, MintedFor
  <2>3. \A w \in Worker, d \in Deal : w # u \/ d # x => call'[w].refs[d] = call[w].refs[d]
    BY <1>3 DEF PlacedFor
  <2>4. ASSUME NEW w \in Worker, NEW d \in Deal, call'[w].refs[d] # NoRef
        PROVE  /\ provider'[call'[w].refs[d]] = [state |-> "held", remaining |-> Price[d]]
               /\ \A e \in Deal : holdRef'[e] # call'[w].refs[d]
    <3>1. CASE w = u /\ d = x
      BY <2>1, <2>2, <3>1
    <3>2. CASE ~(w = u /\ d = x)
      BY <1>1, <2>3, <2>4, <3>2
    <3> QED
      BY <3>1, <3>2
  <2>5. ASSUME NEW w \in Worker, NEW v \in Worker, NEW d \in Deal, NEW e \in Deal,
               call'[w].refs[d] # NoRef, call'[v].refs[e] = call'[w].refs[d]
        PROVE  v = w /\ e = d
    <3>1. CASE call'[w].refs[d] = r
      BY <2>1, <2>3, <2>5, <3>1
    <3>2. CASE call'[w].refs[d] # r
      <4>1. call'[w].refs[d] = call[w].refs[d] /\ call'[v].refs[e] = call[v].refs[e]
        BY <2>2, <2>3, <2>5, <3>2
      <4> QED
        BY <2>5, <4>1 DEF KeptHoldsAreApart
    <3> QED
      BY <3>1, <3>2
  <2>6. KeptHoldsAreLive'
    BY <2>4 DEF KeptHoldsAreLive
  <2>7. KeptHoldsAreNoDeals'
    BY <2>4 DEF KeptHoldsAreNoDeals
  <2> QED
    BY <2>5, <2>6, <2>7 DEF KeptHoldsAreApart
<1> QED
  BY <1>2, <1>3, RefsStep

----------------------------------------------------------------------------
\* LegsHappened

\* A reference once recorded stays recorded.
LEMMA HoldRefStays ==
  ASSUME TypeOK, LedgerMatchesStatus, RowsAreBacked, [Next]_vars,
         NEW d \in Deal, holdRef[d] # NoRef
  PROVE  holdRef'[d] = holdRef[d] /\ holdRef[d] \in Ref
<1>1. rows[d]["hold"] # 0 /\ holdRef[d] \in Ref
  BY DEF RowsAreBacked
<1> QED
  BY <1>1, HoldRowStep

\* A hold that is recorded is only drawn on.
LEMMA RecordedHoldStep ==
  ASSUME TypeOK, LedgerMatchesStatus, RowsAreBacked, [Next]_vars,
         NEW d \in Deal, holdRef[d] # NoRef
  PROVE  /\ holdRef'[d] = holdRef[d] /\ holdRef[d] \in Ref
         /\ provider'[holdRef[d]].remaining <= provider[holdRef[d]].remaining
         /\ provider[holdRef[d]].state \in {"captured", "released"}
              => provider'[holdRef[d]] = provider[holdRef[d]]
<1>1. holdRef'[d] = holdRef[d] /\ holdRef[d] \in Ref
  BY HoldRefStays
<1>2. provider[holdRef[d]].state # "none"
  BY <1>1, NoRefIsNoRef DEF RowsAreBacked
<1>3. provider[holdRef[d]].remaining \in Nat
  BY <1>1 DEF TypeOK, HoldRecord
<1>4. DrawnDown(holdRef[d]) /\ provider[holdRef[d]].state = "held"
        => provider'[holdRef[d]].remaining <= provider[holdRef[d]].remaining
  BY <1>3 DEF DrawnDown
<1>5. \/ provider'[holdRef[d]] = provider[holdRef[d]]
      \/ provider[holdRef[d]].state = "held" /\ DrawnDown(holdRef[d])
  BY <1>1, <1>2, ProviderStep DEF MintedFor
<1> QED
  BY <1>1, <1>3, <1>4, <1>5

\* A payout or a refund past its checks has a hold to draw on.
LEMMA CallHasHold ==
  ASSUME TypeOK, LedgerMatchesStatus, RowsAreBacked, NEW w \in Worker, ChecksStillHold(w),
         call[w].pc = "moving", call[w].op \in DealOp, NEW d \in Deal, d \in call[w].deal
  PROVE  holdRef[d] \in Ref /\ provider[holdRef[d]].remaining <= Price[d]
<1>1. dealStatus[d] \in RefundableFrom
  BY DEF ChecksStillHold, StatusAllows, RefundableFrom, PayableFrom
<1>2. rows[d]["hold"] # 0
  BY <1>1, RowsTellStatus DEF RefundableFrom
<1> QED
  BY <1>2 DEF RowsAreBacked

\* What a call's legs come from.
SameLegs(w) ==
  call'[w].legs = call[w].legs /\ call'[w].op = call[w].op /\ call'[w].deal = call[w].deal

\* A step drops a call's legs, keeps them, or adds the one the provider just did.
LEMMA LegsStep ==
  ASSUME TypeOK, \A w \in Worker : CallShape(w)', [Next]_vars, NEW w \in Worker
  PROVE  \/ call'[w].legs = {}
         \/ SameLegs(w)
         \/ \E e \in Deal :
              \/ CapturePayout(w, e) \/ CaptureCommission(w, e) \/ ReleaseHold(w, e)
<1>1. call'[w] = call[w] => SameLegs(w)
  BY DEF SameLegs
<1>2. Ended(w) => call'[w].legs = {} \/ SameLegs(w)
  BY DEF Ended, CallShape, SameErrand, SameLegs
<1>3. Started(w) => call'[w].legs = {}
  BY DEF Started
<1>4. Waits(w) \/ SelectDeals(w) \/ LockCampaign(w) => SameLegs(w)
  BY SelectDealsEffect, LockCampaignEffect DEF Waits, SameErrand, SameLegs
<1>5. ASSUME NEW e \in Deal, PlaceHold(w, e) PROVE SameLegs(w)
  BY <1>5, PlaceHoldEffect DEF SameLegs
<1> QED
  BY <1>1, <1>2, <1>3, <1>4, <1>5, CallStep DEF OthersKeep, AtProvider

\* The legs of one call about one deal, and what they stand for.
LegsOf(w, d) ==
  /\ call[w].legs # {} => holdRef[d] # NoRef
  /\ "payout" \in call[w].legs =>
       provider[holdRef[d]].remaining <= CommissionOf(d)
  /\ "commission" \in call[w].legs =>
       provider[holdRef[d]] = [state |-> "captured", remaining |-> 0]
  /\ "release" \in call[w].legs => provider[holdRef[d]].state = "released"
  /\ call[w].op \in PayOp => "release" \notin call[w].legs
  /\ call[w].op = "refund" => call[w].legs \subseteq {"release"}

\* Captures and releases a call's keys stand for are never undone.
LEMMA NextLegsHappened ==
  ASSUME TypeOK, TypeOK', \A w \in Worker : CallShape(w),
         \A w \in Worker : CallShape(w)', \A w \in Worker : ChecksStillHold(w),
         LedgerMatchesStatus, HoldsAreSound,
         RowsAreBacked, LegsHappened, [Next]_vars
  PROVE  LegsHappened'
<1>t. /\ \A w \in Worker : call[w].legs \subseteq Leg
      /\ \A w \in Worker : call[w].deal \subseteq Deal
      /\ provider \in [Ref -> HoldRecord]
      /\ \A r \in Ref : provider[r].remaining \in Nat
  BY CallHasType DEF Call, TypeOK, HoldRecord
<1>p. \A d \in Deal : /\ CommissionOf(d) \in Nat /\ PayoutOf(d) \in Nat /\ Price[d] \in Nat
                      /\ PayoutOf(d) + CommissionOf(d) = Price[d]
  BY SplitInRange
<1>d. ASSUME NEW w \in Worker PROVE call'[w].deal \subseteq Deal
  BY <1>d, CallHasType DEF TypeOK, Call
<1> SUFFICES ASSUME NEW w \in Worker, NEW d \in Deal, d \in call'[w].deal
             PROVE  LegsOf(w, d)'
  BY <1>d DEF LegsHappened, LegsOf
<1>0. d \in call[w].deal => LegsOf(w, d)
  BY DEF LegsHappened, LegsOf
<1>1. CASE call'[w].legs = {}
  BY <1>1 DEF LegsOf
<1>2. CASE SameLegs(w)
  <2>1. CASE call[w].legs = {}
    BY <1>1, <1>2, <2>1 DEF SameLegs
  <2>2. CASE call[w].legs # {}
    <3>1. LegsOf(w, d) /\ holdRef[d] # NoRef
      BY <1>0, <1>2, <2>2 DEF SameLegs, LegsOf
    <3>2. /\ holdRef'[d] = holdRef[d] /\ holdRef[d] \in Ref
          /\ provider'[holdRef[d]].remaining <= provider[holdRef[d]].remaining
          /\ provider[holdRef[d]].state \in {"captured", "released"}
               => provider'[holdRef[d]] = provider[holdRef[d]]
      BY <3>1, RecordedHoldStep
    <3>3. provider'[holdRef[d]].remaining \in Int
      BY <3>2 DEF TypeOK, HoldRecord
    <3>4. "payout" \in call[w].legs => provider'[holdRef[d]].remaining <= CommissionOf(d)
      BY <1>t, <1>p, <3>1, <3>2, <3>3 DEF LegsOf
    <3>5. "commission" \in call[w].legs =>
            provider'[holdRef[d]] = [state |-> "captured", remaining |-> 0]
      BY <3>1, <3>2 DEF LegsOf
    <3>6. "release" \in call[w].legs => provider'[holdRef[d]].state = "released"
      BY <3>1, <3>2 DEF LegsOf
    <3> QED
      BY <1>2, <3>1, <3>2, <3>4, <3>5, <3>6 DEF SameLegs, LegsOf
  <2> QED
    BY <2>1, <2>2
<1>3. ASSUME NEW e \in Deal, CapturePayout(w, e) \/ CaptureCommission(w, e) \/ ReleaseHold(w, e)
      PROVE  LegsOf(w, d)'
  <2>1. PICK leg \in Leg : call' = [call EXCEPT ![w].legs = @ \cup {leg}]
    BY <1>3 DEF CapturePayout, CaptureCommission, ReleaseHold, Draw, Leg
  <2>2. /\ call'[w].op = call[w].op /\ call'[w].deal = call[w].deal
        /\ call'[w].legs = call[w].legs \cup {leg}
    BY <2>1, LegEffect
  <2>3. /\ call[w].pc = "moving" /\ call[w].op \in DealOp /\ e \in call[w].deal
        /\ UNCHANGED holdRef
    BY <1>3 DEF CapturePayout, CaptureCommission, ReleaseHold, Draw, DealOp, PayOp, books
  <2>4. e = d
    BY <2>2, <2>3 DEF CallShape
  <2>5. holdRef[d] \in Ref /\ holdRef[d] # NoRef /\ provider[holdRef[d]].remaining <= Price[d]
    BY <2>3, <2>4, CallHasHold, NoRefIsNoRef
  <2>6. LegsOf(w, d)
    BY <1>0, <2>3, <2>4
  <2> DEFINE h == provider[holdRef[d]]
  <2>7. CASE CapturePayout(w, d)
    <3>1. /\ call[w].op \in PayOp /\ "payout" \notin call[w].legs
          /\ CanDraw(holdRef[d], PayoutOf(d))
          /\ provider'[holdRef[d]] = Drawn(h, PayoutOf(d))
          /\ call'[w].legs = call[w].legs \cup {"payout"}
      BY <1>t, <2>5, <2>7, LegEffect DEF CapturePayout, Draw, Leg
    <3>2. "commission" \notin call[w].legs /\ "release" \notin call[w].legs
      BY <2>6, <3>1 DEF LegsOf, CanDraw
    <3>3. provider'[holdRef[d]].remaining <= CommissionOf(d)
      BY <1>t, <1>p, <2>5, <3>1 DEF Drawn, CanDraw
    <3> QED
      BY <2>2, <2>3, <2>5, <3>1, <3>2, <3>3 DEF LegsOf, PayOp
  <2>8. CASE CaptureCommission(w, d)
    <3>1. /\ call[w].op \in PayOp /\ "payout" \in call[w].legs /\ "commission" \notin call[w].legs
          /\ CanDraw(holdRef[d], CommissionOf(d))
          /\ provider'[holdRef[d]] = Drawn(h, CommissionOf(d))
          /\ call'[w].legs = call[w].legs \cup {"commission"}
      BY <1>t, <2>5, <2>8, LegEffect DEF CaptureCommission, Draw, Leg
    <3>2. h.remaining = CommissionOf(d)
      BY <1>t, <1>p, <2>5, <2>6, <3>1 DEF LegsOf, CanDraw
    <3>3. provider'[holdRef[d]] = [state |-> "captured", remaining |-> 0]
      BY <1>p, <3>1, <3>2 DEF Drawn
    <3>4. "release" \notin call[w].legs
      BY <2>6, <3>1 DEF LegsOf
    <3>5. provider'[holdRef[d]].remaining <= CommissionOf(d)
      BY <1>p, <3>3
    <3> QED
      BY <2>2, <2>3, <2>5, <3>1, <3>3, <3>4, <3>5 DEF LegsOf, PayOp
  <2>9. CASE ReleaseHold(w, d)
    <3>1. /\ call[w].op = "refund"
          /\ call'[w].legs = call[w].legs \cup {"release"}
          /\ provider'[holdRef[d]].state = "released"
      BY <1>t, <2>5, <2>9, LegEffect DEF ReleaseHold, HoldRecord, Leg
    <3>2. call[w].legs \subseteq {"release"}
      BY <2>6, <3>1 DEF LegsOf
    <3> QED
      BY <2>2, <2>3, <2>5, <3>1, <3>2 DEF LegsOf, PayOp
  <2> QED
    BY <1>3, <2>4, <2>7, <2>8, <2>9
<1> QED
  BY <1>1, <1>2, <1>3, LegsStep

----------------------------------------------------------------------------
\* SettledAtProvider and BalancesAgree

\* A deal becomes completed or refunded in the commit of a payout or a refund of its own.
LEMMA HowDealsSettle ==
  ASSUME TypeOK, [Next]_vars, NEW d \in Deal, dealStatus'[d] # dealStatus[d]
  PROVE  /\ dealStatus'[d] = "completed" => \E w \in Worker : CommitPayout(w, d)
         /\ dealStatus'[d] = "refunded"  => \E w \in Worker : CommitRefund(w, d)
<1>t. dealStatus \in [Deal -> DealStatus]
  BY DEF TypeOK
<1>0. BooksMove
  BY OtherStepsKeepRows
<1>1. ASSUME NEW e \in Deal, \/ AcceptOffer(e) \/ DeclineOffer(e) \/ ExpireOffer(e)
                             \/ SubmitDeliverable(e) \/ RequestRevision(e)
      PROVE  dealStatus'[d] \notin {"completed", "refunded"}
  BY <1>t, <1>1 DEF AcceptOffer, DeclineOffer, ExpireOffer, SubmitDeliverable,
     RequestRevision, MoveDeal
<1>2. ASSUME NEW w \in Worker, CommitHold(w) PROVE dealStatus'[d] = "funded"
  BY <1>2 DEF CommitHold
<1>3. ASSUME NEW w \in Worker, NEW e \in Deal, CommitPayout(w, e)
      PROVE  e = d /\ dealStatus'[d] = "completed"
  BY <1>t, <1>3 DEF CommitPayout
<1>4. ASSUME NEW w \in Worker, NEW e \in Deal, CommitRefund(w, e)
      PROVE  e = d /\ dealStatus'[d] = "refunded"
  BY <1>t, <1>4 DEF CommitRefund
<1> QED
  BY <1>0, <1>1, <1>2, <1>3, <1>4 DEF BooksMove

\* A payout commits on a captured hold, whether it had one leg to draw or two, and a
\* refund on a released one.
LEMMA SettledByLegs ==
  ASSUME TypeOK, LedgerMatchesStatus, \A w \in Worker : ChecksStillHold(w),
         HoldsAreSound, RowsAreBacked, LegsHappened,
         NEW w \in Worker, NEW d \in Deal
  PROVE  /\ CommitPayout(w, d) =>
              provider[holdRef[d]] = [state |-> "captured", remaining |-> 0]
         /\ CommitRefund(w, d) => provider[holdRef[d]].state = "released"
<1>1. CommitRefund(w, d) => provider[holdRef[d]].state = "released"
  BY DEF CommitRefund, LegsHappened
<1> SUFFICES ASSUME CommitPayout(w, d)
             PROVE  provider[holdRef[d]] = [state |-> "captured", remaining |-> 0]
  BY <1>1
<1>2. /\ call[w].pc = "moving" /\ call[w].op \in DealOp /\ d \in call[w].deal
      /\ PayLegsDone(w, d)
  BY DEF CommitPayout, PayOp, DealOp
<1>3. holdRef[d] \in Ref
  BY <1>2, CallHasHold
<1>4. CASE CommissionOf(d) > 0
  BY <1>2, <1>4 DEF PayLegsDone, LegsHappened
<1>5. CASE ~(CommissionOf(d) > 0)
  <2>1. CommissionOf(d) = 0
    BY <1>5, SplitInRange
  <2>2. provider[holdRef[d]].remaining <= 0
    BY <1>2, <2>1 DEF PayLegsDone, LegsHappened
  <2>3. provider[holdRef[d]] \in HoldRecord
    BY <1>3 DEF TypeOK
  <2>4. provider[holdRef[d]].state # "none"
    BY <1>3, NoRefIsNoRef DEF RowsAreBacked
  <2>5. provider[holdRef[d]].state = "captured" /\ provider[holdRef[d]].remaining = 0
    BY <1>3, <2>2, <2>3, <2>4 DEF HoldsAreSound, HoldRecord
  <2> QED
    BY <2>3, <2>5 DEF HoldRecord
<1> QED
  BY <1>4, <1>5

\* What was settled at the provider stays settled.
LEMMA NextSettledAtProvider ==
  ASSUME TypeOK, LedgerMatchesStatus, \A w \in Worker : ChecksStillHold(w),
         HoldsAreSound, RowsAreBacked, LegsHappened, SettledAtProvider, [Next]_vars
  PROVE  SettledAtProvider'
<1> SUFFICES ASSUME NEW d \in Deal, dealStatus'[d] \in {"completed", "refunded"}
             PROVE  /\ dealStatus'[d] = "completed" => provider'[holdRef'[d]] =
                                                 [state |-> "captured", remaining |-> 0]
                    /\ dealStatus'[d] = "refunded" => provider'[holdRef'[d]].state = "released"
  BY DEF SettledAtProvider
<1>1. CASE dealStatus'[d] = dealStatus[d]
  <2>1. rows[d]["hold"] # 0
    BY <1>1, RowsTellStatus
  <2>2. holdRef[d] # NoRef
    BY <2>1, NoRefIsNoRef DEF RowsAreBacked
  <2>3. provider[holdRef[d]].state \in {"captured", "released"}
    BY <1>1 DEF SettledAtProvider
  <2>4. holdRef'[d] = holdRef[d] /\ provider'[holdRef[d]] = provider[holdRef[d]]
    BY <2>2, <2>3, RecordedHoldStep
  <2> QED
    BY <1>1, <2>4 DEF SettledAtProvider
<1>2. CASE dealStatus'[d] # dealStatus[d]
  <2>1. ASSUME NEW w \in Worker, CommitPayout(w, d) PROVE UNCHANGED << provider, holdRef >>
    BY <2>1 DEF CommitPayout
  <2>2. ASSUME NEW w \in Worker, CommitRefund(w, d) PROVE UNCHANGED << provider, holdRef >>
    BY <2>2 DEF CommitRefund
  <2> QED
    BY <1>2, <2>1, <2>2, HowDealsSettle, SettledByLegs
<1> QED
  BY <1>1, <1>2

\* A transaction whose snapshot was overtaken does not commit, so the balance it wrote
\* next to its rows is the new sum.
LEMMA NextBalancesAgree ==
  ASSUME TypeOK, BalancesAgree, [Next]_vars
  PROVE  BalancesAgree'
<1>1. ASSUME NEW w \in Worker, NEW net \in Int, SnapshotValid(w), PostRows(w, net)
      PROVE  BalancesAgree'
  BY <1>1 DEF SnapshotValid, PostRows, BalancesAgree
<1>2. ASSUME NEW w \in Worker, CommitHold(w) PROVE BalancesAgree'
  <2>1. call[w].inserted \in Int
    BY CallHasType DEF Call
  <2> QED
    BY <1>1, <1>2, <2>1 DEF CommitHold
<1>3. ASSUME NEW w \in Worker, NEW d \in Deal, CommitPayout(w, d) \/ CommitRefund(w, d)
      PROVE  BalancesAgree'
  BY <1>1, <1>3, SplitInRange DEF CommitPayout, CommitRefund
<1>4. CASE ~(\E w \in Worker : \/ CommitHold(w)
                              \/ \E d \in Deal : CommitPayout(w, d) \/ CommitRefund(w, d))
  <2>1. UNCHANGED << escrowed, balanceAfter >>
    BY <1>4 DEF Next, vars, books, Endpoint, MoveDeal, AcceptOffer, DeclineOffer,
       ExpireOffer, SubmitDeliverable, RequestRevision, CancelCampaign, Begin, BeginHold,
       BeginDealCall, Lock, TakeFirstLock, SelectDeals, LockCampaign, Progress, Refuse,
       PlaceHold, CapturePayout, CaptureCommission, ReleaseHold, Draw, ProviderRefuses,
       CheckCompletion, MarkCompleted, SerializationFailure, Fault
  <2> QED
    BY <2>1 DEF BalancesAgree
<1> QED
  BY <1>2, <1>3, <1>4

----------------------------------------------------------------------------
\* The whole invariant

\* A call that is over is about nothing.
LEMMA IdleIsInShape ==
  ASSUME NEW w \in Worker, call[w] = Idle
  PROVE  CallShape(w) /\ ChecksStillHold(w)
  BY IdleFields DEF CallShape, ChecksStillHold, DealOp

\* The initial state satisfies the inductive invariant.
LEMMA InitIInv == Init => IInv
<1> SUFFICES ASSUME Init PROVE IInv
  OBVIOUS
<1>i. \A w \in Worker : call[w] = Idle
  BY DEF Init
<1>r. \A d \in Deal : dealStatus[d] = "pending" /\ holdRef[d] = NoRef /\ rows[d] = NoRows
  BY DEF Init, NoHolds
<1>k. \A w \in Worker, d \in Deal : call[w].refs[d] = NoRef
  BY <1>i, IdleFields DEF NoHolds
<1>1. TypeOK /\ LedgerMatchesStatus
  BY InitTypeOK, InitLedgerMatchesStatus
<1>2. \A w \in Worker : CallShape(w) /\ ChecksStillHold(w)
  BY <1>i, IdleIsInShape
<1>3. LocksExclude
  BY <1>i, IdleFields DEF LocksExclude, LocksDeal, LocksCampaign, InTransaction
<1>4. FundedPhase
  BY <1>i, <1>r, IdleFields DEF FundedPhase, Init
<1>5. HoldsAreSound
  BY DEF HoldsAreSound, Init, Unminted
<1>6. RefsAreMinted
  BY <1>r, <1>k DEF RefsAreMinted, RowsAreBacked, KeptHoldsAreLive, KeptHoldsAreNoDeals,
     KeptHoldsAreApart, NoRows, EntryType
<1>7. LegsHappened
  BY <1>i, IdleFields DEF LegsHappened
<1>8. SettledAtProvider
  BY <1>r DEF SettledAtProvider
<1>9. BalancesAgree
  BY DEF BalancesAgree, Init
<1> QED
  BY <1>1, <1>2, <1>3, <1>4, <1>5, <1>6, <1>7, <1>8, <1>9 DEF IInv

\* The invariant is inductive: one lemma per conjunct, each from the whole of it.
LEMMA NextIInv == IInv /\ [Next]_vars => IInv'
<1> SUFFICES ASSUME IInv, [Next]_vars PROVE IInv'
  OBVIOUS
<1>i. /\ TypeOK /\ LocksExclude /\ LedgerMatchesStatus /\ FundedPhase /\ HoldsAreSound
      /\ BalancesAgree /\ RefsAreMinted /\ RowsAreBacked /\ LegsHappened /\ SettledAtProvider
      /\ \A w \in Worker : CallShape(w)
      /\ \A w \in Worker : ChecksStillHold(w)
  BY DEF IInv, RefsAreMinted
<1>1. TypeOK' /\ LedgerMatchesStatus'
  BY <1>i, NextTypeOK, NextLedgerMatchesStatus
<1>2. \A w \in Worker : CallShape(w)'
  BY <1>i, NextCallShape
<1>3. \A w \in Worker : ChecksStillHold(w)'
  BY <1>i, NextChecksStillHold
<1>4. LocksExclude'
  BY <1>i, NextLocksExclude
<1>5. FundedPhase'
  BY <1>i, NextFundedPhase
<1>6. HoldsAreSound'
  BY <1>i, NextHoldsAreSound
<1>7. RowsAreBacked'
  BY <1>i, <1>1, NextRowsAreBacked
<1>8. KeptHoldsAreLive' /\ KeptHoldsAreNoDeals' /\ KeptHoldsAreApart'
  BY <1>i, <1>1, <1>2, NextKeptHolds
<1>9. LegsHappened'
  BY <1>i, <1>1, <1>2, NextLegsHappened
<1>10. SettledAtProvider'
  BY <1>i, NextSettledAtProvider
<1>11. BalancesAgree'
  BY <1>i, NextBalancesAgree
<1> QED
  BY <1>1, <1>2, <1>3, <1>4, <1>5, <1>6, <1>7, <1>8, <1>9, <1>10, <1>11
     DEF IInv, RefsAreMinted

\* Every part of the invariant holds in every state the money path can reach.
THEOREM InvariantHolds == Spec => []IInv
  BY InitIInv, NextIInv, PTL DEF Spec

\* A deal the ledger calls paid has a hold captured to the last santim, and one it
\* calls refunded a released hold, however often the call that did it was replayed.
THEOREM SettledMoneyIsAtProvider == Spec => []SettledAtProvider
<1>1. IInv => SettledAtProvider
  BY DEF IInv
<1> QED
  BY <1>1, InvariantHolds, PTL

\* A cancelled campaign has no money in the ledger and a completed one no unpaid deal.
THEOREM CampaignStatusIsTrue == Spec => []CampaignTellsTheMoney
<1>1. IInv => CampaignTellsTheMoney
  BY DEF IInv, FundedPhase, AllCompleted, DealsOf, CampaignTellsTheMoney
<1> QED
  BY <1>1, InvariantHolds, PTL

----------------------------------------------------------------------------
\* The promise

\* What the rows a status owes amount to.
Worth(s) ==
  IF s \in RefundableFrom THEN "held"
  ELSE IF s = "completed" THEN "paid"
  ELSE IF s = "refunded"  THEN "returned"
  ELSE "none"

\* The four sets of rows the mapping tells apart are different.
LEMMA MoneyOfOwed == \A s \in DealStatus : MoneyOf(RowsOwed(s)) = Worth(s)
<1> DEFINE held     == AddRows(NoRows, {"hold"})
           paid     == AddRows(NoRows, {"hold", "release_payout", "commission"})
           returned == AddRows(NoRows, {"hold", "refund"})
<1>1. /\ NoRows["hold"] = 0     /\ NoRows["refund"] = 0
      /\ held["hold"] = 1       /\ held["refund"] = 0 /\ held["commission"] = 0
      /\ paid["hold"] = 1       /\ paid["refund"] = 0 /\ paid["commission"] = 1
      /\ returned["hold"] = 1   /\ returned["refund"] = 1
  BY DEF AddRows, NoRows, EntryType
<1> HIDE DEF held, paid, returned
<1>2. /\ MoneyOf(NoRows) = "none" /\ MoneyOf(held) = "held"
      /\ MoneyOf(paid) = "paid"   /\ MoneyOf(returned) = "returned"
  <2>1. NoRows # held /\ NoRows # paid /\ NoRows # returned
        /\ held # paid /\ held # returned /\ paid # returned
    BY <1>1
  <2> QED
    BY <2>1 DEF MoneyOf, held, paid, returned
<1> QED
  BY <1>2, RowsOwedBy DEF Worth, DealStatus, RefundableFrom, held, paid, returned

\* The mapped money follows from the statuses, before and after a step.
LEMMA MoneyIsWorth ==
  ASSUME TypeOK, LedgerMatchesStatus
  PROVE  money = [d \in Deal |-> Worth(dealStatus[d])]
  BY MoneyOfOwed DEF TypeOK, LedgerMatchesStatus, money

\* The initial state is the promised one.
LEMMA InitPromise == Init => Promise!PromiseInit
<1> SUFFICES ASSUME Init PROVE Promise!PromiseInit
  OBVIOUS
<1>1. money = [d \in Deal |-> Worth(dealStatus[d])]
  BY InitTypeOK, InitLedgerMatchesStatus, MoneyIsWorth
<1>2. money = [d \in Deal |-> "none"]
  BY <1>1 DEF Init, Worth, RefundableFrom
<1>3. phase = [c \in Campaign |-> "open"]
  BY DEF Init, phase, PhaseOf
<1> QED
  BY <1>2, <1>3 DEF Promise!PromiseInit

\* Each step is a promised one or changes neither the money nor a phase.
LEMMA StepKeepsThePromise ==
  ASSUME IInv, [Next]_vars
  PROVE  Promise!PromiseNext \/ UNCHANGED << money, phase >>
<1>i. /\ TypeOK /\ LedgerMatchesStatus /\ FundedPhase
      /\ \A w \in Worker : CallShape(w)
      /\ \A w \in Worker : ChecksStillHold(w)
      /\ TypeOK' /\ LedgerMatchesStatus'
  BY NextIInv DEF IInv
<1>t. /\ \A d \in Deal : dealStatus[d] \in DealStatus
      /\ dealStatus \in [Deal -> DealStatus]
      /\ campaignStatus \in [Campaign -> CampaignStatus]
  BY <1>i DEF TypeOK
<1>m. /\ money = [d \in Deal |-> Worth(dealStatus[d])]
      /\ money' = [d \in Deal |-> Worth(dealStatus'[d])]
      /\ phase = [c \in Campaign |-> PhaseOf(campaignStatus[c])]
      /\ phase' = [c \in Campaign |-> PhaseOf(campaignStatus'[c])]
  BY <1>i, MoneyIsWorth, MoneyOfOwed
     DEF TypeOK, LedgerMatchesStatus, RowsOwed, money, phase, PhaseOf
<1> DEFINE Goal == Promise!PromiseNext \/ UNCHANGED << money, phase >>
<1>1. CASE UNCHANGED << dealStatus, campaignStatus >>
  BY <1>1, <1>m
<1>2. ASSUME NEW d \in Deal, NEW to \in {"accepted", "declined", "expired", "delivered",
                                         "revision_requested"}, MoveDeal(d, to)
      PROVE  UNCHANGED << money, phase >>
  <2>1. Worth(to) = Worth(dealStatus[d])
    BY <1>t, <1>2, TransitionTable DEF MoveDeal, Worth, RefundableFrom
  <2>2. \A e \in Deal : Worth(dealStatus'[e]) = Worth(dealStatus[e])
    BY <1>t, <1>2, <2>1 DEF MoveDeal
  <2>3. UNCHANGED campaignStatus
    BY <1>2 DEF MoveDeal
  <2> QED
    BY <1>m, <2>2, <2>3
<1>3. CASE \E d \in Deal : \/ AcceptOffer(d) \/ DeclineOffer(d) \/ ExpireOffer(d)
                           \/ SubmitDeliverable(d) \/ RequestRevision(d)
  BY <1>2, <1>3 DEF AcceptOffer, DeclineOffer, ExpireOffer, SubmitDeliverable,
     RequestRevision
<1>4. ASSUME NEW c \in Campaign, CancelCampaign(c) PROVE Promise!Cancel(c)
  <2>1. campaignStatus[c] \in {"draft", "confirmed"} /\ UNCHANGED dealStatus
        /\ campaignStatus' = [campaignStatus EXCEPT ![c] = "cancelled"]
    BY <1>4 DEF CancelCampaign, Cancellable
  <2>2. phase[c] = "open"
    BY <1>m, <2>1 DEF PhaseOf
  <2>3. phase' = [phase EXCEPT ![c] = "cancelled"]
    BY <1>m, <1>t, <2>1 DEF PhaseOf
  <2>4. UNCHANGED money
    BY <1>m, <2>1
  <2> QED
    BY <2>2, <2>3, <2>4 DEF Promise!Cancel
<1>5. ASSUME NEW w \in Worker, CommitHold(w) PROVE \E c \in Campaign : Promise!Fund(c)
  <2> DEFINE chosen == call[w].picked
  <2>1. PICK c \in Campaign : call[w].camp = {c}
    BY <1>5, <1>i DEF CommitHold, CallShape
  <2>2. /\ campaignStatus[c] = "confirmed" /\ chosen # {} /\ chosen \subseteq Deal
        /\ \A d \in chosen : dealStatus[d] = "accepted" /\ CampaignOf[d] = c
    BY <1>5, <1>i, <2>1, CallHasType DEF CommitHold, ChecksStillHold, Call
  <2>3. /\ dealStatus' = [d \in Deal |-> IF d \in chosen THEN "funded" ELSE dealStatus[d]]
        /\ campaignStatus' = [b \in Campaign |-> IF b = c THEN "funded" ELSE campaignStatus[b]]
    BY <1>5, <2>1 DEF CommitHold
  <2> HIDE DEF chosen
  <2>4. phase[c] = "open" /\ phase' = [phase EXCEPT ![c] = "funded"]
    BY <1>m, <2>2, <2>3 DEF PhaseOf
  <2>5. /\ \A d \in chosen : money[d] = "none"
        /\ money' = [d \in Deal |-> IF d \in chosen THEN "held" ELSE money[d]]
    BY <1>m, <2>2, <2>3 DEF Worth, RefundableFrom
  <2>6. chosen \in SUBSET { d \in Deal : CampaignOf[d] = c }
    BY <2>2
  <2>7. Promise!Fund(c)
    BY <2>2, <2>4, <2>5, <2>6 DEF Promise!Fund
  <2> QED
    BY <2>7
<1>6. ASSUME NEW w \in Worker, NEW d \in Deal, CommitPayout(w, d)
      PROVE  Promise!Settle(d, "paid")
  <2>1. /\ dealStatus[d] = "delivered" /\ UNCHANGED campaignStatus
        /\ dealStatus' = [dealStatus EXCEPT ![d] = "completed"]
    BY <1>6, <1>t, TransitionTable DEF CommitPayout
  <2>2. money[d] = "held" /\ money' = [money EXCEPT ![d] = "paid"]
    BY <1>m, <1>t, <2>1 DEF Worth, RefundableFrom
  <2>3. UNCHANGED phase
    BY <1>m, <2>1
  <2> QED
    BY <2>2, <2>3 DEF Promise!Settle
<1>7. ASSUME NEW w \in Worker, NEW d \in Deal, CommitRefund(w, d)
      PROVE  Promise!Settle(d, "returned")
  <2>1. /\ dealStatus[d] \in RefundableFrom /\ UNCHANGED campaignStatus
        /\ dealStatus' = [dealStatus EXCEPT ![d] = "refunded"]
    BY <1>7, <1>t, TransitionTable DEF CommitRefund
  <2>2. money[d] = "held" /\ money' = [money EXCEPT ![d] = "returned"]
    BY <1>m, <1>t, <2>1 DEF Worth, RefundableFrom
  <2>3. UNCHANGED phase
    BY <1>m, <2>1
  <2> QED
    BY <2>2, <2>3 DEF Promise!Settle
<1>8. ASSUME NEW w \in Worker, MarkCompleted(w) PROVE Goal
  <2>1. PICK c \in Campaign : call[w].camp = {c}
    BY <1>8, <1>i DEF MarkCompleted, CallShape
  <2>2. /\ AllCompleted(c) /\ UNCHANGED dealStatus
        /\ campaignStatus' = [b \in Campaign |-> IF b = c THEN "completed" ELSE campaignStatus[b]]
    BY <1>8, <1>i, <2>1 DEF MarkCompleted, FundedPhase
  <2>3. PICK d \in Deal : CampaignOf[d] = c /\ dealStatus[d] = "completed"
    BY <2>2 DEF AllCompleted, DealsOf
  <2>4. rows[d] # NoRows
    BY <1>i, <2>3, RowsTellStatus
  <2>5. campaignStatus[c] \in {"funded", "completed"}
    BY <1>i, <2>3, <2>4 DEF FundedPhase
  <2>6. UNCHANGED money
    BY <1>m, <2>2
  <2>7. phase[c] \in {"funded", "completed"} /\ phase' = [phase EXCEPT ![c] = "completed"]
    BY <1>m, <2>2, <2>5 DEF PhaseOf
  <2>8. \A e \in Deal : CampaignOf[e] = c => money[e] = "paid"
    BY <1>m, <2>2 DEF AllCompleted, DealsOf, Worth, RefundableFrom
  <2>9. CASE phase[c] = "funded"
    BY <2>6, <2>7, <2>8, <2>9 DEF Promise!PromiseNext, Promise!Close
  <2>10. CASE phase[c] = "completed"
    <3>1. phase' = phase
      BY <1>m, <2>7, <2>10
    <3> QED
      BY <2>6, <3>1
  <2> QED
    BY <2>7, <2>9, <2>10
<1>9. CASE ~BooksMove /\ ~CampaignMove
  BY <1>1, <1>9, OtherStepsKeepRows, OtherStepsKeepCampaigns
<1> QED
  BY <1>3, <1>4, <1>5, <1>6, <1>7, <1>8, <1>9 DEF BooksMove, CampaignMove,
     Promise!PromiseNext

\* The detailed money path implements the promise: whatever the interleaving of
\* endpoints, calls, retries and faults, money is held once, with all the deals of its
\* funding, and paid or returned once, and a campaign closes on paid deals only.
THEOREM LedgerKeepsThePromise == Spec => KeepsThePromise
<1>1. IInv /\ [Next]_vars => [Promise!PromiseNext]_<< money, phase >>
  BY StepKeepsThePromise
<1> QED
  BY <1>1, InitPromise, InvariantHolds, PTL DEF Spec, KeepsThePromise, Promise!PromiseSpec

----------------------------------------------------------------------------
\* RetryLosesNoHold

\* A reference a call keeps for replay is dropped only when the call ends.
LEMMA RefsEndWithTheCall ==
  ASSUME IInv, [Next]_vars, NEW w \in Worker, NEW d \in Deal,
         call[w].refs[d] # NoRef, call'[w].refs[d] # call[w].refs[d]
  PROVE  call[w].pc # "idle" /\ call'[w].pc = "idle"
<1>i. /\ TypeOK /\ CallShape(w) /\ KeptHoldsAreLive
      /\ \A v \in Worker : CallShape(v)
      /\ \A v \in Worker : CallShape(v)'
  BY NextIInv DEF IInv, RefsAreMinted
<1>1. call[w].op = "hold"
  BY <1>i, OpHasType DEF CallShape, NoHolds
<1>2. call[w].pc \notin {"idle", "closing", "closeWrite"}
  BY <1>i, <1>1 DEF CallShape
<1>3. ~SameErrand(w) /\ call'[w] # call[w]
  BY DEF SameErrand
<1>4. ASSUME NEW e \in Deal, PlaceHold(w, e) PROVE FALSE
  <2>1. PICK r \in Ref : /\ call[w].refs[e] \in {r, NoRef}
                         /\ call'[w].refs = [call[w].refs EXCEPT ![e] = r]
    BY <1>i, <1>4, PlaceHoldEffect
  <2>2. call[w].refs \in [Deal -> Ref \cup {NoRef}]
    BY <1>i, CallHasType DEF Call
  <2> QED
    BY <2>1, <2>2
<1>5. ~AtProvider(w)
  BY <1>1, <1>4 DEF AtProvider, CapturePayout, CaptureCommission, ReleaseHold, PayOp
<1>6. ~SelectDeals(w) /\ ~LockCampaign(w) /\ ~Waits(w) /\ ~Started(w)
  BY <1>i, <1>2, <1>3, SelectDealsEffect, LockCampaignEffect DEF Waits, Started
<1>7. Ended(w)
  BY <1>i, <1>3, <1>5, <1>6, CallStep DEF OthersKeep
<1> QED
  BY <1>1, <1>2, <1>3, <1>7 DEF Ended, PayOp

\* What a step leaves of the answers for a hold.
LEMMA OwnedStays ==
  ASSUME IInv, [Next]_vars, NEW r \in Ref, Owned(r)
  PROVE  Owned(r)' \/ \E w \in Worker : call[w].pc # "idle" /\ call'[w].pc = "idle"
<1>i. TypeOK /\ LedgerMatchesStatus /\ RowsAreBacked
  BY DEF IInv, RefsAreMinted
<1>1. ASSUME NEW d \in Deal, holdRef[d] = r PROVE Owned(r)'
  BY <1>i, <1>1, HoldRefStays, NoRefIsNoRef DEF Owned
<1>2. ASSUME NEW w \in Worker, NEW d \in Deal, call[w].refs[d] = r
      PROVE  Owned(r)' \/ (call[w].pc # "idle" /\ call'[w].pc = "idle")
  <2>1. CASE call'[w].refs[d] = r
    BY <2>1 DEF Owned
  <2>2. CASE call'[w].refs[d] # r
    BY <1>2, <2>2, RefsEndWithTheCall, NoRefIsNoRef
  <2> QED
    BY <2>1, <2>2
<1> QED
  BY <1>1, <1>2 DEF Owned

\* No step but the end of a call loses sight of a live hold: a serialization retry
\* keeps the keys that mint it, and a commit hands it to the deal.
THEOREM RetriesStrandNoHold == Spec => RetryLosesNoHold
<1>1. IInv /\ [Next]_vars =>
        [\A r \in Ref :
           provider[r].state = "held" /\ Owned(r) =>
             \/ Owned(r)'
             \/ \E w \in Worker : call[w].pc # "idle" /\ call'[w].pc = "idle"]_vars
  BY OwnedStays
<1> QED
  BY <1>1, InvariantHolds, PTL DEF Spec, RetryLosesNoHold

----------------------------------------------------------------------------
\* What the screens show: the sum the ledger keeps

\* A funding transaction has inserted the prices of the deals it has placed holds for.
InsertedBy(w) ==
  /\ call[w].pc \in {"begun", "locked"} => call[w].inserted = 0
  /\ call[w].pc = "moving" /\ call[w].op = "hold" =>
       /\ call[w].picked \subseteq Deal /\ call[w].todo \subseteq call[w].picked
       /\ call[w].inserted = SumFunctionOnSet(Price, call[w].picked \ call[w].todo)

InsertedIsPlaced == \A w \in Worker : InsertedBy(w)

\* The price of a deal while it is in escrow.
InEscrow == [d \in Deal |-> IF dealStatus[d] \in RefundableFrom THEN Price[d] ELSE 0]

\* The sum of a campaign's rows is the price of its deals in escrow.
EscrowIsHeld ==
  \A c \in Campaign : escrowed[c] = SumFunctionOnSet(InEscrow, DealsOf(c))

ScreensInv == IInv /\ InsertedIsPlaced /\ EscrowIsHeld

\* Sets of deals are finite and prices are numbers, so the laws of sums apply.
LEMMA SomeDeals == \A D \in SUBSET Deal : IsFiniteSet(D) /\ \A d \in D : Price[d] \in Int
  BY DealsAreFinite, FS_Subset, SplitInRange

\* One more hold placed, one more price inserted.
LEMMA PlaceHoldInserts ==
  ASSUME TypeOK, NEW w \in Worker, NEW d \in Deal, InsertedBy(w), PlaceHold(w, d),
         call[w].op = "hold"
  PROVE  InsertedBy(w)'
<1>1. PICK r \in Ref : call' = [call EXCEPT ![w] = Placed(@, d, r)]
  BY DEF PlaceHold
<1>2. call'[w] = Placed(call[w], d, r)
  BY <1>1 DEF TypeOK
<1>3. /\ call'[w].pc = call[w].pc /\ call'[w].op = call[w].op
      /\ call'[w].picked = call[w].picked
      /\ call'[w].todo = call[w].todo \ {d}
      /\ call'[w].inserted = call[w].inserted + Price[d]
  BY <1>2, CallHasType DEF Call, Placed
<1>4. call[w].pc = "moving" /\ d \in call[w].todo
  BY DEF PlaceHold
<1>5. /\ call[w].picked \subseteq Deal /\ call[w].todo \subseteq call[w].picked
      /\ call[w].inserted = SumFunctionOnSet(Price, call[w].picked \ call[w].todo)
  BY <1>4 DEF InsertedBy
<1> PICK placed, more : /\ placed = call[w].picked \ call[w].todo
                        /\ more = call'[w].picked \ call'[w].todo
  OBVIOUS
<1>6. more \in SUBSET Deal /\ d \in more /\ placed = more \ {d}
  BY <1>3, <1>4, <1>5
<1>7. IsFiniteSet(more) /\ \A x \in more : Price[x] \in Int
  BY <1>6, SomeDeals
<1>8. SumFunctionOnSet(Price, more) = Price[d] + SumFunctionOnSet(Price, placed)
  BY <1>6, <1>7, TotalRemove
<1>9. call[w].inserted \in Int /\ Price[d] \in Int
  BY CallHasType, SplitInRange DEF Call
<1>10. call'[w].inserted = SumFunctionOnSet(Price, more)
  BY <1>3, <1>5, <1>8, <1>9
<1> QED
  BY <1>3, <1>4, <1>5, <1>10 DEF InsertedBy

\* What a call inserts is set back whenever an attempt starts.
LEMMA NextInsertedIsPlaced ==
  ASSUME TypeOK, \A w \in Worker : CallShape(w), InsertedIsPlaced, [Next]_vars
  PROVE  InsertedIsPlaced'
<1>a. CASE UNCHANGED call
  BY <1>a DEF InsertedIsPlaced, InsertedBy
<1>b. ASSUME NEW w \in Worker, OthersKeep(w), InsertedBy(w)' PROVE InsertedIsPlaced'
  BY <1>b DEF InsertedIsPlaced, InsertedBy, OthersKeep
<1>c. ASSUME NEW w \in Worker, call'[w].pc \notin {"begun", "locked", "moving"}
      PROVE  InsertedBy(w)'
  BY <1>c DEF InsertedBy
<1>1. CASE UNCHANGED vars \/ Endpoint
  BY <1>1, <1>a DEF vars, Endpoint, MoveDeal, CancelCampaign, AcceptOffer, DeclineOffer,
     ExpireOffer, SubmitDeliverable, RequestRevision
<1>2. ASSUME NEW w \in Worker, Begin(w) PROVE InsertedIsPlaced'
  <2>1. ASSUME NEW c \in Campaign, BeginHold(w, c) PROVE InsertedIsPlaced'
    <3>1. call'[w] = [Idle EXCEPT !.pc = "begun", !.op = "hold", !.camp = {c}]
      BY <2>1, BeginHoldEffect
    <3>2. call'[w].pc = "begun" /\ call'[w].inserted = 0
      BY <3>1 DEF Idle
    <3> QED
      BY <2>1, <3>2, <1>b, BeginHoldEffect DEF InsertedBy
  <2>2. ASSUME NEW d \in Deal, NEW op \in DealOp, BeginDealCall(w, d, op)
        PROVE  InsertedIsPlaced'
    <3>1. call'[w] = [Idle EXCEPT !.pc = "begun", !.op = op, !.deal = {d},
                                  !.camp = {CampaignOf[d]}]
      BY <2>2, BeginDealCallEffect
    <3>2. call'[w].pc = "begun" /\ call'[w].inserted = 0
      BY <3>1 DEF Idle
    <3> QED
      BY <2>2, <3>2, <1>b, BeginDealCallEffect DEF InsertedBy
  <2> QED
    BY <1>2, <2>1, <2>2 DEF Begin
<1>3. ASSUME NEW w \in Worker, call' = [call EXCEPT ![w] = Idle] PROVE InsertedIsPlaced'
  BY <1>3, <1>b, <1>c, DropEffect, IdleFields DEF Dropped
<1>4. ASSUME NEW w \in Worker, TakeFirstLock(w) PROVE InsertedIsPlaced'
  <2>1. PICK c \in call[w].camp :
          call' = [call EXCEPT ![w] = [@ EXCEPT !.pc = "locked", !.balance = escrowed[c]]]
    BY <1>4 DEF TakeFirstLock
  <2>2. call'[w] = [call[w] EXCEPT !.pc = "locked", !.balance = escrowed[c]]
    BY <2>1 DEF TypeOK
  <2>3. call'[w].pc = "locked" /\ call'[w].inserted = call[w].inserted
    BY <2>2, CallDomain
  <2>4. call[w].inserted = 0
    BY <1>4 DEF InsertedIsPlaced, InsertedBy, TakeFirstLock
  <2> QED
    BY <1>4, <2>3, <2>4, <1>b, TakeFirstLockEffect DEF InsertedBy
<1>5. ASSUME NEW w \in Worker, SelectDeals(w) PROVE InsertedIsPlaced'
  <2>1. PICK c \in call[w].camp :
          call' = [call EXCEPT ![w] = [@ EXCEPT !.pc = "moving",
                      !.todo = AcceptedDeals(c), !.picked = AcceptedDeals(c)]]
    BY <1>5 DEF SelectDeals
  <2>2. call'[w] = [call[w] EXCEPT !.pc = "moving", !.todo = AcceptedDeals(c),
                                   !.picked = AcceptedDeals(c)]
    BY <2>1 DEF TypeOK
  <2>3. /\ call'[w].pc = "moving" /\ call'[w].inserted = call[w].inserted
        /\ call'[w].todo = AcceptedDeals(c) /\ call'[w].picked = AcceptedDeals(c)
    BY <2>2, CallDomain
  <2>4. call[w].inserted = 0
    BY <1>5 DEF InsertedIsPlaced, InsertedBy, SelectDeals
  <2>5. AcceptedDeals(c) \subseteq Deal
    BY DEF AcceptedDeals, DealsOf
  <2>6. call'[w].picked \ call'[w].todo = {}
    BY <2>3
  <2>7. call'[w].inserted = SumFunctionOnSet(Price, call'[w].picked \ call'[w].todo)
    BY <2>3, <2>4, <2>6, TotalEmpty
  <2>8. InsertedBy(w)'
    BY <2>3, <2>5, <2>7 DEF InsertedBy
  <2> QED
    BY <1>5, <2>8, <1>b, SelectDealsEffect
<1>6. ASSUME NEW w \in Worker, LockCampaign(w) PROVE InsertedIsPlaced'
  <2>1. OthersKeep(w) /\ call'[w].pc = "moving" /\ call'[w].op = call[w].op
    BY <1>6, LockCampaignEffect DEF SameErrand
  <2>2. call[w].op # "hold"
    BY <1>6 DEF LockCampaign, DealOp
  <2> QED
    BY <2>1, <2>2, <1>b DEF InsertedBy
<1>7. ASSUME NEW w \in Worker, NEW d \in Deal, PlaceHold(w, d) PROVE InsertedIsPlaced'
  <2>1. call[w].op = "hold"
    BY <1>7, OpHasType DEF PlaceHold, CallShape
  <2>2. InsertedBy(w)
    BY DEF InsertedIsPlaced
  <2>3. InsertedBy(w)'
    BY <1>7, <2>1, <2>2, PlaceHoldInserts
  <2> QED
    BY <1>7, <2>3, <1>b, PlaceHoldEffect
<1>8. ASSUME NEW w \in Worker, NEW leg \in Leg, call[w].op \in DealOp,
             call[w].pc = "moving", call' = [call EXCEPT ![w].legs = @ \cup {leg}]
      PROVE  InsertedIsPlaced'
  <2>1. OthersKeep(w) /\ call'[w].pc = "moving" /\ call'[w].op # "hold"
    BY <1>8, LegEffect DEF DealOp
  <2> QED
    BY <2>1, <1>b DEF InsertedBy
<1>9. ASSUME NEW w \in Worker, NEW d \in Deal,
             CapturePayout(w, d) \/ CaptureCommission(w, d) \/ ReleaseHold(w, d)
      PROVE  InsertedIsPlaced'
  BY <1>9, <1>8 DEF CapturePayout, CaptureCommission, ReleaseHold, Draw, Leg, DealOp, PayOp
<1>10. ASSUME NEW w \in Worker, NEW d \in Deal, CommitPayout(w, d) PROVE InsertedIsPlaced'
  BY <1>10, <1>b, <1>c, CommitPayoutEffect
<1>11. ASSUME NEW w \in Worker, CheckCompletion(w) PROVE InsertedIsPlaced'
  BY <1>11, <1>b, <1>c, CheckCompletionEffect, IdleFields DEF Dropped
<1>12. ASSUME NEW w \in Worker, SerializationFailure(w) PROVE InsertedIsPlaced'
  <2>1. CASE call' = [call EXCEPT ![w] = Again(@)]
    <3>1. call'[w] = Again(call[w])
      BY <2>1 DEF TypeOK
    <3>2. call'[w].inserted = 0
      BY <3>1, CallDomain DEF Again
    <3> QED
      BY <2>1, <3>2, <1>b, AgainEffect DEF InsertedBy
  <2> QED
    BY <1>3, <1>12, <2>1 DEF SerializationFailure
<1>13. ASSUME NEW w \in Worker,
              \/ Refuse(w)     \/ ProviderRefuses(w) \/ Fault(w) \/ CommitHold(w)
              \/ MarkCompleted(w) \/ \E d \in Deal : CommitRefund(w, d)
       PROVE  InsertedIsPlaced'
  BY <1>3, <1>13 DEF Refuse, ProviderRefuses, Fault, CommitHold, MarkCompleted,
     CommitRefund
<1> QED
  BY <1>1, <1>2, <1>4, <1>5, <1>6, <1>7, <1>9, <1>10, <1>11, <1>12, <1>13
     DEF Next, Lock, Progress

\* A step that neither moves a sum nor takes a deal into or out of escrow.
LEMMA EscrowStays ==
  ASSUME EscrowIsHeld, UNCHANGED escrowed,
         \A d \in Deal : dealStatus'[d] \in RefundableFrom <=> dealStatus[d] \in RefundableFrom
  PROVE  EscrowIsHeld'
<1>1. InEscrow' = InEscrow
  BY DEF InEscrow
<1> QED
  BY <1>1 DEF EscrowIsHeld

\* A deal that leaves escrow takes its price out of its campaign's sum.
LEMMA EscrowLeft ==
  ASSUME TypeOK, EscrowIsHeld, NEW d \in Deal, dealStatus[d] \in RefundableFrom,
         dealStatus'[d] \notin RefundableFrom,
         \A e \in Deal : e # d => dealStatus'[e] = dealStatus[e],
         \A c \in Campaign :
           escrowed'[c] = IF c = CampaignOf[d] THEN escrowed[c] - Price[d] ELSE escrowed[c]
  PROVE  EscrowIsHeld'
<1> PICK old, new : old = InEscrow /\ new = InEscrow'
  OBVIOUS
<1>1. /\ old[d] = Price[d] /\ new[d] = 0
      /\ \A e \in Deal : e # d => new[e] = old[e]
      /\ \A e \in Deal : old[e] \in Int /\ new[e] \in Int
  BY SplitInRange DEF InEscrow
<1> SUFFICES ASSUME NEW c \in Campaign
             PROVE  escrowed'[c] = SumFunctionOnSet(new, DealsOf(c))
  BY DEF EscrowIsHeld
<1> PICK D : D = DealsOf(c)
  OBVIOUS
<1>2. IsFiniteSet(D) /\ D \subseteq Deal
  BY SomeDeals DEF DealsOf
<1>3. escrowed[c] = SumFunctionOnSet(old, D)
  BY DEF EscrowIsHeld
<1>4. CASE c = CampaignOf[d]
  <2>1. d \in D
    BY <1>4 DEF DealsOf
  <2> PICK rest : rest = D \ {d}
    OBVIOUS
  <2>2. /\ SumFunctionOnSet(old, D) = old[d] + SumFunctionOnSet(old, rest)
        /\ SumFunctionOnSet(new, D) = new[d] + SumFunctionOnSet(new, rest)
    BY <1>1, <1>2, <2>1, TotalRemove
  <2>3. IsFiniteSet(rest) /\ rest \subseteq Deal /\ d \notin rest
    BY <1>2, FS_Subset
  <2>4. SumFunctionOnSet(old, rest) = SumFunctionOnSet(new, rest)
        /\ SumFunctionOnSet(old, rest) \in Int
    BY <1>1, <2>3, TotalAgree, TotalType
  <2>5. escrowed'[c] = escrowed[c] - Price[d] /\ Price[d] \in Int
    BY <1>4, SplitInRange
  <2> QED
    BY <1>1, <1>3, <2>2, <2>4, <2>5
<1>5. CASE c # CampaignOf[d]
  <2>1. d \notin D
    BY <1>5 DEF DealsOf
  <2>2. SumFunctionOnSet(old, D) = SumFunctionOnSet(new, D)
    BY <1>1, <1>2, <2>1, TotalAgree
  <2> QED
    BY <1>3, <1>5, <2>2
<1> QED
  BY <1>4, <1>5

\* A funding puts the prices it has inserted into its campaign's sum.
LEMMA EscrowFilled ==
  ASSUME TypeOK, EscrowIsHeld, NEW w \in Worker, InsertedBy(w), CallShape(w),
         ChecksStillHold(w), CommitHold(w)
  PROVE  EscrowIsHeld'
<1> PICK old, new, P : old = InEscrow /\ new = InEscrow' /\ P = call[w].picked
  OBVIOUS
<1>1. call[w].pc = "moving" /\ call[w].op = "hold" /\ call[w].todo = {}
  BY DEF CommitHold
<1>2. PICK b \in Campaign : call[w].camp = {b}
  BY <1>1 DEF CallShape
<1>3. /\ P \subseteq Deal /\ call[w].inserted = SumFunctionOnSet(Price, P)
      /\ \A d \in P : dealStatus[d] = "accepted" /\ CampaignOf[d] = b
  BY <1>1, <1>2 DEF InsertedBy, ChecksStillHold
<1>4. \A d \in Deal : dealStatus'[d] = IF d \in P THEN "funded" ELSE dealStatus[d]
  BY DEF CommitHold
<1>5. /\ \A d \in P : old[d] = 0 /\ new[d] = Price[d]
      /\ \A d \in Deal : d \notin P => new[d] = old[d]
      /\ \A d \in Deal : old[d] \in Int /\ new[d] \in Int
  BY <1>3, <1>4, SplitInRange DEF InEscrow, RefundableFrom
<1>6. \A c \in Campaign :
        escrowed'[c] = IF c = b THEN escrowed[c] + call[w].inserted ELSE escrowed[c]
  BY <1>2 DEF CommitHold, PostRows
<1> SUFFICES ASSUME NEW c \in Campaign
             PROVE  escrowed'[c] = SumFunctionOnSet(new, DealsOf(c))
  BY DEF EscrowIsHeld
<1> PICK D : D = DealsOf(c)
  OBVIOUS
<1>7. IsFiniteSet(D) /\ D \subseteq Deal
  BY SomeDeals DEF DealsOf
<1>8. escrowed[c] = SumFunctionOnSet(old, D)
  BY DEF EscrowIsHeld
<1>9. CASE c = b
  <2>1. P \subseteq D
    BY <1>3, <1>9 DEF DealsOf
  <2> PICK rest : rest = D \ P
    OBVIOUS
  <2>2. IsFiniteSet(rest) /\ IsFiniteSet(P) /\ rest \subseteq Deal /\ rest \cap P = {}
    BY <1>7, <2>1, FS_Subset
  <2>3. /\ SumFunctionOnSet(old, D) = SumFunctionOnSet(old, P) + SumFunctionOnSet(old, rest)
        /\ SumFunctionOnSet(new, D) = SumFunctionOnSet(new, P) + SumFunctionOnSet(new, rest)
    BY <1>5, <1>7, <2>1, TotalSplit
  <2>4. SumFunctionOnSet(old, P) = 0
    BY <1>5, <2>2, TotalIsZero
  <2>5. SumFunctionOnSet(new, P) = SumFunctionOnSet(Price, P)
    BY <1>5, <2>2, TotalAgree
  <2>6. SumFunctionOnSet(Price, P) \in Int
    BY <1>3, <2>2, SomeDeals, TotalType
  <2>7. SumFunctionOnSet(old, rest) = SumFunctionOnSet(new, rest)
        /\ SumFunctionOnSet(old, rest) \in Int
    BY <1>5, <2>2, TotalAgree, TotalType
  <2>8. escrowed'[c] = escrowed[c] + SumFunctionOnSet(Price, P)
    BY <1>3, <1>6, <1>9
  <2> QED
    BY <1>8, <2>3, <2>4, <2>5, <2>6, <2>7, <2>8
<1>10. CASE c # b
  <2>1. D \cap P = {}
    BY <1>3, <1>10 DEF DealsOf
  <2>2. SumFunctionOnSet(old, D) = SumFunctionOnSet(new, D)
    BY <1>5, <1>7, <2>1, TotalAgree
  <2> QED
    BY <1>6, <1>8, <1>10, <2>2
<1> QED
  BY <1>9, <1>10

\* The sums move with the deals in escrow, and only with them.
LEMMA NextEscrowIsHeld ==
  ASSUME IInv, InsertedIsPlaced, EscrowIsHeld, [Next]_vars
  PROVE  EscrowIsHeld'
<1>i. TypeOK /\ \A w \in Worker : CallShape(w) /\ ChecksStillHold(w) /\ InsertedBy(w)
  BY DEF IInv, InsertedIsPlaced
<1>1. ASSUME NEW d \in Deal, NEW to \in DealStatus, MoveDeal(d, to),
             to \in RefundableFrom <=> dealStatus[d] \in RefundableFrom
      PROVE  EscrowIsHeld'
  <2>1. \A e \in Deal : dealStatus'[e] = IF e = d THEN to ELSE dealStatus[e]
    BY <1>1, <1>i DEF MoveDeal, TypeOK
  <2> QED
    BY <1>1, <2>1, EscrowStays DEF MoveDeal
<1>2. ASSUME NEW d \in Deal,
             \/ AcceptOffer(d) \/ DeclineOffer(d) \/ ExpireOffer(d)
             \/ SubmitDeliverable(d) \/ RequestRevision(d)
      PROVE  EscrowIsHeld'
  <2>1. PICK to \in {"accepted", "declined", "expired", "delivered", "revision_requested"} :
          MoveDeal(d, to)
    BY <1>2 DEF AcceptOffer, DeclineOffer, ExpireOffer, SubmitDeliverable, RequestRevision
  <2>2. dealStatus[d] \in DealStatus /\ CanTransition(dealStatus[d], to)
        /\ to \in DealStatus
    BY <2>1, <1>i DEF MoveDeal, TypeOK, DealStatus
  <2>3. to \in RefundableFrom <=> dealStatus[d] \in RefundableFrom
    BY <2>2, TransitionTable DEF RefundableFrom
  <2> QED
    BY <1>1, <2>1, <2>2, <2>3
<1>3. ASSUME NEW w \in Worker, CommitHold(w) PROVE EscrowIsHeld'
  BY <1>3, <1>i, EscrowFilled
<1>4. ASSUME NEW w \in Worker, NEW d \in Deal, CommitPayout(w, d) \/ CommitRefund(w, d)
      PROVE  EscrowIsHeld'
  <2>1. /\ call[w].pc = "moving" /\ d \in call[w].deal /\ call[w].op \in DealOp
        /\ PostRows(w, -Price[d])
    BY <1>4, SplitInRange DEF CommitPayout, CommitRefund, DealOp, PayOp
  <2>2. call[w].camp = {CampaignOf[d]} /\ StatusAllows(call[w].op, d)
    BY <2>1, <1>i DEF CallShape, ChecksStillHold
  <2>3. dealStatus[d] \in RefundableFrom
    BY <2>2 DEF StatusAllows, RefundableFrom, PayableFrom
  <2>4. \A e \in Deal : e # d => dealStatus'[e] = dealStatus[e]
    BY <1>4, <1>i DEF CommitPayout, CommitRefund, TypeOK
  <2>5. dealStatus'[d] \notin RefundableFrom
    BY <1>4, <1>i DEF CommitPayout, CommitRefund, TypeOK, RefundableFrom
  <2>6. \A c \in Campaign :
          escrowed'[c] = IF c = CampaignOf[d] THEN escrowed[c] - Price[d] ELSE escrowed[c]
    <3> SUFFICES ASSUME NEW c \in Campaign
                 PROVE  escrowed'[c] = IF c = CampaignOf[d] THEN escrowed[c] - Price[d]
                                                            ELSE escrowed[c]
      OBVIOUS
    <3>1. escrowed[c] \in Int /\ Price[d] \in Int
      BY <1>i, SplitInRange DEF TypeOK
    <3>2. escrowed'[c] = IF c = CampaignOf[d] THEN escrowed[c] + (-Price[d]) ELSE escrowed[c]
      BY <2>1, <2>2 DEF PostRows
    <3> QED
      BY <3>1, <3>2
  <2> QED
    BY <1>i, <2>3, <2>4, <2>5, <2>6, EscrowLeft
<1>5. CASE ~BooksMove
  <2>1. UNCHANGED dealStatus
    BY <1>5, OtherStepsKeepRows
  <2>2. UNCHANGED escrowed
    BY <1>5 DEF BooksMove, Next, vars, books, Endpoint, CancelCampaign, Begin, BeginHold,
       BeginDealCall, Lock, TakeFirstLock, SelectDeals, LockCampaign, Progress, Refuse,
       PlaceHold, CapturePayout, CaptureCommission, ReleaseHold, Draw, ProviderRefuses,
       CheckCompletion, MarkCompleted, SerializationFailure, Fault
  <2> QED
    BY <2>1, <2>2, EscrowStays
<1> QED
  BY <1>2, <1>3, <1>4, <1>5 DEF BooksMove

----------------------------------------------------------------------------
\* What the screens show: the pages

\* What a deal's rows of one type amount to.
Column(t) == [d \in Deal |-> rows[d][t] * AmountOf(d, t)]

\* Amounts are numbers.
LEMMA ColumnType ==
  ASSUME TypeOK, NEW t \in EntryType, NEW d \in Deal
  PROVE  Column(t)[d] \in Int
<1>1. rows[d][t] \in Int
  BY DEF TypeOK
<1>2. AmountOf(d, t) \in Int
  BY SplitInRange DEF AmountOf, EntryType
<1>3. Column(t)[d] = rows[d][t] * AmountOf(d, t)
  BY DEF Column
<1> QED
  BY <1>1, <1>2, <1>3

\* One sum of the ledger per type of row.
LEMMA OneColumn ==
  ASSUME TypeOK, NEW D \in SUBSET Deal, NEW t \in EntryType
  PROVE  SumOf(D, {t}) = SumFunctionOnSet(Column(t), D)
<1> PICK f, e : f = Posted /\ e = Column(t)
  OBVIOUS
<1>1. \A d \in D : e[d] \in Int /\ f[<< d, t >>] = e[d]
  BY ColumnType DEF Posted, Column
<1>2. IsColumn(e, f, t, D)
  BY <1>1 DEF IsColumn
<1>3. SumFunctionOnSet(f, D \X {t}) = SumFunctionOnSet(e, D)
  BY <1>2, SomeDeals, TotalColumn
<1> QED
  BY <1>3 DEF SumOf

\* A sum over more types adds a column.
LEMMA OneColumnMore ==
  ASSUME TypeOK, NEW D \in SUBSET Deal, NEW T \in SUBSET EntryType,
         NEW t \in EntryType, t \notin T
  PROVE  SumOf(D, T \cup {t}) = SumOf(D, T) + SumFunctionOnSet(Column(t), D)
<1> PICK all, some : all = D \X (T \cup {t}) /\ some = D \X T
  OBVIOUS
<1>1. some \subseteq all /\ all \ some = D \X {t}
  OBVIOUS
<1>2. IsFiniteSet(EntryType)
  <2>1. IsFiniteSet({"hold"})
    BY FS_Singleton
  <2>2. IsFiniteSet({"hold"} \cup {"release_payout"})
    BY <2>1, FS_AddElement
  <2>3. IsFiniteSet({"hold"} \cup {"release_payout"} \cup {"commission"})
    BY <2>2, FS_AddElement
  <2>4. IsFiniteSet({"hold"} \cup {"release_payout"} \cup {"commission"} \cup {"refund"})
    BY <2>3, FS_AddElement
  <2>5. EntryType = {"hold"} \cup {"release_payout"} \cup {"commission"} \cup {"refund"}
    BY DEF EntryType
  <2> QED
    BY <2>4, <2>5
<1>3. IsFiniteSet(T \cup {t})
  BY <1>2, FS_Subset
<1>4. IsFiniteSet(all)
  BY <1>3, SomeDeals, FS_Product
<1>5. \A e \in all : Posted[e] \in Int
  <2> SUFFICES ASSUME NEW d \in D, NEW s \in T \cup {t} PROVE Posted[<< d, s >>] \in Int
    OBVIOUS
  <2>1. Posted[<< d, s >>] = Column(s)[d]
    BY DEF Posted, Column
  <2> QED
    BY <2>1, ColumnType
<1>6. SumFunctionOnSet(Posted, all)
        = SumFunctionOnSet(Posted, some) + SumFunctionOnSet(Posted, D \X {t})
  BY <1>1, <1>4, <1>5, TotalSplit
<1>7. SumOf(D, {t}) = SumFunctionOnSet(Posted, D \X {t})
  BY DEF SumOf
<1>8. SumOf(D, T \cup {t}) = SumFunctionOnSet(Posted, all)
  BY DEF SumOf
<1>9. SumOf(D, T) = SumFunctionOnSet(Posted, some)
  BY DEF SumOf
<1> QED
  BY <1>6, <1>7, <1>8, <1>9, OneColumn

\* What is held is the sum of the four columns.
LEMMA FourColumns ==
  ASSUME TypeOK, NEW D \in SUBSET Deal
  PROVE  Held(D) = SumFunctionOnSet(Column("hold"), D)
                   + SumFunctionOnSet(Column("release_payout"), D)
                   + SumFunctionOnSet(Column("commission"), D)
                   + SumFunctionOnSet(Column("refund"), D)
<1> PICK h, p, k, r : /\ h = SumFunctionOnSet(Column("hold"), D)
                      /\ p = SumFunctionOnSet(Column("release_payout"), D)
                      /\ k = SumFunctionOnSet(Column("commission"), D)
                      /\ r = SumFunctionOnSet(Column("refund"), D)
  OBVIOUS
<1> PICK A, B, C : /\ A = {"hold"} /\ B = {"hold", "release_payout"}
                   /\ C = {"hold", "release_payout", "commission"}
  OBVIOUS
<1>1. /\ A \subseteq EntryType /\ B \subseteq EntryType /\ C \subseteq EntryType
      /\ B = A \cup {"release_payout"} /\ C = B \cup {"commission"}
      /\ EntryType = C \cup {"refund"}
      /\ "release_payout" \notin A /\ "commission" \notin B /\ "refund" \notin C
      /\ "hold" \in EntryType /\ "release_payout" \in EntryType
      /\ "commission" \in EntryType /\ "refund" \in EntryType
  BY DEF EntryType
<1>2. SumOf(D, A) = h
  BY <1>1, OneColumn
<1>3. SumOf(D, B) = h + p
  <2>1. SumOf(D, A \cup {"release_payout"}) = SumOf(D, A) + p
    BY <1>1, OneColumnMore
  <2> QED
    BY <1>1, <1>2, <2>1
<1>4. SumOf(D, C) = h + p + k
  <2>1. SumOf(D, B \cup {"commission"}) = SumOf(D, B) + k
    BY <1>1, OneColumnMore
  <2> QED
    BY <1>1, <1>3, <2>1
<1>5. SumOf(D, EntryType) = h + p + k + r
  <2>1. SumOf(D, C \cup {"refund"}) = SumOf(D, C) + r
    BY <1>1, OneColumnMore
  <2> QED
    BY <1>1, <1>4, <2>1
<1> QED
  BY <1>5 DEF Held

\* The price of the deals that are still an offer, and of those the budget counts.
InOffer == [d \in Deal |-> IF dealStatus[d] \in {"pending", "accepted"} THEN Price[d] ELSE 0]

Counted ==
  [d \in Deal |-> IF dealStatus[d] \in CommittingStatuses THEN Price[d] ELSE 0]

\* What the rows a status owes amount to, and what the budget makes of the status.
LEMMA DealAddsUp ==
  ASSUME TypeOK, LedgerMatchesStatus, NEW d \in Deal
  PROVE  /\ InEscrow[d] = Column("hold")[d] + Column("release_payout")[d]
                          + Column("commission")[d] + Column("refund")[d]
         /\ Counted[d] = Column("hold")[d] + Column("refund")[d] + InOffer[d]
         /\ InEscrow[d] \in Int /\ Counted[d] \in Int /\ InOffer[d] \in Int
<1> PICK s : s = dealStatus[d]
  OBVIOUS
<1>1. s \in DealStatus /\ rows[d] = RowsOwed(s)
  BY DEF TypeOK, LedgerMatchesStatus
<1> PICK price, pay, fee : price = Price[d] /\ pay = PayoutOf(d) /\ fee = CommissionOf(d)
  OBVIOUS
<1>2. price \in Int /\ pay \in Int /\ fee \in Int /\ pay + fee = price
  BY SplitInRange
<1>3. /\ Column("hold")[d] = rows[d]["hold"] * price
      /\ Column("release_payout")[d] = rows[d]["release_payout"] * (-pay)
      /\ Column("commission")[d] = rows[d]["commission"] * (-fee)
      /\ Column("refund")[d] = rows[d]["refund"] * (-price)
  BY DEF Column, AmountOf
<1>4. /\ InEscrow[d] = IF s \in RefundableFrom THEN price ELSE 0
      /\ Counted[d] = IF s \in CommittingStatuses THEN price ELSE 0
      /\ InOffer[d] = IF s \in {"pending", "accepted"} THEN price ELSE 0
  BY DEF InEscrow, Counted, InOffer
<1>5. CASE s \in {"pending", "accepted", "declined", "expired"}
  <2>1. \A t \in EntryType : rows[d][t] = 0
    BY <1>1, <1>5, RowsOwedBy DEF NoRows
  <2>2. /\ Column("hold")[d] = 0 /\ Column("release_payout")[d] = 0
        /\ Column("commission")[d] = 0 /\ Column("refund")[d] = 0
    BY <1>2, <1>3, <2>1 DEF EntryType
  <2>3. InEscrow[d] = 0 /\ Counted[d] = InOffer[d] /\ InOffer[d] \in Int
    BY <1>2, <1>4, <1>5 DEF RefundableFrom, CommittingStatuses, DealStatus
  <2> QED
    BY <2>2, <2>3
<1>6. CASE s \in RefundableFrom
  <2>1. /\ rows[d]["hold"] = 1 /\ rows[d]["release_payout"] = 0
        /\ rows[d]["commission"] = 0 /\ rows[d]["refund"] = 0
    BY <1>1, <1>6, RowsOwedBy DEF AddRows, NoRows, EntryType
  <2>2. /\ Column("hold")[d] = price /\ Column("release_payout")[d] = 0
        /\ Column("commission")[d] = 0 /\ Column("refund")[d] = 0
    BY <1>2, <1>3, <2>1
  <2>3. InEscrow[d] = price /\ Counted[d] = price /\ InOffer[d] = 0
    BY <1>4, <1>6 DEF RefundableFrom, CommittingStatuses, DealStatus
  <2> QED
    BY <1>2, <2>2, <2>3
<1>7. CASE s = "completed"
  <2>1. /\ rows[d]["hold"] = 1 /\ rows[d]["release_payout"] = 1
        /\ rows[d]["commission"] = 1 /\ rows[d]["refund"] = 0
    BY <1>1, <1>7, RowsOwedBy DEF AddRows, NoRows, EntryType
  <2>2. /\ Column("hold")[d] = price /\ Column("release_payout")[d] = -pay
        /\ Column("commission")[d] = -fee /\ Column("refund")[d] = 0
    BY <1>2, <1>3, <2>1
  <2>3. InEscrow[d] = 0 /\ Counted[d] = price /\ InOffer[d] = 0
    BY <1>4, <1>7 DEF RefundableFrom, CommittingStatuses, DealStatus
  <2> QED
    BY <1>2, <2>2, <2>3
<1>8. CASE s = "refunded"
  <2>1. /\ rows[d]["hold"] = 1 /\ rows[d]["release_payout"] = 0
        /\ rows[d]["commission"] = 0 /\ rows[d]["refund"] = 1
    BY <1>1, <1>8, RowsOwedBy DEF AddRows, NoRows, EntryType
  <2>2. /\ Column("hold")[d] = price /\ Column("release_payout")[d] = 0
        /\ Column("commission")[d] = 0 /\ Column("refund")[d] = -price
    BY <1>2, <1>3, <2>1
  <2>3. InEscrow[d] = 0 /\ Counted[d] = 0 /\ InOffer[d] = 0
    BY <1>4, <1>8 DEF RefundableFrom, CommittingStatuses, DealStatus
  <2>4. price + 0 + 0 + (-price) = 0 /\ price + (-price) + 0 = 0
    BY <1>2
  <2> QED
    BY <2>2, <2>3, <2>4
<1> QED
  BY <1>1, <1>5, <1>6, <1>7, <1>8 DEF DealStatus, RefundableFrom

\* A page that adds up the prices of some of the deals.
LEMMA PriceOfSome ==
  ASSUME NEW D \in SUBSET Deal, NEW S \in SUBSET D, NEW f,
         \A d \in D : f[d] = IF d \in S THEN Price[d] ELSE 0
  PROVE  PriceOf(S) = SumFunctionOnSet(f, D)
<1>1. IsFiniteSet(D) /\ IsFiniteSet(S)
  BY SomeDeals, FS_Subset
<1>2. \A d \in D : f[d] \in Int
  BY SplitInRange
<1>3. \A d \in D \ S : f[d] = 0
  OBVIOUS
<1>4. SumFunctionOnSet(f, D) = SumFunctionOnSet(f, S)
  BY <1>1, <1>2, <1>3, TotalOutside
<1>5. SumFunctionOnSet(f, S) = SumFunctionOnSet(Price, S)
  BY <1>1, TotalAgree
<1> QED
  BY <1>4, <1>5 DEF PriceOf

\* What is in escrow is what the rows leave.
LEMMA HeldIsInEscrow ==
  ASSUME TypeOK, LedgerMatchesStatus, NEW D \in SUBSET Deal
  PROVE  Held(D) = SumFunctionOnSet(InEscrow, D)
<1> DEFINE gone == [d \in Deal |-> Column("release_payout")[d] + Column("commission")[d]]
           left == [d \in Deal |-> Column("hold")[d] + gone[d]]
<1> PICK h, p, k, r : /\ h = Column("hold") /\ p = Column("release_payout")
                      /\ k = Column("commission") /\ r = Column("refund")
  OBVIOUS
<1>1. IsFiniteSet(D)
  BY SomeDeals
<1>2. \A d \in D : h[d] \in Int /\ p[d] \in Int /\ k[d] \in Int /\ r[d] \in Int
  BY ColumnType DEF EntryType
<1>3. \A d \in D : gone[d] = p[d] + k[d] /\ left[d] = h[d] + gone[d]
  OBVIOUS
<1> HIDE DEF gone, left
<1>4. \A d \in D : gone[d] \in Int /\ left[d] \in Int
  BY <1>2, <1>3
<1>5. \A d \in D : InEscrow[d] = left[d] + r[d]
  BY <1>2, <1>3, DealAddsUp
<1>6. SumFunctionOnSet(gone, D) = SumFunctionOnSet(p, D) + SumFunctionOnSet(k, D)
  BY <1>1, <1>2, <1>3, TotalPlus
<1>7. SumFunctionOnSet(left, D) = SumFunctionOnSet(h, D) + SumFunctionOnSet(gone, D)
  BY <1>1, <1>2, <1>3, <1>4, TotalPlus
<1>8. SumFunctionOnSet(InEscrow, D) = SumFunctionOnSet(left, D) + SumFunctionOnSet(r, D)
  BY <1>1, <1>2, <1>4, <1>5, TotalPlus
<1>9. /\ SumFunctionOnSet(h, D) \in Int /\ SumFunctionOnSet(p, D) \in Int
      /\ SumFunctionOnSet(k, D) \in Int /\ SumFunctionOnSet(r, D) \in Int
  BY <1>1, <1>2, TotalType
<1>10. Held(D) = SumFunctionOnSet(h, D) + SumFunctionOnSet(p, D)
                 + SumFunctionOnSet(k, D) + SumFunctionOnSet(r, D)
  BY FourColumns
<1> QED
  BY <1>6, <1>7, <1>8, <1>9, <1>10

\* What the budget counts is what was ever held, less what was refunded, and the offers.
LEMMA CountedIsHeldOrOffered ==
  ASSUME TypeOK, LedgerMatchesStatus, NEW D \in SUBSET Deal
  PROVE  SumFunctionOnSet(Counted, D)
           = SumFunctionOnSet(Column("hold"), D) + SumFunctionOnSet(Column("refund"), D)
             + SumFunctionOnSet(InOffer, D)
<1> DEFINE net == [d \in Deal |-> Column("hold")[d] + Column("refund")[d]]
<1> PICK h, r : h = Column("hold") /\ r = Column("refund")
  OBVIOUS
<1>1. IsFiniteSet(D)
  BY SomeDeals
<1>2. \A d \in D : h[d] \in Int /\ r[d] \in Int /\ InOffer[d] \in Int
  BY ColumnType, DealAddsUp DEF EntryType
<1>3. \A d \in D : net[d] = h[d] + r[d]
  OBVIOUS
<1> HIDE DEF net
<1>4. \A d \in D : net[d] \in Int /\ Counted[d] = net[d] + InOffer[d]
  BY <1>2, <1>3, DealAddsUp
<1>5. SumFunctionOnSet(net, D) = SumFunctionOnSet(h, D) + SumFunctionOnSet(r, D)
  BY <1>1, <1>2, <1>3, TotalPlus
<1>6. SumFunctionOnSet(Counted, D) = SumFunctionOnSet(net, D) + SumFunctionOnSet(InOffer, D)
  BY <1>1, <1>2, <1>4, TotalPlus
<1> QED
  BY <1>5, <1>6

\* The creators' dashboards, one deal each, share out what the brand's page sums.
LEMMA DashboardsShareOut ==
  ASSUME TypeOK, LedgerMatchesStatus, NEW D \in SUBSET Deal
  PROVE  /\ Settled(D).paidOut = SumFunctionOnSet([d \in D |-> Earnings({d}).paidOut], D)
         /\ Held(D) = SumFunctionOnSet([d \in D |-> Earnings({d}).inEscrow], D)
<1> PICK paid, escrow, p :
      /\ paid = [d \in D |-> Earnings({d}).paidOut]
      /\ escrow = [d \in D |-> Earnings({d}).inEscrow]
      /\ p = Column("release_payout")
  OBVIOUS
<1>1. IsFiniteSet(D) /\ "release_payout" \in EntryType
  BY SomeDeals DEF EntryType
<1>2. \A d \in D : p[d] \in Int
  BY <1>1, ColumnType
<1>3. \A f : (\A d \in D : f[d] \in Int) => \A d \in D : SumFunctionOnSet(f, {d}) = f[d]
  <2> SUFFICES ASSUME NEW f, \A d \in D : f[d] \in Int, NEW d \in D
               PROVE  SumFunctionOnSet(f, {d}) = f[d]
    OBVIOUS
  <2>1. IsFiniteSet({d}) /\ {d} \ {d} = {}
    BY FS_Singleton
  <2>2. SumFunctionOnSet(f, {d}) = f[d] + SumFunctionOnSet(f, {})
    BY <2>1, TotalRemove
  <2> QED
    BY <2>2, TotalEmpty
<1>4. \A d \in D : paid[d] = -p[d]
  <2> SUFFICES ASSUME NEW d \in D PROVE paid[d] = -p[d]
    OBVIOUS
  <2>1. paid[d] = -SumOf({d}, {"release_payout"})
    BY DEF Earnings
  <2>2. SumOf({d}, {"release_payout"}) = SumFunctionOnSet(p, {d})
    BY <1>1, OneColumn
  <2> QED
    BY <1>2, <1>3, <2>1, <2>2
<1>5. \A d \in D : escrow[d] = InEscrow[d]
  <2> SUFFICES ASSUME NEW d \in D PROVE escrow[d] = InEscrow[d]
    OBVIOUS
  <2>1. escrow[d] = Held({d})
    BY DEF Earnings, Held
  <2>2. Held({d}) = SumFunctionOnSet(InEscrow, {d})
    BY HeldIsInEscrow
  <2>3. \A e \in D : InEscrow[e] \in Int
    BY DealAddsUp
  <2> QED
    BY <1>3, <2>1, <2>2, <2>3
<1>6. SumFunctionOnSet(paid, D) + SumFunctionOnSet(p, D) = 0
  <2> DEFINE zero == [d \in Deal |-> 0]
  <2>1. \A d \in D : zero[d] = 0
    OBVIOUS
  <2> HIDE DEF zero
  <2>2. \A d \in D : paid[d] \in Int /\ p[d] \in Int /\ zero[d] = paid[d] + p[d]
    <3> SUFFICES ASSUME NEW d \in D
                 PROVE  paid[d] \in Int /\ p[d] \in Int /\ zero[d] = paid[d] + p[d]
      OBVIOUS
    <3>1. paid[d] = -p[d] /\ p[d] \in Int /\ zero[d] = 0
      BY <1>2, <1>4, <2>1
    <3> QED
      BY <3>1
  <2>3. SumFunctionOnSet(zero, D) = SumFunctionOnSet(paid, D) + SumFunctionOnSet(p, D)
    BY <1>1, <2>2, TotalPlus
  <2> QED
    BY <1>1, <2>1, <2>3, TotalIsZero
<1>7. Settled(D).paidOut = -SumFunctionOnSet(p, D)
  BY <1>1, OneColumn DEF Settled
<1>8. SumFunctionOnSet(p, D) \in Int /\ SumFunctionOnSet(paid, D) \in Int
  <2>1. \A d \in D : paid[d] \in Int
    <3> SUFFICES ASSUME NEW d \in D PROVE paid[d] \in Int
      OBVIOUS
    <3>1. paid[d] = -p[d] /\ p[d] \in Int
      BY <1>2, <1>4
    <3> QED
      BY <3>1
  <2> QED
    BY <1>1, <1>2, <2>1, TotalType
<1>9. Held(D) = SumFunctionOnSet(escrow, D)
  BY <1>1, <1>5, HeldIsInEscrow, TotalAgree
<1> QED
  BY <1>6, <1>7, <1>8, <1>9

\* The books the ledger keeps make every page agree.
LEMMA BooksReconcile == IInv /\ EscrowIsHeld => ScreensReconcile
<1> SUFFICES ASSUME IInv, EscrowIsHeld, NEW c \in Campaign
             PROVE  LET D == DealsOf(c)  s == Settled(D) IN
                    /\ Reconciled(c)
                    /\ escrowed[c] = Held(D)
                    /\ Held(D) = PriceOf(D \cap Worklist)
                    /\ Committed(D) = Held(D) + s.paidOut + s.commission + PriceOf(NotFunded(D))
                    /\ GrossHolds(D) = Committed(D) + s.refunded - PriceOf(NotFunded(D))
                    /\ s.paidOut = SumFunctionOnSet([d \in D |-> Earnings({d}).paidOut], D)
                    /\ Held(D) = SumFunctionOnSet([d \in D |-> Earnings({d}).inEscrow], D)
  BY DEF ScreensReconcile
<1>i. TypeOK /\ LedgerMatchesStatus /\ BalancesAgree
  BY DEF IInv
<1> PICK D : D = DealsOf(c)
  OBVIOUS
<1>0. D \in SUBSET Deal
  BY DEF DealsOf
<1> PICK h, p, k, r, o : /\ h = SumFunctionOnSet(Column("hold"), D)
                         /\ p = SumFunctionOnSet(Column("release_payout"), D)
                         /\ k = SumFunctionOnSet(Column("commission"), D)
                         /\ r = SumFunctionOnSet(Column("refund"), D)
                         /\ o = SumFunctionOnSet(InOffer, D)
  OBVIOUS
<1>1. Held(D) = h + p + k + r
  BY <1>i, <1>0, FourColumns
<1>2. Held(D) = SumFunctionOnSet(InEscrow, D)
  BY <1>i, <1>0, HeldIsInEscrow
<1>3. escrowed[c] = Held(D)
  BY <1>2 DEF EscrowIsHeld
<1>4. Reconciled(c)
  BY <1>i, <1>3 DEF Reconciled, BalancesAgree
<1>5. PriceOf(D \cap Worklist) = SumFunctionOnSet(InEscrow, D)
  <2>1. \A d \in D : InEscrow[d] = IF d \in D \cap Worklist THEN Price[d] ELSE 0
    BY <1>0 DEF InEscrow, Worklist
  <2> QED
    BY <1>0, <2>1, PriceOfSome
<1>6. Committed(D) = h + r + o
  <2> PICK S : S = { d \in D : dealStatus[d] \in CommittingStatuses }
    OBVIOUS
  <2>1. S \in SUBSET D /\ \A d \in D : Counted[d] = IF d \in S THEN Price[d] ELSE 0
    BY <1>0 DEF Counted
  <2>2. PriceOf(S) = SumFunctionOnSet(Counted, D)
    BY <1>0, <2>1, PriceOfSome
  <2> QED
    BY <1>i, <1>0, <2>2, CountedIsHeldOrOffered DEF Committed
<1>7. PriceOf(NotFunded(D)) = o
  <2> PICK S : S = NotFunded(D)
    OBVIOUS
  <2>1. S \in SUBSET D /\ \A d \in D : InOffer[d] = IF d \in S THEN Price[d] ELSE 0
    BY <1>0 DEF InOffer, NotFunded
  <2> QED
    BY <1>0, <2>1, PriceOfSome
<1>8. /\ Settled(D).paidOut = -p /\ Settled(D).commission = -k
      /\ Settled(D).refunded = -r /\ GrossHolds(D) = h
  <2>1. /\ "hold" \in EntryType /\ "release_payout" \in EntryType
        /\ "commission" \in EntryType /\ "refund" \in EntryType
    BY DEF EntryType
  <2>2. /\ SumOf(D, {"hold"}) = h /\ SumOf(D, {"release_payout"}) = p
        /\ SumOf(D, {"commission"}) = k /\ SumOf(D, {"refund"}) = r
    BY <1>i, <1>0, <2>1, OneColumn
  <2> QED
    BY <2>2 DEF Settled, GrossHolds
<1>9. h \in Int /\ p \in Int /\ k \in Int /\ r \in Int /\ o \in Int
  <2>1. IsFiniteSet(D)
    BY <1>0, SomeDeals
  <2>2. \A t \in EntryType : \A d \in D : Column(t)[d] \in Int
    BY <1>i, <1>0, ColumnType
  <2>3. \A d \in D : InOffer[d] \in Int
    BY <1>i, <1>0, DealAddsUp
  <2> QED
    BY <2>1, <2>2, <2>3, TotalType DEF EntryType
<1>10. Committed(D) = Held(D) + Settled(D).paidOut + Settled(D).commission
                      + PriceOf(NotFunded(D))
  BY <1>1, <1>6, <1>7, <1>8, <1>9
<1>11. GrossHolds(D) = Committed(D) + Settled(D).refunded - PriceOf(NotFunded(D))
  BY <1>6, <1>7, <1>8, <1>9
<1>12. /\ Settled(D).paidOut = SumFunctionOnSet([d \in D |-> Earnings({d}).paidOut], D)
       /\ Held(D) = SumFunctionOnSet([d \in D |-> Earnings({d}).inEscrow], D)
  BY <1>i, <1>0, DashboardsShareOut
<1> QED
  BY <1>2, <1>3, <1>4, <1>5, <1>10, <1>11, <1>12

\* Nothing is in escrow, and no sum is kept, at the start.
LEMMA InitScreensInv == Init => ScreensInv
<1> SUFFICES ASSUME Init PROVE InsertedIsPlaced /\ EscrowIsHeld
  BY InitIInv DEF ScreensInv
<1>1. InsertedIsPlaced
  BY IdleFields DEF InsertedIsPlaced, InsertedBy, Init
<1>2. ASSUME NEW c \in Campaign PROVE escrowed[c] = SumFunctionOnSet(InEscrow, DealsOf(c))
  <2>1. IsFiniteSet(DealsOf(c)) /\ \A d \in DealsOf(c) : InEscrow[d] = 0
    BY SomeDeals DEF DealsOf, InEscrow, Init, RefundableFrom
  <2>2. SumFunctionOnSet(InEscrow, DealsOf(c)) = 0
    BY <2>1, TotalIsZero
  <2> QED
    BY <2>2 DEF Init
<1> QED
  BY <1>1, <1>2 DEF EscrowIsHeld

\* Every step keeps the books the pages are read from.
LEMMA NextScreensInv == ScreensInv /\ [Next]_vars => ScreensInv'
<1> SUFFICES ASSUME ScreensInv, [Next]_vars PROVE ScreensInv'
  OBVIOUS
<1>1. TypeOK /\ \A w \in Worker : CallShape(w)
  BY DEF ScreensInv, IInv
<1>2. IInv'
  BY NextIInv DEF ScreensInv
<1>3. InsertedIsPlaced'
  BY <1>1, NextInsertedIsPlaced DEF ScreensInv
<1>4. EscrowIsHeld'
  BY NextEscrowIsHeld DEF ScreensInv
<1> QED
  BY <1>2, <1>3, <1>4 DEF ScreensInv

\* Whatever calls interleave, are retried or die half-way, the pages that count deals and
\* the pages that sum rows agree on every campaign's money at every moment.
THEOREM EveryPageReconciles == Spec => []ScreensReconcile
<1>1. ScreensInv => ScreensReconcile
  BY BooksReconcile DEF ScreensInv
<1> QED
  BY <1>1, InitScreensInv, NextScreensInv, PTL DEF Spec
=============================================================================
