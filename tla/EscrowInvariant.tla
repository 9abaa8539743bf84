-------------------------- MODULE EscrowInvariant ---------------------------
(***************************************************************************)
(* The inductive invariant behind EscrowLedger's safety properties: what   *)
(* has to be true of the calls in flight for the ledger to stay right.     *)
(***************************************************************************)
EXTENDS EscrowLedger

\* What a call is about: a payout or a refund one deal and its campaign, a funding
\* one campaign; a call that is over, or only closing the campaign, no deal.
CallShape(w) ==
  /\ call[w].pc # "idle" => \E c \in Campaign : call[w].camp = {c}
  /\ call[w].op \in DealOp =>
       /\ call[w].refs = NoHolds
       /\ call[w].todo = {} /\ call[w].picked = {}
       /\ \E d \in Deal : call[w].deal = {d} /\ call[w].camp = {CampaignOf[d]}
  /\ call[w].op = "hold" => call[w].deal = {} /\ call[w].legs = {}
  /\ call[w].op = "none" => /\ call[w].deal = {} /\ call[w].legs = {}
                            /\ call[w].refs = NoHolds
  /\ call[w].op = "none" <=> call[w].pc \in {"idle", "closing", "closeWrite"}

\* No row is locked by two calls.
LocksExclude ==
  \A w, v \in Worker :
    w # v => /\ \A d \in Deal : ~(LocksDeal(w, d) /\ LocksDeal(v, d))
             /\ \A c \in Campaign : ~(LocksCampaign(w, c) /\ LocksCampaign(v, c))

\* What a call checked under its locks is still true when it commits.
ChecksStillHold(w) ==
  call[w].pc = "moving" =>
    /\ call[w].op \in DealOp =>
         \A d \in call[w].deal : StatusAllows(call[w].op, d)
    /\ call[w].op = "hold" =>
         /\ \A c \in call[w].camp : campaignStatus[c] = "confirmed"
         /\ call[w].picked # {}
         /\ \A d \in call[w].picked : /\ dealStatus[d] = "accepted"
                                     /\ CampaignOf[d] \in call[w].camp
         /\ \A d \in call[w].picked \ call[w].todo : call[w].refs[d] # NoRef

\* A campaign with money in the ledger is funded, and stays so until it closes; it
\* closes, or is about to, only when all its deals are completed.
FundedPhase ==
  /\ \A d \in Deal :
       rows[d] # NoRows => campaignStatus[CampaignOf[d]] \in {"funded", "completed"}
  /\ \A c \in Campaign : campaignStatus[c] = "completed" => AllCompleted(c)
  /\ \A w \in Worker :
       call[w].pc = "closeWrite" => \A c \in call[w].camp : AllCompleted(c)

\* balance_after of the newest row, computed from the snapshot of the transaction that
\* wrote it, is the sum of all the rows.
BalancesAgree == \A c \in Campaign : balanceAfter[c] = escrowed[c]

\* A hold is live exactly while it has something left to let go of.
HoldsAreSound ==
  \A r \in Ref :
    /\ provider[r].state = "held"     => provider[r].remaining > 0
    /\ provider[r].state = "released" => provider[r].remaining > 0
    /\ provider[r].state = "captured" => provider[r].remaining = 0

\* A deal with a hold row refers to a hold that was minted for no more than its price,
\* and to no other deal's.
RowsAreBacked ==
  /\ \A d \in Deal :
       IF rows[d]["hold"] = 0
         THEN holdRef[d] = NoRef
         ELSE /\ holdRef[d] \in Ref
              /\ provider[holdRef[d]].state # "none"
              /\ provider[holdRef[d]].remaining <= Price[d]
  /\ \A d, e \in Deal : holdRef[d] # NoRef /\ holdRef[d] = holdRef[e] => d = e

\* What a funding keeps for replay is a hold nobody has touched, and nobody else's.
KeptHoldsAreLive ==
  \A w \in Worker, d \in Deal :
    call[w].refs[d] # NoRef =>
      provider[call[w].refs[d]] = [state |-> "held", remaining |-> Price[d]]

KeptHoldsAreNoDeals ==
  \A w \in Worker, d, e \in Deal :
    call[w].refs[d] # NoRef => holdRef[e] # call[w].refs[d]

KeptHoldsAreApart ==
  \A w, v \in Worker, d, e \in Deal :
    call[w].refs[d] # NoRef /\ call[v].refs[e] = call[w].refs[d] => v = w /\ e = d

RefsAreMinted ==
  RowsAreBacked /\ KeptHoldsAreLive /\ KeptHoldsAreNoDeals /\ KeptHoldsAreApart

\* What a call's replayed keys stand for really happened at the provider, however
\* many calls on the same deal ran between its attempts.
LegsHappened ==
  \A w \in Worker : \A d \in call[w].deal :
    /\ call[w].legs # {} => holdRef[d] # NoRef
    /\ "payout" \in call[w].legs =>
         provider[holdRef[d]].remaining <= CommissionOf(d)
    /\ "commission" \in call[w].legs =>
         provider[holdRef[d]] = [state |-> "captured", remaining |-> 0]
    /\ "release" \in call[w].legs => provider[holdRef[d]].state = "released"
    /\ call[w].op \in PayOp => "release" \notin call[w].legs
    /\ call[w].op = "refund" => call[w].legs \subseteq {"release"}

\* All of it, together with the properties it supports.
IInv ==
  /\ TypeOK
  /\ \A w \in Worker : CallShape(w) /\ ChecksStillHold(w)
  /\ LocksExclude
  /\ LedgerMatchesStatus
  /\ FundedPhase
  /\ BalancesAgree
  /\ HoldsAreSound
  /\ RefsAreMinted
  /\ LegsHappened
  /\ SettledAtProvider
=============================================================================
