----------------------------- MODULE CampaignOffers -----------------------------
(***************************************************************************)
(* One campaign from its first cart item to the last answer to its offers: *)
(* add-to-cart.ts, bulk-add-to-cart.ts, remove-from-cart.ts,               *)
(* update-campaign.ts, confirm-campaign.ts, accept-offer.ts,               *)
(* decline-offer.ts and the sweep of expire-offers.ts.                     *)
(*                                                                         *)
(* A transaction under the campaign's or the deal's row lock is one        *)
(* action.  What interleaves are the edit of the brief, which reads before *)
(* it writes, pages of any age, and sweeps that work from a list.          *)
(* EscrowLedger takes over where an accepted offer is funded; cancelling,  *)
(* which touches neither cart nor offers, is an action there.              *)
(***************************************************************************)
EXTENDS Naturals, Sequences, SequencesExt, FiniteSets, FiniteSetsExt

CONSTANTS
  Creator,     \* creators the campaign may book
  Prices,      \* prices per video of the tiers
  Budgets,     \* budgets the brief may state
  Sweep,       \* runs of the expiry job that may overlap
  BatchLimit,  \* offers one run takes
  Broken,      \* creators whose offer may fail to expire again and again
  Window,      \* how long an offer stands
  MaxVideos,   \* bound on the videos of one cart item, for TLC
  MaxTerms,    \* bound on the versions of the usage-rights terms, for TLC
  MaxTime,     \* bound on the clock, for TLC
  MaxAborts    \* bound on the runs that are cut short, for TLC

ASSUME CreatorsAreFinite == IsFiniteSet(Creator)
ASSUME PricesArePositive == Prices \subseteq Nat \ {0}
ASSUME BudgetsArePositive == Budgets \subseteq Nat \ {0}
ASSUME BoundsAreNumbers == {MaxVideos, MaxTime, MaxAborts} \subseteq Nat /\ MaxTerms \in Nat \ {0}
ASSUME ClockOutlastsOffers == Window \in Nat /\ Window < MaxTime
ASSUME BatchOutlastsBroken == Broken \subseteq Creator /\ Cardinality(Broken) < BatchLimit

VARIABLES
  now,       \* time
  price,     \* the price of each creator's tier, 0 while the creator is not bookable
  campaign,  \* status and budget
  edit,      \* the budget an edit is about to write, 0 when there is none
  cart,      \* campaign_item rows
  deal,      \* deal rows
  terms,     \* the version of the terms in effect
  page,      \* the version each creator's open deal page shows, 0 without one
  sweep,     \* the offers each run still has to expire
  aborts     \* runs cut short so far

vars == << now, price, campaign, edit, cart, deal, terms, page, sweep, aborts >>

----------------------------------------------------------------------------
CampaignStatus == { "draft", "confirmed" }
DealStatus == { "none", "pending", "accepted", "declined", "expired" }

NoItem == [videos |-> 0, unit |-> 0, total |-> 0]

NoDeal == [status |-> "none", videos |-> 0, total |-> 0, expires |-> 0, terms |-> 0,
           acceptedAt |-> 0]

IsDraft == campaign.status = "draft"

Carted == { c \in Creator : cart[c] # NoItem }

Init ==
  /\ now = 0
  /\ price \in [Creator -> Prices]
  /\ campaign \in [status : {"draft"}, budget : Budgets]
  /\ edit = 0
  /\ cart = [c \in Creator |-> NoItem]
  /\ deal = [c \in Creator |-> NoDeal]
  /\ terms = 1
  /\ page = [c \in Creator |-> 0]
  /\ sweep = [s \in Sweep |-> <<>>]
  /\ aborts = 0

\* Nothing in a draft has a deadline, so for TLC the clock starts at the confirmation.
Tick ==
  /\ ~ IsDraft
  /\ now < MaxTime
  /\ now' = now + 1
  /\ UNCHANGED << price, campaign, edit, cart, deal, terms, page, sweep, aborts >>

\* A tier is assigned or withdrawn.  No operation on a confirmed campaign reads a tier, so
\* for TLC it stops there.
AssignTier(c, p) ==
  /\ IsDraft
  /\ price' = [price EXCEPT ![c] = p]
  /\ UNCHANGED << now, campaign, edit, cart, deal, terms, page, sweep, aborts >>

PublishTerms ==
  /\ terms < MaxTerms
  /\ terms' = terms + 1
  /\ UNCHANGED << now, price, campaign, edit, cart, deal, page, sweep, aborts >>

----------------------------------------------------------------------------
\* The cart, under the campaign's row lock

\* isBookable
Bookable(c) == price[c] # 0

\* sumCartTotal
CartTotal == SumFunctionOnSet([c \in Creator |-> cart[c].total], Carted)

\* The price of n more videos of each creator, at today's prices.
Delta(C, n) == SumFunctionOnSet([c \in C |-> price[c] * n], C)

\* A row keeps the unit price it was inserted with, and its total is the new count at
\* today's price.
Grown(c, n) ==
  IF cart[c] = NoItem
  THEN [videos |-> n, unit |-> price[c], total |-> price[c] * n]
  ELSE [cart[c] EXCEPT !.videos = @ + n, !.total = price[c] * (cart[c].videos + n)]

\* Mutant: the total is not checked.
AnyTotal(item) == TRUE

\* campaign_item_total_price_valid
TotalIsValid(item) == item.total = item.unit * item.videos

\* All of it or nothing: a batch is checked as a whole.
Add(C, n) ==
  /\ IsDraft
  /\ \A c \in C : Bookable(c) /\ cart[c].videos + n <= MaxVideos
  /\ CartTotal + Delta(C, n) <= campaign.budget
  /\ \A c \in C : TotalIsValid(Grown(c, n))
  /\ cart' = [c \in Creator |-> IF c \in C THEN Grown(c, n) ELSE cart[c]]
  /\ UNCHANGED << now, price, campaign, edit, deal, terms, page, sweep, aborts >>

AddToCart(c, n) == Add({c}, n)

BulkAddToCart(C, n) == Add(C, n)

Without(c) == [cart EXCEPT ![c] = NoItem]

RemoveFromCart(c) ==
  /\ IsDraft
  /\ c \in Carted
  /\ cart' = Without(c)
  /\ UNCHANGED << now, price, campaign, edit, deal, terms, page, sweep, aborts >>

\* updateCampaign reads the status without a lock ...
LoadBrief(budget) ==
  /\ edit = 0
  /\ IsDraft
  /\ edit' = budget
  /\ UNCHANGED << now, price, campaign, cart, deal, terms, page, sweep, aborts >>

\* Mutant: the update relies on the status that was loaded.
UpdateLoaded == TRUE

\* The update's own condition on the status.
MayUpdate == IsDraft

\* ... and updates what is still a draft.
SaveBrief ==
  /\ edit # 0
  /\ campaign' = IF MayUpdate THEN [campaign EXCEPT !.budget = edit] ELSE campaign
  /\ edit' = 0
  /\ UNCHANGED << now, price, cart, deal, terms, page, sweep, aborts >>

\* A brief may have been lowered below its cart.
BudgetCovers == CartTotal <= campaign.budget

\* confirmCampaign copies the cart into offers that lapse together.
Confirm ==
  /\ IsDraft
  /\ Carted # {}
  /\ BudgetCovers
  /\ campaign' = [campaign EXCEPT !.status = "confirmed"]
  /\ deal' = [c \in Creator |->
       IF c \in Carted
       THEN [status |-> "pending", videos |-> cart[c].videos, total |-> cart[c].total,
             expires |-> now + Window, terms |-> terms, acceptedAt |-> 0]
       ELSE NoDeal]
  /\ UNCHANGED << now, price, edit, cart, terms, page, sweep, aborts >>

----------------------------------------------------------------------------
\* The creator's answer

\* canAct
CanAct(c) == deal[c].status = "pending"

\* The page offers its two buttons, with the terms in effect, for a pending deal only.
Shown(c) == IF CanAct(c) THEN terms ELSE 0

OpenPage(c) ==
  /\ page' = [page EXCEPT ![c] = Shown(c)]
  /\ UNCHANGED << now, price, campaign, edit, cart, deal, terms, sweep, aborts >>

\* Mutant: whatever the page showed is stamped with the version in effect.
AgreesToAnything(c) == TRUE

AgreesToCurrent(c) == page[c] = terms

\* isOfferExpired: over at its deadline
IsOver(c) == deal[c].expires <= now

\* acceptOffer.  The delivery terms the page echoes never change once the deal exists.
AcceptOffer(c) ==
  /\ page[c] # 0
  /\ AgreesToCurrent(c)
  /\ ~ IsOver(c)
  /\ CanAct(c)
  /\ deal' = [deal EXCEPT ![c].status = "accepted", ![c].terms = terms, ![c].acceptedAt = now]
  /\ page' = [page EXCEPT ![c] = 0]
  /\ UNCHANGED << now, price, campaign, edit, cart, terms, sweep, aborts >>

\* A refusal (stale terms, lapsed, answered) refreshes the page.
AcceptIsRefused(c) ==
  /\ page[c] # 0
  /\ ~ (AgreesToCurrent(c) /\ ~ IsOver(c) /\ CanAct(c))
  /\ OpenPage(c)

\* declineOffer, past the deadline too while the offer is not swept
DeclineOffer(c) ==
  /\ page[c] # 0
  /\ CanAct(c)
  /\ deal' = [deal EXCEPT ![c].status = "declined"]
  /\ page' = [page EXCEPT ![c] = 0]
  /\ UNCHANGED << now, price, campaign, edit, cart, terms, sweep, aborts >>

----------------------------------------------------------------------------
\* The sweep

\* buildLapsedOffersWhere: past its deadline
Lapsed == { c \in Creator : CanAct(c) /\ deal[c].expires < now }

\* The oldest first: the offers of one confirmation in any order.
StartSweep(s) ==
  /\ sweep[s] = <<>>
  /\ \E C \in kSubset(Min({ BatchLimit, Cardinality(Lapsed) }), Lapsed) :
       \E list \in SetToSeqs(C) : sweep' = [sweep EXCEPT ![s] = list]
  /\ UNCHANGED << now, price, campaign, edit, cart, deal, terms, page, aborts >>

\* transitionDeal refuses what was answered meanwhile: skipped.
ExpireIfPending(c) ==
  deal' = IF CanAct(c) THEN [deal EXCEPT ![c].status = "expired"] ELSE deal

\* expireOne
ExpireOne(s, c) ==
  /\ sweep[s] # <<>>
  /\ Head(sweep[s]) = c
  /\ ExpireIfPending(c)
  /\ sweep' = [sweep EXCEPT ![s] = Tail(@)]
  /\ UNCHANGED << now, price, campaign, edit, cart, terms, page, aborts >>

\* Mutant: one failure ends the run.
RestAfterFailure(list) == <<>>

\* The failure of one offer is caught, and the run goes on with the next.
AfterFailure(list) == Tail(list)

ExpireFails(s) ==
  /\ sweep[s] # <<>>
  /\ sweep' = [sweep EXCEPT ![s] = AfterFailure(@)]
  /\ UNCHANGED << now, price, campaign, edit, cart, deal, terms, page, aborts >>

\* The run's time is up, or its server dies.
AbortSweep(s) ==
  /\ sweep[s] # <<>>
  /\ aborts < MaxAborts
  /\ sweep' = [sweep EXCEPT ![s] = <<>>]
  /\ aborts' = aborts + 1
  /\ UNCHANGED << now, price, campaign, edit, cart, deal, terms, page >>

----------------------------------------------------------------------------
Next ==
  \/ Tick \/ PublishTerms
  \/ \E c \in Creator, p \in Prices \cup {0} : AssignTier(c, p)
  \/ \E c \in Creator, n \in 1..MaxVideos : AddToCart(c, n)
  \/ \E C \in SUBSET Creator \ {{}}, n \in 1..MaxVideos : BulkAddToCart(C, n)
  \/ \E c \in Creator :
       \/ RemoveFromCart(c) \/ OpenPage(c)
       \/ AcceptOffer(c) \/ AcceptIsRefused(c) \/ DeclineOffer(c)
  \/ \E budget \in Budgets : LoadBrief(budget)
  \/ SaveBrief \/ Confirm
  \/ \E s \in Sweep : StartSweep(s) \/ ExpireFails(s) \/ AbortSweep(s)
  \/ \E s \in Sweep, c \in Creator : ExpireOne(s, c)

Spec == Init /\ [][Next]_vars

\* Time passes, cron keeps starting the job, a run takes its next offer, and the offers
\* that are not broken do not fail for ever.
Fairness ==
  /\ WF_vars(Tick)
  /\ \A s \in Sweep :
       /\ WF_vars(StartSweep(s))
       /\ WF_vars(ExpireFails(s) \/ \E c \in Creator : ExpireOne(s, c))
       /\ \A c \in Creator \ Broken : SF_vars(ExpireOne(s, c))

FairSpec == Spec /\ Fairness

----------------------------------------------------------------------------
\* Properties

Item == [videos : 0..MaxVideos, unit : Prices \cup {0}, total : Nat]

Deal == [status : DealStatus, videos : 0..MaxVideos, total : Nat, expires : Nat,
         terms : 0..MaxTerms, acceptedAt : Nat]

\* Types; a row of the cart is for at least one video.
TypeOK ==
  /\ now \in 0..MaxTime
  /\ price \in [Creator -> Prices \cup {0}]
  /\ campaign \in [status : CampaignStatus, budget : Budgets]
  /\ edit \in Budgets \cup {0}
  /\ cart \in [Creator -> Item] /\ \A c \in Carted : cart[c].videos > 0
  /\ deal \in [Creator -> Deal]
  /\ terms \in 1..MaxTerms
  /\ page \in [Creator -> 0..MaxTerms]
  /\ sweep \in [Sweep -> Seq(Creator)]
  /\ aborts \in 0..MaxAborts

\* COMMITS_BUDGET, sumCommittedByDeals
Committing == { c \in Creator : deal[c].status \in {"pending", "accepted"} }
Committed == SumFunctionOnSet([c \in Creator |-> deal[c].total], Committing)

\* The offers of a campaign stay within its budget, whatever was edited, repriced and
\* confirmed in whatever order (AC-014; an edit that loaded a draft may save last).
CommittedWithinBudget == Committed <= campaign.budget

\* "After it, every cart row has a deal" (budget.ts): from the confirmation on, cart and
\* offers are the same agreement, and each costs its videos at the price it was carted at.
OffersAreTheCart ==
  \/ \A c \in Creator : deal[c] = NoDeal
  \/ \A c \in Creator :
       /\ (deal[c] = NoDeal) = (cart[c] = NoItem)
       /\ deal[c].videos = cart[c].videos
       /\ deal[c].total = cart[c].unit * cart[c].videos

\* A creator agrees, in time, to the terms the page showed, the ones in effect at that
\* moment, however old the page; and no later step changes the answer.
AnswersAreInformedAndFinal ==
  [][\A c \in Creator :
       /\ deal[c].status # "accepted" /\ deal'[c].status = "accepted" =>
            page[c] = deal'[c].terms /\ deal'[c].terms = terms /\ now < deal[c].expires
       /\ deal[c].status \in {"accepted", "declined", "expired"} => deal'[c] = deal[c]]_deal

\* Every offer is answered or expired in the end, though runs are cut short and the expiry
\* of some offers fails every time: a failing offer never holds up the others.
LapsedOffersEnd ==
  \A c \in Creator \ Broken : deal[c].status = "pending" ~> deal[c].status # "pending"
=============================================================================
