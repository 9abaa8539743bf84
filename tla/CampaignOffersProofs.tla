-------------------------- MODULE CampaignOffersProofs --------------------------
(***************************************************************************)
(* What CampaignOffers says of one campaign's money and answers, for any   *)
(* creators, prices, budgets and overlapping sweeps.  From the             *)
(* confirmation on cart and offers are one agreement, because the cart is  *)
(* only touched in a draft and nothing touches what an offer costs; so the *)
(* budget that covered the cart covers the offers, of which there are only *)
(* ever fewer.                                                             *)
(***************************************************************************)
EXTENDS CampaignOffers, SequenceTheorems, SumFacts

\* Every row costs its videos at the price it was carted at.
CartIsPriced == \A c \in Creator : cart[c].total = cart[c].unit * cart[c].videos

DraftHasNoOffers == IsDraft => \A c \in Creator : deal[c] = NoDeal

OffersCopyTheCart ==
  ~ IsDraft =>
    \A c \in Creator :
      /\ (deal[c] = NoDeal) = (cart[c] = NoItem)
      /\ deal[c].videos = cart[c].videos
      /\ deal[c].total = cart[c].total

OffersInv == TypeOK /\ CartIsPriced /\ DraftHasNoOffers /\ OffersCopyTheCart

----------------------------------------------------------------------------
\* Types

LEMMA ProductIsNat == \A a, b \in Nat : a * b \in Nat
  OBVIOUS

LEMMA PriceIsNat == \A p \in Prices \cup {0} : p \in Nat
  BY PricesArePositive

LEMMA BoundNats == MaxVideos \in Nat /\ MaxTime \in Nat /\ MaxTerms \in Nat /\ 1 <= MaxTerms
  BY BoundsAreNumbers

LEMMA SomeCreators == \A C \in SUBSET Creator : IsFiniteSet(C) /\ Cardinality(C) \in Nat
  BY CreatorsAreFinite, FS_Subset, FS_CardinalityType

LEMMA NoItemIsItem == NoItem \in Item /\ NoItem.videos = 0 /\ NoItem.unit = 0 /\ NoItem.total = 0
  BY BoundNats DEF NoItem, Item

LEMMA NoDealIsDeal == NoDeal \in Deal /\ NoDeal.status = "none"
                      /\ NoDeal.videos = 0 /\ NoDeal.total = 0
  BY BoundNats DEF NoDeal, Deal, DealStatus

LEMMA InitOffers == Init => OffersInv
<1> SUFFICES ASSUME Init PROVE OffersInv
  OBVIOUS
<1>1. \A c \in Creator : cart[c] = NoItem /\ deal[c] = NoDeal
  BY DEF Init
<1>2. TypeOK
  <2>1. now \in 0..MaxTime /\ terms \in 1..MaxTerms /\ aborts \in 0..MaxAborts
    BY BoundsAreNumbers DEF Init
  <2>2. price \in [Creator -> Prices \cup {0}] /\ page \in [Creator -> 0..MaxTerms]
    BY BoundNats DEF Init
  <2>3. cart \in [Creator -> Item] /\ deal \in [Creator -> Deal]
    BY NoItemIsItem, NoDealIsDeal DEF Init
  <2>4. campaign \in [status : CampaignStatus, budget : Budgets]
    BY DEF Init, CampaignStatus
  <2>5. sweep \in [Sweep -> Seq(Creator)]
    BY DEF Init
  <2> QED
    BY <2>1, <2>2, <2>3, <2>4, <2>5, <1>1 DEF TypeOK, Carted, Init
<1>3. CartIsPriced
  BY <1>1, NoItemIsItem DEF CartIsPriced
<1>4. DraftHasNoOffers /\ OffersCopyTheCart
  BY <1>1 DEF DraftHasNoOffers, OffersCopyTheCart, IsDraft, Init
<1> QED
  BY <1>2, <1>3, <1>4 DEF OffersInv

\* The row of a creator after some more videos.
LEMMA GrownItem ==
  ASSUME TypeOK, CartIsPriced, NEW c \in Creator, NEW n \in 1..MaxVideos,
         cart[c].videos + n <= MaxVideos, TotalIsValid(Grown(c, n))
  PROVE  /\ Grown(c, n) \in Item /\ Grown(c, n).videos > 0
         /\ Grown(c, n).total = Grown(c, n).unit * Grown(c, n).videos
<1>1. cart[c] \in Item /\ price[c] \in Prices \cup {0} /\ n \in Nat /\ n > 0 /\ n <= MaxVideos
  BY BoundNats DEF TypeOK
<1>2. cart[c].videos \in Nat /\ price[c] \in Nat /\ cart[c].videos + n \in 0..MaxVideos
  BY <1>1, PriceIsNat, BoundNats DEF Item
<1>3. price[c] * n \in Nat /\ price[c] * (cart[c].videos + n) \in Nat
  BY <1>1, <1>2, ProductIsNat
<1>4. CASE cart[c] = NoItem
  <2>1. Grown(c, n) = [videos |-> n, unit |-> price[c], total |-> price[c] * n]
    BY <1>4 DEF Grown
  <2>2. n \in 0..MaxVideos
    BY <1>1, BoundNats
  <2> QED
    BY <2>1, <2>2, <1>1, <1>3 DEF Item, TotalIsValid
<1>5. CASE cart[c] # NoItem
  <2>1. Grown(c, n) =
          [cart[c] EXCEPT !.videos = cart[c].videos + n, !.total = price[c] * (cart[c].videos + n)]
    BY <1>5 DEF Grown
  <2>2. cart[c].videos + n > 0
    BY <1>1, <1>2
  <2> QED
    BY <2>1, <2>2, <1>1, <1>2, <1>3 DEF Item, TotalIsValid
<1> QED
  BY <1>4, <1>5

\* The cart grows, in a draft.
LEMMA AddStep ==
  ASSUME OffersInv, NEW C \in SUBSET Creator, NEW n \in 1..MaxVideos, Add(C, n)
  PROVE  OffersInv'
<1>t. TypeOK /\ CartIsPriced
  BY DEF OffersInv
<1>1. IsDraft /\ UNCHANGED << now, price, campaign, edit, deal, terms, page, sweep, aborts >>
  BY DEF Add
<1>2. /\ cart' = [c \in Creator |-> IF c \in C THEN Grown(c, n) ELSE cart[c]]
      /\ \A c \in C : Grown(c, n) \in Item /\ Grown(c, n).videos > 0
                      /\ Grown(c, n).total = Grown(c, n).unit * Grown(c, n).videos
  BY <1>t, GrownItem DEF Add
<1>3. \A c \in Creator : /\ cart'[c] \in Item
                         /\ cart'[c].total = cart'[c].unit * cart'[c].videos
                         /\ cart'[c] # NoItem => cart'[c].videos > 0
  <2> SUFFICES ASSUME NEW c \in Creator
               PROVE  /\ cart'[c] \in Item
                      /\ cart'[c].total = cart'[c].unit * cart'[c].videos
                      /\ cart'[c] # NoItem => cart'[c].videos > 0
    OBVIOUS
  <2>1. CASE c \in C
    <3>1. cart'[c] = Grown(c, n)
      BY <1>2, <2>1
    <3> QED
      BY <1>2, <2>1, <3>1
  <2>2. CASE c \notin C
    <3>1. cart'[c] = cart[c]
      BY <1>2, <2>2
    <3> QED
      BY <1>t, <3>1 DEF TypeOK, CartIsPriced, Carted
  <2> QED
    BY <2>1, <2>2
<1>4. cart' \in [Creator -> Item]
  BY <1>2, <1>3
<1>5. TypeOK'
  BY <1>1, <1>3, <1>4, <1>t DEF TypeOK, Carted
<1> QED
  BY <1>1, <1>3, <1>5 DEF OffersInv, CartIsPriced, DraftHasNoOffers, OffersCopyTheCart, IsDraft

\* One offer gets another status: nothing else about the agreement changes.
LEMMA AnswerStep ==
  ASSUME OffersInv, NEW c \in Creator, CanAct(c),
         NEW new \in Deal, deal' = [deal EXCEPT ![c] = new],
         new.status # "none", new.videos = deal[c].videos, new.total = deal[c].total,
         UNCHANGED << now, price, campaign, edit, cart, terms, aborts >>,
         page' \in [Creator -> 0..MaxTerms], sweep' \in [Sweep -> Seq(Creator)]
  PROVE  OffersInv'
<1>t. TypeOK
  BY DEF OffersInv
<1>1. deal' \in [Creator -> Deal] /\ deal'[c] = new /\ \A b \in Creator \ {c} : deal'[b] = deal[b]
  BY <1>t DEF TypeOK
<1>2. deal[c] # NoDeal /\ new # NoDeal
  BY NoDealIsDeal DEF CanAct
<1>3. TypeOK'
  BY <1>1, <1>t DEF TypeOK, Carted
<1>4. ~ IsDraft
  BY <1>2 DEF OffersInv, DraftHasNoOffers
<1> QED
  BY <1>1, <1>2, <1>3, <1>4
     DEF OffersInv, CartIsPriced, DraftHasNoOffers, OffersCopyTheCart, IsDraft

\* Cart and offers stay as they are.
LEMMA AsideStep ==
  ASSUME OffersInv, UNCHANGED << cart, deal >>, campaign'.status = campaign.status, TypeOK'
  PROVE  OffersInv'
  BY DEF OffersInv, CartIsPriced, DraftHasNoOffers, OffersCopyTheCart, IsDraft

\* A list of offers to expire is a list of creators.
LEMMA ListIsSeq ==
  ASSUME NEW C \in SUBSET Creator, NEW list \in SetToSeqs(C) PROVE list \in Seq(Creator)
<1>1. Cardinality(C) \in Nat
  BY SomeCreators
<1>2. list \in [1..Cardinality(C) -> C]
  BY DEF SetToSeqs
<1>3. list \in [1..Cardinality(C) -> Creator]
  BY <1>2
<1> QED
  BY <1>1, <1>3, SeqDef

LEMMA RestIsSeq ==
  ASSUME NEW list \in Seq(Creator), list # <<>> PROVE Tail(list) \in Seq(Creator)
  OBVIOUS

LEMMA NextOffers == OffersInv /\ [Next]_vars => OffersInv'
<1> SUFFICES ASSUME OffersInv, [Next]_vars PROVE OffersInv'
  OBVIOUS
<1>t. TypeOK
  BY DEF OffersInv
<1>1. CASE UNCHANGED vars
  BY <1>1 DEF vars, OffersInv, TypeOK, CartIsPriced, DraftHasNoOffers, OffersCopyTheCart,
              IsDraft, Carted
<1>2. CASE Tick
  <2>1. now' \in 0..MaxTime
    BY <1>2, <1>t, BoundNats DEF Tick, TypeOK
  <2>2. TypeOK'
    BY <1>2, <1>t, <2>1 DEF Tick, TypeOK, Carted
  <2> QED
    BY <1>2, <2>2, AsideStep DEF Tick
<1>3. CASE PublishTerms
  <2>1. terms' \in 1..MaxTerms
    BY <1>3, <1>t, BoundNats DEF PublishTerms, TypeOK
  <2>2. TypeOK'
    BY <1>3, <1>t, <2>1 DEF PublishTerms, TypeOK, Carted
  <2> QED
    BY <1>3, <2>2, AsideStep DEF PublishTerms
<1>4. ASSUME NEW c \in Creator, NEW p \in Prices \cup {0}, AssignTier(c, p) PROVE OffersInv'
  <2>1. TypeOK'
    BY <1>4, <1>t DEF AssignTier, TypeOK, Carted
  <2> QED
    BY <1>4, <2>1, AsideStep DEF AssignTier
<1>5. ASSUME NEW c \in Creator, NEW n \in 1..MaxVideos, AddToCart(c, n) PROVE OffersInv'
  BY <1>5, AddStep DEF AddToCart
<1>6. ASSUME NEW C \in SUBSET Creator \ {{}}, NEW n \in 1..MaxVideos, BulkAddToCart(C, n)
      PROVE  OffersInv'
  BY <1>6, AddStep DEF BulkAddToCart
<1>7. ASSUME NEW c \in Creator, RemoveFromCart(c) PROVE OffersInv'
  <2>1. /\ IsDraft /\ cart' = [cart EXCEPT ![c] = NoItem]
        /\ UNCHANGED << now, price, campaign, edit, deal, terms, page, sweep, aborts >>
    BY <1>7 DEF RemoveFromCart, Without
  <2>2. /\ cart' \in [Creator -> Item]
        /\ cart'[c] = NoItem /\ \A b \in Creator \ {c} : cart'[b] = cart[b]
    BY <2>1, <1>t, NoItemIsItem DEF TypeOK
  <2>3. TypeOK'
    BY <2>1, <2>2, <1>t DEF TypeOK, Carted
  <2>4. CartIsPriced'
    BY <2>2, NoItemIsItem DEF OffersInv, CartIsPriced
  <2> QED
    BY <2>1, <2>3, <2>4 DEF OffersInv, DraftHasNoOffers, OffersCopyTheCart, IsDraft
<1>8. ASSUME NEW c \in Creator, OpenPage(c) \/ AcceptIsRefused(c) PROVE OffersInv'
  <2>1. OpenPage(c)
    BY <1>8 DEF AcceptIsRefused
  <2>2. Shown(c) \in 0..MaxTerms
    BY <1>t, BoundNats DEF Shown, TypeOK
  <2>3. TypeOK'
    BY <2>1, <2>2, <1>t DEF OpenPage, TypeOK, Carted
  <2> QED
    BY <2>1, <2>3, AsideStep DEF OpenPage
<1>9. ASSUME NEW c \in Creator, AcceptOffer(c) PROVE OffersInv'
  <2> DEFINE new == [deal[c] EXCEPT !.status = "accepted", !.terms = terms, !.acceptedAt = now]
  <2>1. deal[c] \in Deal /\ terms \in 0..MaxTerms /\ now \in Nat
    BY <1>t, BoundNats DEF TypeOK
  <2>2. /\ new \in Deal /\ new.status = "accepted"
        /\ new.videos = deal[c].videos /\ new.total = deal[c].total
    BY <2>1 DEF Deal, DealStatus
  <2>3. deal' = [deal EXCEPT ![c] = new] /\ CanAct(c)
    BY <1>9, <1>t DEF AcceptOffer, TypeOK
  <2>4. page' \in [Creator -> 0..MaxTerms] /\ sweep' \in [Sweep -> Seq(Creator)]
    BY <1>9, <1>t, BoundNats DEF AcceptOffer, TypeOK
  <2>5. UNCHANGED << now, price, campaign, edit, cart, terms, aborts >>
    BY <1>9 DEF AcceptOffer
  <2> HIDE DEF new
  <2> QED
    BY <2>2, <2>3, <2>4, <2>5, AnswerStep
<1>10. ASSUME NEW c \in Creator, DeclineOffer(c) PROVE OffersInv'
  <2> DEFINE new == [deal[c] EXCEPT !.status = "declined"]
  <2>1. deal[c] \in Deal
    BY <1>t DEF TypeOK
  <2>2. /\ new \in Deal /\ new.status = "declined"
        /\ new.videos = deal[c].videos /\ new.total = deal[c].total
    BY <2>1 DEF Deal, DealStatus
  <2>3. deal' = [deal EXCEPT ![c] = new] /\ CanAct(c)
    BY <1>10, <1>t DEF DeclineOffer, TypeOK
  <2>4. page' \in [Creator -> 0..MaxTerms] /\ sweep' \in [Sweep -> Seq(Creator)]
    BY <1>10, <1>t, BoundNats DEF DeclineOffer, TypeOK
  <2>5. UNCHANGED << now, price, campaign, edit, cart, terms, aborts >>
    BY <1>10 DEF DeclineOffer
  <2> HIDE DEF new
  <2> QED
    BY <2>2, <2>3, <2>4, <2>5, AnswerStep
<1>11. ASSUME NEW budget \in Budgets, LoadBrief(budget) PROVE OffersInv'
  <2>1. TypeOK'
    BY <1>11, <1>t DEF LoadBrief, TypeOK, Carted
  <2> QED
    BY <1>11, <2>1, AsideStep DEF LoadBrief
<1>12. CASE SaveBrief
  <2>1. campaign' \in [status : CampaignStatus, budget : Budgets]
        /\ campaign'.status = campaign.status
    BY <1>12, <1>t DEF SaveBrief, TypeOK
  <2>2. TypeOK'
    BY <1>12, <1>t, <2>1 DEF SaveBrief, TypeOK, Carted
  <2> QED
    BY <1>12, <2>1, <2>2, AsideStep DEF SaveBrief
<1>13. CASE Confirm
  <2>1. /\ campaign' = [campaign EXCEPT !.status = "confirmed"]
        /\ UNCHANGED << now, price, edit, cart, terms, page, sweep, aborts >>
    BY <1>13 DEF Confirm
  <2>2. campaign' \in [status : CampaignStatus, budget : Budgets]
        /\ campaign'.status = "confirmed"
    BY <2>1, <1>t DEF TypeOK, CampaignStatus
  <2>3. \A c \in Creator :
          /\ deal'[c] \in Deal
          /\ (deal'[c] = NoDeal) = (cart[c] = NoItem)
          /\ deal'[c].videos = cart[c].videos
          /\ deal'[c].total = cart[c].total
    <3> SUFFICES ASSUME NEW c \in Creator
                 PROVE  /\ deal'[c] \in Deal
                        /\ (deal'[c] = NoDeal) = (cart[c] = NoItem)
                        /\ deal'[c].videos = cart[c].videos
                        /\ deal'[c].total = cart[c].total
      OBVIOUS
    <3>1. CASE c \in Carted
      <4> DEFINE new == [status |-> "pending", videos |-> cart[c].videos,
                         total |-> cart[c].total, expires |-> now + Window, terms |-> terms,
                         acceptedAt |-> 0]
      <4>1. deal'[c] = new
        BY <1>13, <3>1 DEF Confirm
      <4>2. /\ cart[c] \in Item /\ terms \in 0..MaxTerms /\ now + Window \in Nat
        BY <1>t, BoundNats, ClockOutlastsOffers DEF TypeOK
      <4>3. new \in Deal
        BY <4>2 DEF Deal, DealStatus, Item
      <4>4. new # NoDeal
        BY NoDealIsDeal
      <4> QED
        BY <3>1, <4>1, <4>3, <4>4 DEF Carted
    <3>2. CASE c \notin Carted
      <4>1. deal'[c] = NoDeal /\ cart[c] = NoItem
        BY <1>13, <3>2 DEF Confirm, Carted
      <4> QED
        BY <4>1, NoDealIsDeal, NoItemIsItem
    <3> QED
      BY <3>1, <3>2
  <2>4. deal' \in [Creator -> Deal]
    BY <1>13, <2>3 DEF Confirm
  <2>5. TypeOK'
    BY <2>1, <2>2, <2>4, <1>t DEF TypeOK, Carted
  <2> QED
    BY <2>1, <2>2, <2>3, <2>5
       DEF OffersInv, CartIsPriced, DraftHasNoOffers, OffersCopyTheCart, IsDraft
<1>14. ASSUME NEW s \in Sweep, StartSweep(s) PROVE OffersInv'
  <2>1. PICK C \in SUBSET Creator : \E list \in SetToSeqs(C) : sweep' = [sweep EXCEPT ![s] = list]
    BY <1>14 DEF StartSweep, kSubset, Lapsed
  <2>2. PICK list \in SetToSeqs(C) : sweep' = [sweep EXCEPT ![s] = list]
    BY <2>1
  <2>3. sweep' \in [Sweep -> Seq(Creator)]
    BY <2>2, <1>t, ListIsSeq DEF TypeOK
  <2>4. TypeOK'
    BY <1>14, <2>3, <1>t DEF StartSweep, TypeOK, Carted
  <2> QED
    BY <1>14, <2>4, AsideStep DEF StartSweep
<1>15. ASSUME NEW s \in Sweep, ExpireFails(s) PROVE OffersInv'
  <2>1. sweep' \in [Sweep -> Seq(Creator)]
    BY <1>15, <1>t, RestIsSeq DEF ExpireFails, AfterFailure, TypeOK
  <2>2. TypeOK'
    BY <1>15, <2>1, <1>t DEF ExpireFails, TypeOK, Carted
  <2> QED
    BY <1>15, <2>2, AsideStep DEF ExpireFails
<1>16. ASSUME NEW s \in Sweep, AbortSweep(s) PROVE OffersInv'
  <2>1. sweep' \in [Sweep -> Seq(Creator)]
    BY <1>16, <1>t DEF AbortSweep, TypeOK
  <2>2. aborts' \in 0..MaxAborts
    BY <1>16, <1>t, BoundsAreNumbers DEF AbortSweep, TypeOK
  <2>3. TypeOK'
    BY <1>16, <2>1, <2>2, <1>t DEF AbortSweep, TypeOK, Carted
  <2> QED
    BY <1>16, <2>3, AsideStep DEF AbortSweep
<1>17. ASSUME NEW s \in Sweep, NEW c \in Creator, ExpireOne(s, c) PROVE OffersInv'
  <2>1. sweep' \in [Sweep -> Seq(Creator)] /\ page' \in [Creator -> 0..MaxTerms]
    BY <1>17, <1>t, RestIsSeq DEF ExpireOne, TypeOK
  <2>2. UNCHANGED << now, price, campaign, edit, cart, terms, page, aborts >>
    BY <1>17 DEF ExpireOne
  <2>3. CASE CanAct(c)
    <3> DEFINE new == [deal[c] EXCEPT !.status = "expired"]
    <3>1. deal[c] \in Deal
      BY <1>t DEF TypeOK
    <3>2. /\ new \in Deal /\ new.status = "expired"
          /\ new.videos = deal[c].videos /\ new.total = deal[c].total
      BY <3>1 DEF Deal, DealStatus
    <3>3. deal' = [deal EXCEPT ![c] = new]
      BY <1>17, <2>3, <1>t DEF ExpireOne, ExpireIfPending, TypeOK
    <3> HIDE DEF new
    <3> QED
      BY <2>1, <2>2, <2>3, <3>2, <3>3, AnswerStep
  <2>4. CASE ~ CanAct(c)
    <3>1. UNCHANGED deal
      BY <1>17, <2>4 DEF ExpireOne, ExpireIfPending
    <3>2. TypeOK'
      BY <2>1, <2>2, <3>1, <1>t DEF TypeOK, Carted
    <3> QED
      BY <2>2, <3>1, <3>2, AsideStep
  <2> QED
    BY <2>3, <2>4
<1> QED
  BY <1>1, <1>2, <1>3, <1>4, <1>5, <1>6, <1>7, <1>8, <1>9, <1>10, <1>11, <1>12, <1>13, <1>14,
     <1>15, <1>16, <1>17
  DEF Next

LEMMA OffersInvHolds == Spec => []OffersInv
  BY InitOffers, NextOffers, PTL DEF Spec

\* Every reachable state of a campaign's cart and offers is well typed.
THEOREM OffersTypeCorrect == Spec => []TypeOK
<1>1. OffersInv => TypeOK
  BY DEF OffersInv
<1> QED
  BY <1>1, OffersInvHolds, PTL

\* From the confirmation on cart and offers are the same agreement, whatever was repriced,
\* edited or carted in whatever order before.
THEOREM OneAgreement == Spec => []OffersAreTheCart
<1>1. OffersInv => OffersAreTheCart
  BY DEF OffersInv, CartIsPriced, DraftHasNoOffers, OffersCopyTheCart, OffersAreTheCart
<1> QED
  BY <1>1, OffersInvHolds, PTL

----------------------------------------------------------------------------
\* Answers

\* What a single step may do to an offer.
AnswersStand ==
  \A c \in Creator :
    /\ deal[c].status # "accepted" /\ deal'[c].status = "accepted" =>
         page[c] = deal'[c].terms /\ deal'[c].terms = terms /\ now < deal[c].expires
    /\ deal[c].status \in {"accepted", "declined", "expired"} => deal'[c] = deal[c]

LEMMA AnswerStands == OffersInv /\ [Next]_vars => AnswersStand \/ UNCHANGED deal
<1> SUFFICES ASSUME OffersInv, [Next]_vars PROVE AnswersStand \/ UNCHANGED deal
  OBVIOUS
<1>t. TypeOK
  BY DEF OffersInv
<1>1. ASSUME NEW c \in Creator, AcceptOffer(c) PROVE AnswersStand
  <2>1. deal[c] \in Deal /\ now \in Nat
    BY <1>t, BoundNats DEF TypeOK
  <2>2. /\ deal'[c].status = "accepted" /\ deal'[c].terms = terms
        /\ \A b \in Creator \ {c} : deal'[b] = deal[b]
    BY <1>1, <2>1, <1>t DEF AcceptOffer, TypeOK, Deal
  <2>3. page[c] = terms /\ deal[c].status = "pending" /\ ~(deal[c].expires <= now)
    BY <1>1 DEF AcceptOffer, AgreesToCurrent, CanAct, IsOver
  <2>4. now < deal[c].expires
    BY <2>1, <2>3 DEF Deal
  <2> QED
    BY <2>2, <2>3, <2>4 DEF AnswersStand
<1>2. ASSUME NEW c \in Creator, NEW s \in {"declined", "expired"}, CanAct(c),
             deal' = [deal EXCEPT ![c].status = s]
      PROVE  AnswersStand
  <2>1. /\ deal'[c].status = s /\ \A b \in Creator \ {c} : deal'[b] = deal[b]
    BY <1>2, <1>t DEF TypeOK, Deal
  <2> QED
    BY <1>2, <2>1 DEF AnswersStand, CanAct
<1>3. ASSUME NEW c \in Creator, DeclineOffer(c) PROVE AnswersStand
  BY <1>2, <1>3 DEF DeclineOffer
<1>4. ASSUME NEW s \in Sweep, NEW c \in Creator, ExpireOne(s, c)
      PROVE  AnswersStand \/ UNCHANGED deal
  BY <1>2, <1>4 DEF ExpireOne, ExpireIfPending
<1>5. CASE Confirm
  <2>1. \A c \in Creator : deal[c].status = "none"
    BY <1>5, NoDealIsDeal DEF Confirm, OffersInv, DraftHasNoOffers
  <2>2. \A c \in Creator : deal'[c].status \in {"pending", "none"}
    BY <1>5, NoDealIsDeal DEF Confirm
  <2> QED
    BY <2>1, <2>2 DEF AnswersStand
<1> QED
  BY <1>1, <1>3, <1>4, <1>5
  DEF Next, vars, Tick, PublishTerms, AssignTier, AddToCart, BulkAddToCart, Add, RemoveFromCart,
      OpenPage, AcceptIsRefused, LoadBrief, SaveBrief, StartSweep, ExpireFails, AbortSweep

\* A creator agrees, in time, to the terms the page showed, the ones in effect at that
\* moment, however old the page; and no later step changes an answer.
THEOREM AnswersAreFinal == Spec => AnswersAreInformedAndFinal
<1>1. OffersInv /\ [Next]_vars =>
        [\A c \in Creator :
          /\ deal[c].status # "accepted" /\ deal'[c].status = "accepted" =>
               page[c] = deal'[c].terms /\ deal'[c].terms = terms /\ now < deal[c].expires
          /\ deal[c].status \in {"accepted", "declined", "expired"} => deal'[c] = deal[c]]_deal
  BY AnswerStands DEF AnswersStand
<1> QED
  BY <1>1, OffersInvHolds, PTL DEF Spec, AnswersAreInformedAndFinal

----------------------------------------------------------------------------
\* The budget

CartCosts == [c \in Creator |-> cart[c].total]

OfferCosts == [c \in Creator |-> deal[c].total]

LEMMA SumsOfCosts ==
  /\ CartTotal = SumFunctionOnSet(CartCosts, Carted)
  /\ Committed = SumFunctionOnSet(OfferCosts, Committing)
BY DEF CartTotal, CartCosts, Committed, OfferCosts

LEMMA SumsOfCostsNext == Committed' = SumFunctionOnSet(OfferCosts', Committing')
BY DEF Committed, OfferCosts

LEMMA SumsOfOffers ==
  ASSUME TypeOK
  PROVE  /\ IsFiniteSet(Carted) /\ Carted \subseteq Creator
         /\ IsFiniteSet(Committing) /\ Committing \subseteq Creator
         /\ \A c \in Creator : /\ OfferCosts[c] = deal[c].total /\ OfferCosts[c] \in Nat
                               /\ CartCosts[c] = cart[c].total /\ CartCosts[c] \in Nat
<1>1. Carted \subseteq Creator /\ Committing \subseteq Creator
  BY DEF Carted, Committing
<1> QED
  BY <1>1, CreatorsAreFinite, FS_Subset DEF TypeOK, Item, Deal, OfferCosts, CartCosts

\* While no offer is made, there are only ever fewer.
LEMMA FewerOffers ==
  ASSUME TypeOK, TypeOK', CommittedWithinBudget, campaign'.budget = campaign.budget,
         \A c \in Creator : deal'[c].total = deal[c].total,
         Committing' \subseteq Committing
  PROVE  CommittedWithinBudget'
<1> PICK before, after, costs : before = Committing /\ after = Committing' /\ costs = OfferCosts
  OBVIOUS
<1>1. OfferCosts' = costs
  BY DEF OfferCosts
<1>2. /\ IsFiniteSet(before) /\ after \subseteq before /\ IsFiniteSet(after)
      /\ \A x \in before : costs[x] \in Nat
  BY SumsOfOffers, FS_Subset
<1>3. Committed = SumFunctionOnSet(costs, before)
  BY SumsOfCosts
<1>4. Committed' = SumFunctionOnSet(costs, after)
  BY <1>1, SumsOfCostsNext
<1>5. SumFunctionOnSet(costs, after) <= SumFunctionOnSet(costs, before)
  BY <1>2, TotalSubset
<1>6. SumFunctionOnSet(costs, after) \in Int /\ SumFunctionOnSet(costs, before) \in Int
  BY <1>2, TotalType
<1>7. campaign.budget \in Nat
  BY BudgetsArePositive DEF TypeOK
<1> QED
  BY <1>3, <1>4, <1>5, <1>6, <1>7 DEF CommittedWithinBudget

\* The confirmation turns the cart that the budget covers into offers of the same price.
LEMMA ConfirmCovered ==
  ASSUME OffersInv, OffersInv', Confirm PROVE CommittedWithinBudget'
<1>t. TypeOK /\ TypeOK'
  BY DEF OffersInv
<1> PICK made, cost, new : made = Carted /\ cost = CartCosts /\ new = OfferCosts'
  OBVIOUS
<1>1. Committing' = made
  BY NoDealIsDeal DEF Confirm, Committing, Carted
<1>2. /\ IsFiniteSet(made) /\ made \subseteq Creator /\ \A x \in made : cost[x] \in Nat
  BY <1>t, SumsOfOffers
<1>3. \A x \in made : new[x] = cost[x]
  BY DEF Confirm, OfferCosts, CartCosts, Carted
<1>4. Committed' = SumFunctionOnSet(new, made)
  BY <1>1, SumsOfCostsNext
<1>5. CartTotal = SumFunctionOnSet(cost, made)
  BY SumsOfCosts
<1>6. SumFunctionOnSet(new, made) = SumFunctionOnSet(cost, made)
  BY <1>2, <1>3, TotalAgree
<1>7. CartTotal <= campaign.budget /\ campaign'.budget = campaign.budget
  BY <1>t DEF Confirm, BudgetCovers, TypeOK
<1> QED
  BY <1>4, <1>5, <1>6, <1>7 DEF CommittedWithinBudget

\* A draft has no offers, so any budget covers them.
LEMMA DraftCovered == OffersInv /\ IsDraft => CommittedWithinBudget
<1> SUFFICES ASSUME OffersInv, IsDraft PROVE CommittedWithinBudget
  OBVIOUS
<1>1. Committing = {}
  BY NoDealIsDeal DEF OffersInv, DraftHasNoOffers, Committing
<1>2. Committed = 0
  BY <1>1, FS_EmptySet, SumsOfCosts, TotalEmpty
<1>3. campaign.budget \in Nat
  BY BudgetsArePositive DEF OffersInv, TypeOK
<1> QED
  BY <1>2, <1>3 DEF CommittedWithinBudget

LEMMA NextCovered ==
  OffersInv /\ OffersInv' /\ CommittedWithinBudget /\ [Next]_vars => CommittedWithinBudget'
<1> SUFFICES ASSUME OffersInv, OffersInv', CommittedWithinBudget, [Next]_vars
             PROVE  CommittedWithinBudget'
  OBVIOUS
<1>t. TypeOK /\ TypeOK'
  BY DEF OffersInv
<1>1. CASE IsDraft'
  <2>1. (OffersInv /\ IsDraft => CommittedWithinBudget)'
    BY DraftCovered, PTL
  <2> QED
    BY <1>1, <2>1
<1>2. CASE Confirm
  BY <1>2, ConfirmCovered
<1>3. CASE ~ IsDraft' /\ ~ Confirm
  <2>1. UNCHANGED campaign /\ ~ IsDraft
    <3>1. CASE SaveBrief
      BY <1>3, <3>1, <1>t DEF SaveBrief, MayUpdate, IsDraft, TypeOK
    <3>2. CASE ~ SaveBrief
      <4>1. UNCHANGED campaign
        BY <1>3, <3>2
           DEF Next, vars, Tick, PublishTerms, AssignTier, AddToCart, BulkAddToCart, Add,
               RemoveFromCart, OpenPage, AcceptOffer, AcceptIsRefused, DeclineOffer, LoadBrief,
               StartSweep, ExpireOne, ExpireFails, AbortSweep
      <4> QED
        BY <1>3, <4>1 DEF IsDraft
    <3> QED
      BY <3>1, <3>2
  <2>2. \A c \in Creator : deal'[c].total = deal[c].total
    <3>1. UNCHANGED cart
      BY <2>1, <1>3
         DEF Next, vars, Tick, PublishTerms, AssignTier, AddToCart, BulkAddToCart, Add,
             RemoveFromCart, OpenPage, AcceptOffer, AcceptIsRefused, DeclineOffer, LoadBrief,
             SaveBrief, StartSweep, ExpireOne, ExpireFails, AbortSweep
    <3>2. ~ IsDraft /\ ~ IsDraft'
      BY <2>1, <1>3
    <3>3. /\ \A c \in Creator : deal[c].total = cart[c].total
          /\ \A c \in Creator : deal'[c].total = cart'[c].total
      BY <3>2 DEF OffersInv, OffersCopyTheCart
    <3> QED
      BY <3>1, <3>3
  <2>3. Committing' \subseteq Committing
    <3>1. CASE UNCHANGED deal
      BY <3>1 DEF Committing
    <3>2. ASSUME NEW c \in Creator, NEW new, CanAct(c), deal' = [deal EXCEPT ![c] = new]
          PROVE  Committing' \subseteq Committing
      <4>1. \A b \in Creator \ {c} : deal'[b] = deal[b]
        BY <3>2, <1>t DEF TypeOK
      <4> QED
        BY <3>2, <4>1 DEF Committing, CanAct
    <3>3. ASSUME NEW c \in Creator, AcceptOffer(c) \/ DeclineOffer(c)
          PROVE  Committing' \subseteq Committing
      BY <3>2, <3>3, <1>t DEF AcceptOffer, DeclineOffer, TypeOK
    <3>4. ASSUME NEW s \in Sweep, NEW c \in Creator, ExpireOne(s, c)
          PROVE  Committing' \subseteq Committing
      BY <3>1, <3>2, <3>4, <1>t DEF ExpireOne, ExpireIfPending, TypeOK
    <3> QED
      BY <1>3, <3>1, <3>3, <3>4
         DEF Next, vars, Tick, PublishTerms, AssignTier, AddToCart, BulkAddToCart, Add,
             RemoveFromCart, OpenPage, AcceptIsRefused, LoadBrief, SaveBrief, StartSweep,
             ExpireFails, AbortSweep
  <2> QED
    BY <2>1, <2>2, <2>3, <1>t, FewerOffers
<1> QED
  BY <1>1, <1>2, <1>3

\* The offers of a campaign stay within its budget, whatever was edited, repriced, carted
\* and confirmed in whatever order.
THEOREM OffersStayWithinBudget == Spec => []CommittedWithinBudget
<1>1. Init => CommittedWithinBudget
  BY InitOffers, DraftCovered DEF Init, IsDraft
<1> QED
  BY <1>1, NextCovered, OffersInvHolds, PTL DEF Spec
=============================================================================
