----------------------------- MODULE InsightModel -----------------------------
(***************************************************************************)
(* What a brand reads about the cost and the results of its videos: the    *)
(* insights of a campaign and of a selection of campaigns (the two         *)
(* insight-model.ts), and the campaign page's table (performance.ts).  A   *)
(* report is read in one snapshot and writes nothing, so the books it      *)
(* reads are the only state.                                               *)
(***************************************************************************)
EXTENDS Naturals, Sequences, FiniteSets, Functions, DealStates

CONSTANTS
  Row,      \* a deal and its videos: [campaign, creator, status, price, videos], one entry
            \* of videos for every video ordered, of which there is at least one
  Null,     \* a count nobody measured, or a video nobody submitted
  NoPost,   \* a link that names no TikTok video
  MaxDeals

VARIABLE books    \* the deals of the brand, with their creator and videos

Reaction == {"likes", "comments", "shares"}
Field    == {"views"} \cup Reaction

Init == books = <<>>

\* The books may hold any deals: how they came about is the matter of the other modules.
Enter(r) ==
  /\ Len(books) < MaxDeals
  /\ books' = Append(books, r)

Next == \E r \in Row : Enter(r)

Spec == Init /\ [][Next]_books

----------------------------------------------------------------------------
\* Deals and videos

AllDeals == DOMAIN books

InCampaign(c) == { d \in AllDeals : books[d].campaign = c }
OfCreator(c, D) == { d \in D : books[d].creator = c }
Creators(D)  == { books[d].creator : d \in D }
Campaigns(D) == { books[d].campaign : d \in D }

Videos(D) ==
  UNION { { <<d, o>> : o \in { n \in DOMAIN books[d].videos : books[d].videos[n] # Null } } : d \in D }

Ordered(D) == SumFunctionOnSet([d \in D |-> Len(books[d].videos)], D)
PriceOf(D) == SumFunctionOnSet([d \in D |-> books[d].price], D)

Video(v)    == books[v[1]].videos[v[2]]
Count(v, f) == Video(v).counts[f]

\* knownSum: what was never measured is left out, and nothing measured is no zero
KnownSum(of) ==
  LET Known == { x \in DOMAIN of : of[x] # Null }
  IN  IF Known = {} THEN Null ELSE SumFunctionOnSet(of, Known)

Total(f, D) == KnownSum([v \in Videos(D) |-> Count(v, f)])

----------------------------------------------------------------------------
\* insight-model.ts of campaigns

\* identity: the stored id of the post, or the one its link names
Identity(v) == IF Video(v).id # NoPost THEN Video(v).id ELSE Video(v).link

\* Mutant: repeats are sought in the group alone.
WithinTheGroup(group, prepared) == group

\* prepareInsightDeals marks the repeats before summarizeInsightDeals groups the deals.
RepeatsSoughtIn(group, prepared) == prepared

IsRepeated(v, prepared) ==
  /\ Identity(v) # NoPost
  /\ \E w \in Videos(prepared) \ {v} : Identity(w) = Identity(v)

EngagementOf(v) ==
  IF \A f \in Reaction : Count(v, f) # Null
  THEN SumFunctionOnSet(Video(v).counts, Reaction)
  ELSE Null

IsFull(d) == Cardinality(Videos({d})) = Len(books[d].videos)

DealEngagement(d) ==
  IF IsFull(d) /\ \A v \in Videos({d}) : EngagementOf(v) # Null
  THEN KnownSum([v \in Videos({d}) |-> EngagementOf(v)])
  ELSE Null

Result(key, d) == IF key = "cpv" THEN Total("views", {d}) ELSE DealEngagement(d)

IsMeasured(key, d) ==
  IF key = "cpv" THEN \A v \in Videos({d}) : Count(v, "views") # Null
                 ELSE DealEngagement(d) # Null

Included(key, D, prepared) ==
  { d \in D : /\ books[d].status = "completed"
              /\ \A v \in Videos({d}) : ~IsRepeated(v, prepared)
              /\ IsFull(d)
              /\ IsMeasured(key, d) }

\* costRatio, as a fraction
CostRatio(cost, results) == IF results \in {Null, 0} THEN Null ELSE << cost, results >>

\* cohort
Cohort(key, D, prepared) ==
  LET in == Included(key, D, RepeatsSoughtIn(D, prepared))
      results == KnownSum([d \in in |-> Result(key, d)])
  IN  [ cost     |-> PriceOf(in),
        results  |-> results,
        ratio    |-> CostRatio(PriceOf(in), results),
        deals    |-> Cardinality(in),
        videos   |-> Ordered(in),
        excluded |-> Cardinality(D) - Cardinality(in) ]

Key == {"cpv", "cpe"}

CommittedBy(D) == PriceOf({ d \in D : books[d].status \in CommittingStatuses })

\* summarizeInsightDeals without its list of creators
Figures(D, prepared) ==
  [ cohorts   |-> [key \in Key |-> Cohort(key, D, prepared)],
    totals    |-> [f \in Field |-> Total(f, D)],
    coverage  |-> [f \in Field |-> Cardinality({ v \in Videos(D) : Count(v, f) # Null })],
    ordered   |-> Ordered(D),
    submitted |-> Cardinality(Videos(D)),
    committed |-> CommittedBy(D) ]

----------------------------------------------------------------------------
\* The pages

\* calculateCampaignInsights
CampaignPage(c) == Figures(InCampaign(c), InCampaign(c))

\* calculateBrandPerformance, for the campaigns S
Selected(S)  == UNION { InCampaign(c) : c \in S }
Overall(S)   == Figures(Selected(S), Selected(S))
OneOf(S, c)  == Figures(InCampaign(c), Selected(S))
OneCreator(S, c) == Figures(OfCreator(c, Selected(S)), Selected(S))

\* campaignVideosQuery: a row for every video, and one for a deal without any
TableRows(c) ==
  Videos(InCampaign(c)) \cup { <<d, 0>> : d \in { e \in InCampaign(c) : Videos({e}) = {} } }

\* toDealGroups and toCampaignTotals
Group(c, d) == { r \in TableRows(c) : r[1] = d /\ r[2] # 0 }

Table(c) ==
  LET D == { r[1] : r \in TableRows(c) }
      V == UNION { Group(c, d) : d \in D }
  IN  [ totals   |-> [f \in Field |-> KnownSum([v \in V |-> Count(v, f)])],
        measured |-> Cardinality({ v \in V : \E f \in Field : Count(v, f) # Null }),
        total    |-> Ordered(D) ]

----------------------------------------------------------------------------
\* Properties

\* The groups of deals, each with its own figures, share out the figures of the whole.
SharedOut(whole, part) ==
  LET groups == DOMAIN part IN
  /\ whole.committed = SumFunction([g \in groups |-> part[g].committed])
  /\ whole.ordered   = SumFunction([g \in groups |-> part[g].ordered])
  /\ \A f \in Field : whole.totals[f] = KnownSum([g \in groups |-> part[g].totals[f]])
  /\ \A key \in Key :
       LET Of(g) == part[g].cohorts[key]  all == whole.cohorts[key] IN
       /\ all.cost     = SumFunction([g \in groups |-> Of(g).cost])
       /\ all.results  = KnownSum([g \in groups |-> Of(g).results])
       /\ all.deals    = SumFunction([g \in groups |-> Of(g).deals])
       /\ all.excluded = SumFunction([g \in groups |-> Of(g).excluded])

\* No post is paid for twice in a ratio, and an unmeasured one is in none.
CountedOnce(D) ==
  \A key \in Key : \A v, w \in Videos(Included(key, D, D)) :
    /\ v # w => Identity(v) # Identity(w) \/ Identity(v) = NoPost
    /\ IF key = "cpv" THEN Count(v, "views") # Null ELSE EngagementOf(v) # Null

\* Two pages that look at the same campaign differ only where one of its posts is used
\* again in another campaign: the campaign's own page does not see that.
SamePageUnlessRepeated(S, c) ==
  \A key \in Key :
    /\ Included(key, InCampaign(c), Selected(S)) \subseteq Included(key, InCampaign(c), InCampaign(c))
    /\ (\A v \in Videos(InCampaign(c)) : ~IsRepeated(v, Selected(S) \ InCampaign(c)))
         => CampaignPage(c).cohorts[key] = OneOf(S, c).cohorts[key]

\* Whatever campaigns a brand selects, its campaigns and its creators share out the figures
\* of the whole, in cost, results and coverage; no post counts twice in a ratio; the
\* campaign's own page and its table of videos say the same of it; and "Totals cover m of n
\* videos" (coverageNote) never covers more than was ordered.
InsightsAddUp ==
  \A S \in SUBSET Campaigns(AllDeals) :
    /\ SharedOut(Overall(S), [c \in S |-> OneOf(S, c)])
    /\ SharedOut(Overall(S), [c \in Creators(Selected(S)) |-> OneCreator(S, c)])
    /\ CountedOnce(Selected(S))
    /\ \A c \in S :
         /\ SamePageUnlessRepeated(S, c)
         /\ Table(c).totals = CampaignPage(c).totals
         /\ Table(c).total = CampaignPage(c).ordered
         /\ Table(c).measured <= CampaignPage(c).submitted
         /\ CampaignPage(c).submitted <= Table(c).total
=============================================================================
