-------------------------------- MODULE DealPages --------------------------------
(***************************************************************************)
(* What the two parties are shown of a funded deal, and what they are      *)
(* offered to do: the creator's page and the brand's page of the deal, the *)
(* deal lists, the two dashboards and the progress rail.  Each is computed *)
(* from the rows at the moment it is rendered.                             *)
(*                                                                         *)
(* Wording is reduced to what a reader learns from it: whose turn it is.   *)
(***************************************************************************)
EXTENDS CollaborationHistory

----------------------------------------------------------------------------
\* Who must act next, as a screen tells it

\* Mutant: a video sent back still counts, as its row is still there.
EveryVideoCount == submitted

\* standingVideoCount: a video sent back is a place to fill, not a delivery.
StandingVideoCount == Cardinality(Videos \ Rejected)

\* deliveryProgress: "n of n videos submitted" on both pages
ProgressIsFull == StandingVideoCount = VideoCount

\* groupForStatus, of the nine statuses a deal can have
GroupForStatus(s) ==
  CASE s = "pending" -> "pending"
    [] s \in {"accepted", "funded", "revision_requested"} -> "in_progress"
    [] s = "delivered" -> "awaiting_approval"
    [] s = "completed" -> "completed"
    [] s \in {"declined", "expired", "refunded"} -> "closed"

\* reviewAbsenceMessage, by whom it names: the brand is not told why there is nothing to
\* review when the controls are there, or when there is no video at all.
ReviewAbsence ==
  CASE CanReview(status) \/ submitted = 0 -> "none"
    [] ~CanReview(status) /\ submitted > 0 /\ status = "revision_requested" -> "creator"
    [] ~CanReview(status) /\ submitted > 0 /\ status # "revision_requested" ->
         IF StandingVideoCount < VideoCount THEN "creator" ELSE "nobody"

----------------------------------------------------------------------------
\* The creator's page

FirstRejected == IF Rejected = {} THEN 0 ELSE Min(Rejected)

\* The form it renders: for the video sent back, or for the next one.
FormShown ==
  [target    |-> FirstRejected,
   version   |-> IF Rejected = {} THEN 0 ELSE video[FirstRejected].version,
   submitted |-> submitted]

\* The sentence above the form: which video is to be replaced, or that some are missing.
FormSentence ==
  CASE Rejected # {} -> "replace"
    [] Rejected = {} /\ StandingVideoCount \in 1..VideoCount - 1 -> "remaining"
    [] Rejected = {} /\ StandingVideoCount \notin 1..VideoCount - 1 -> "none"

CreatorPage ==
  [forms    |-> IF CanDeliver(status) THEN {FormShown} ELSE {},
   sentence |-> FormSentence,
   metrics  |-> IF status = "completed" THEN Videos ELSE {},   \* canReportMetrics
   full     |-> ProgressIsFull]

\* The box with the price: "Held in escrow", or what the deal would pay
FundsHeldShown == IsMoneyHeld(status)

\* The dashboard: actions.readyToDeliver and needsRevision, the rung they feed and the cue
\* beside the deal
ReadyToDeliver == status \in {"funded", "accepted"}
NeedsRevision  == status = "revision_requested"

CreatorRung ==
  CASE ReadyToDeliver \/ NeedsRevision                   -> "creator"
    [] GroupForStatus(status) = "awaiting_approval"      -> "brand"
    [] GroupForStatus(status) \in {"completed", "closed"} -> "nobody"

DealCue ==
  CASE status \in {"funded", "revision_requested"} -> "creator"
    [] status = "delivered"                        -> "brand"
    [] status \in {"completed", "refunded"}        -> "nobody"

\* The open deals listed on the dashboard: a refunded one is not among them.
OnDashboard == GroupForStatus(status) \in {"pending", "in_progress", "awaiting_approval"}

----------------------------------------------------------------------------
\* The brand's page and its dashboard

\* One control approves the deal, and each video has one that sends it back.
BrandPage ==
  [approve |-> CanReview(status),
   reject  |-> IF CanReview(status) THEN Videos ELSE {},
   absence |-> ReviewAbsence,
   full    |-> ProgressIsFull]

AwaitingReview == status = "delivered"

\* The videos the brand has on order (LIVE_DEAL_STATUSES)
IsOrdered == status \in {"funded", "delivered", "revision_requested", "completed"}

\* The videos with figures, for the lists that join them by video and version, and for those
\* that join them by video alone
MeasuredByVersion == { v \in Videos : metric[v].version = video[v].version }
MeasuredByVideo   == { v \in Videos : metric[v].version # 0 }

----------------------------------------------------------------------------
\* The progress rail

Step == << "pending", "accepted", "funded", "delivered", "completed" >>

StepIndex(s) ==
  CASE s = "pending" -> 0  [] s = "accepted" -> 1  [] s = "funded" -> 2
    [] s \in {"delivered", "revision_requested"} -> 3  [] s = "completed" -> 4

OffPath == { "declined", "expired", "refunded" }

\* highestReached, by the deal's events and its status
HighestReached ==
  Max({ StepIndex(s) : s \in ({ walk[i] : i \in DOMAIN walk } \cup {status}) \ OffPath })

\* dealProgress
DealProgress ==
  [i \in 0..4 |->
     CASE status \in OffPath /\ i <= HighestReached     -> "done"
       [] status \in OffPath /\ i = HighestReached + 1  -> "blocked"
       [] status \notin OffPath /\ i < HighestReached   -> "done"
       [] status \notin OffPath /\ i = HighestReached   -> "current"
       [] OTHER                                         -> "upcoming"]

----------------------------------------------------------------------------
\* Properties

IsFresh(p) == submitted > 0 /\ \A v \in Slot : page[p][v].version = video[v].version

\* What a page offers works: a form or a decision sent at once from a page just rendered is
\* taken, and no rule behind it (the versions, the order of the videos, the unique indexes
\* of the evidence) refuses what the page invited to.  A refund is open as long as the
\* money is held.
FreshPagesWork ==
  /\ \A r \in Request : ~HasLanded(r) /\ form[r] \in CreatorPage.forms =>
       ENABLED (Add(r) \/ \E v \in Slot : Replace(r, v))
  /\ \A p \in Page : IsFresh(p) =>
       /\ BrandPage.approve =>
            \A kind \in {"batch_approved", "admin_release"} : ENABLED Approve(p, kind)
       /\ \A v \in BrandPage.reject : ENABLED Reject(p, v)
       /\ \A v \in CreatorPage.metrics : ENABLED RecordMetrics(p, v)
  /\ FundsHeldShown => ENABLED Refund

\* All screens name the same party, and none contradicts the line beside it: the page with
\* a control, the list, both dashboards, the sentence on the brand's page, the progress count
\* and the lists of measured videos.  What the brand's page says after a refund is left out.
ScreensAgree ==
  /\ CreatorPage.forms # {} <=> CreatorRung = "creator"
  /\ BrandPage.approve <=> CreatorRung = "brand"
  /\ DealCue = CreatorRung /\ AwaitingReview = BrandPage.approve
  /\ OnDashboard = FundsHeldShown
  /\ CreatorPage.forms # {} /\ submitted > 0 =>
       BrandPage.absence = "creator" /\ ~CreatorPage.full /\ CreatorPage.sentence # "none"
  /\ CreatorPage.forms = {} /\ IsOrdered => BrandPage.full /\ BrandPage.absence # "creator"
  /\ CreatorPage.forms # {} => (CreatorPage.sentence = "replace" <=> NeedsRevision)
  /\ MeasuredByVideo = MeasuredByVersion
  /\ DealProgress[3] \in {"done", "current"} <=> cycles > 0
  /\ DealProgress[4] = IF status = "completed" THEN "current"
                       ELSE IF status = "refunded" /\ cycles > 0 THEN "blocked" ELSE "upcoming"
=============================================================================
