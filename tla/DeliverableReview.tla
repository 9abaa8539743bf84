--------------------------- MODULE DeliverableReview ---------------------------
(***************************************************************************)
(* The videos of one deal: submit-deliverable.ts receives them,            *)
(* reject-deliverable.ts and resolve-dispute.ts send one back, ledger.ts   *)
(* approves or refunds them all, record-metrics.ts attaches their figures, *)
(* and history.ts keeps the evidence.                                      *)
(*                                                                         *)
(* Each of these is one transaction under the deal's row lock, so each is  *)
(* one action.  What interleaves are the people: a form is filled in and a *)
(* page is read long before they are sent, and a form may be sent again.   *)
(***************************************************************************)
EXTENDS Naturals, FiniteSets, DealStates

CONSTANTS
  VideoCount,  \* videos the deal was priced for
  Request,     \* submission forms, by the request id the form makes
  Page,        \* pages on which a video is judged or its figures are entered
  NoUrl        \* "no link"

ASSUME VideoCountIsPositive == VideoCount \in Nat \ {0}
ASSUME NoUrlIsNoRequest == NoUrl \notin Request

VARIABLES
  status,      \* deal.status, from funding on
  submitted,   \* number of deliverable rows; a row's ordinal is its name
  video,       \* deliverable rows
  cycles,      \* review cycles opened so far; a cycle's id is its number
  history,     \* deliverable_event rows
  landed,      \* what the event of each request recorded
  form,        \* what each submission form echoes
  heard,       \* the answer the creator received to each form
  page,        \* what each page shows
  metric       \* the version and the link a video's figures were read from

vars == << status, submitted, video, cycles, history, landed, form, heard, page, metric >>

----------------------------------------------------------------------------
Slot  == 1..VideoCount
Videos == 1..submitted

Statuses == { "funded", "delivered", "revision_requested", "completed", "refunded" }
ReviewStatus == { "none", "pending", "rejected", "approved" }

\* url: the request that brought the link.  cycle: the open review cycle, 0 for null.
Video == [version : Nat, url : Request \cup {NoUrl}, review : ReviewStatus, cycle : Nat]

NoVideo == [version |-> 0, url |-> NoUrl, review |-> "none", cycle |-> 0]

\* target 0: the form adds a video.
Form == [target : Slot \cup {0}, version : Nat, submitted : 0..VideoCount]

NoForm == [target |-> 0, version |-> 0, submitted |-> VideoCount]

\* status: the deal's status after the submission.
Answer == [video : Slot \cup {0}, version : Nat, submitted : 0..VideoCount,
           status : Statuses \cup {"none"}]

NoAnswer == [video |-> 0, version |-> 0, submitted |-> 0, status |-> "none"]

\* The event of a submission: the form as it was sent, and what came of it.
Landing == [asked : Form, answer : Answer]

NotLanded == [asked |-> NoForm, answer |-> NoAnswer]

Seen == [version : Nat, url : Request \cup {NoUrl}]

NothingSeen == [v \in Slot |-> [version |-> 0, url |-> NoUrl]]

Kind == { "submitted", "superseded", "review_ready", "review_interrupted",
          "revision_requested", "batch_approved", "admin_release", "refunded" }

Event == [video : Slot, version : Nat, kind : Kind, cycle : Nat]

\* appendEvidence
Evidence(v, kind, cycle) ==
  [video |-> v, version |-> video[v].version, kind |-> kind, cycle |-> cycle]

\* The unique indexes of deliverable_event, one per video, version and kind, one per
\* video, cycle and kind.
Clash(e, h) ==
  /\ e.video = h.video /\ e.kind = h.kind
  /\ \/ e.kind \notin {"review_ready", "review_interrupted"} /\ e.version = h.version
     \/ e.cycle # 0 /\ e.cycle = h.cycle

Fits(events) == \A e \in events, h \in history : ~Clash(e, h)

Init ==
  /\ status    = "funded"
  /\ submitted = 0
  /\ video     = [v \in Slot |-> NoVideo]
  /\ cycles    = 0
  /\ history   = {}
  /\ landed    = [r \in Request |-> NotLanded]
  /\ form      = [r \in Request |-> NoForm]
  /\ heard     = [r \in Request |-> NoAnswer]
  /\ page      = [p \in Page |-> NothingSeen]
  /\ metric    = [v \in Slot |-> [version |-> 0, url |-> NoUrl]]

----------------------------------------------------------------------------
\* The creator's form

Rejected == { v \in Videos : video[v].review = "rejected" }

\* What the page renders into the form: the video sent back, or the next free place.
CurrentForms ==
  IF Rejected = {}
  THEN { [target |-> 0, version |-> 0, submitted |-> submitted] }
  ELSE { [target |-> v, version |-> video[v].version, submitted |-> submitted] : v \in Rejected }

\* A form keeps its request id when the page is rendered again with the same key.
SameKey(f, g) == f.submitted = g.submitted /\ f.version = g.version

FillForm(r) ==
  /\ CanDeliver(status)
  /\ \E f \in CurrentForms :
       /\ form[r] = NoForm \/ SameKey(form[r], f)
       /\ form' = [form EXCEPT ![r] = f]
  /\ UNCHANGED << status, submitted, video, cycles, history, landed, heard, page, metric >>

----------------------------------------------------------------------------
\* submitDeliverable

HasLanded(r) == landed[r] # NotLanded

\* The answer may be lost on its way to the creator.
Receive(r, answer) == heard' \in { heard, [heard EXCEPT ![r] = answer] }

\* A request whose event is there is answered from it, unless the form has changed.
Replay(r) ==
  /\ HasLanded(r)
  /\ form[r] = landed[r].asked
  /\ Receive(r, landed[r].answer)
  /\ UNCHANGED << status, submitted, video, cycles, history, landed, form, page, metric >>

\* Mutant: the event records the status the deal had before the submission.
RecordedStatusBefore(count) == "funded"

\* The status the submission's event records.
RecordedStatus(count) == IF count = VideoCount THEN "delivered" ELSE "funded"

\* reviewReady: all videos of the deal enter a new review cycle together.
OpenCycle(rows, count) ==
  [v \in Slot |-> IF v <= count THEN [rows[v] EXCEPT !.cycle = cycles + 1] ELSE rows[v]]

CycleEvidence(rows, count) ==
  { [video |-> v, version |-> rows[v].version, kind |-> "review_ready", cycle |-> cycles + 1]
    : v \in 1..count }

\* A submission has written video v and its evidence; the last one delivers the deal.
\* rows, count: the deliverable rows with the submission.
Land(r, v, rows, count, evidence) ==
  LET complete == count = VideoCount
      events == evidence \cup (IF complete THEN CycleEvidence(rows, count) ELSE {})
      AnswerWith(s) == [video |-> v, version |-> rows[v].version, submitted |-> count, status |-> s]
  IN
    /\ Fits(events)
    /\ history' = history \cup events
    /\ submitted' = count
    /\ video'  = IF complete THEN OpenCycle(rows, count) ELSE rows
    /\ cycles' = IF complete THEN cycles + 1 ELSE cycles
    /\ status' = IF complete THEN "delivered" ELSE status
    /\ landed' = [landed EXCEPT ![r] =
                    [asked |-> form[r], answer |-> AnswerWith(RecordedStatus(count))]]
    /\ Receive(r, AnswerWith(status'))
    /\ UNCHANGED << form, page >>

\* Mutant: a replaced video keeps its version.
SameVersion(v) == video[v].version

NextVersion(v) == video[v].version + 1

\* preserveSuperseded deletes the figures of the old video.
DropMetric(v) == [metric EXCEPT ![v] = [version |-> 0, url |-> NoUrl]]

Replacement(r, v) ==
  [version |-> NextVersion(v), url |-> r, review |-> "pending", cycle |-> 0]

ReplacementEvidence(v) ==
  { Evidence(v, "superseded", 0),
    [video |-> v, version |-> NextVersion(v), kind |-> "submitted", cycle |-> 0] }

Replace(r, v) ==
  /\ CanDeliver(status) /\ ~HasLanded(r)
  /\ v \in Rejected
  /\ form[r].target = v /\ form[r].version = video[v].version
  /\ metric' = DropMetric(v)
  /\ Land(r, v, [video EXCEPT ![v] = Replacement(r, v)], submitted, ReplacementEvidence(v))

Add(r) ==
  LET v == submitted + 1 IN
    /\ CanDeliver(status) /\ ~HasLanded(r)
    /\ Rejected = {}
    /\ form[r].target = 0 /\ form[r].version = 0 /\ form[r].submitted = submitted
    /\ submitted < VideoCount
    /\ Land(r, v,
            [video EXCEPT ![v] = [version |-> 1, url |-> r, review |-> "pending", cycle |-> 0]],
            v,
            { [video |-> v, version |-> 1, kind |-> "submitted", cycle |-> 0] })
    /\ UNCHANGED metric

----------------------------------------------------------------------------
\* The brand's and the admin's decisions

OpenPage(p) ==
  /\ page' = [page EXCEPT ![p] =
                [v \in Slot |-> [version |-> video[v].version, url |-> video[v].url]]]
  /\ UNCHANGED << status, submitted, video, cycles, history, landed, form, heard, metric >>

\* A page is rendered again once what it asked for has been done.
ClosePage(p) == page' = [page EXCEPT ![p] = NothingSeen]

\* Mutant: only the number of videos is compared.
SameCount(p) == \A v \in Slot : (page[p][v].version = 0) = (video[v].version = 0)

\* assertVersions: the page shows exactly the deal's videos, each in its current version.
SameVersions(p) == \A v \in Slot : page[p][v].version = video[v].version

ApprovalEvidence(kind) == { Evidence(v, kind, video[v].cycle) : v \in Videos }

\* payoutForDeal, from the brand's approval and from the admin's release
Approve(p, kind) ==
  /\ status = PayableFrom
  /\ page[p] # NothingSeen /\ SameVersions(p)
  /\ Fits(ApprovalEvidence(kind))
  /\ status'  = "completed"
  /\ history' = history \cup ApprovalEvidence(kind)
  /\ video'   = [v \in Slot |-> IF v \in Videos
                   THEN [video[v] EXCEPT !.cycle = 0, !.review = "approved"] ELSE video[v]]
  /\ ClosePage(p)
  /\ UNCHANGED << submitted, cycles, landed, form, heard, metric >>

\* Mutant: the video sent back is interrupted as well.
InterruptionsOfAll(except) ==
  { Evidence(v, "review_interrupted", video[v].cycle) : v \in { w \in Videos : video[w].cycle # 0 } }

\* interruptReview: the open cycle of every other video ends without a verdict.
Interruptions(except) ==
  { Evidence(v, "review_interrupted", video[v].cycle)
    : v \in { w \in Videos : video[w].cycle # 0 /\ w \notin except } }

RejectionEvidence(v) ==
  Interruptions({v}) \cup { Evidence(v, "revision_requested", video[v].cycle) }

\* Mutant: a deal whose revision is awaited can be sent back once more.
MayRejectAgain == status \in {"delivered", "revision_requested"}

MayReject == CanReview(status) /\ CanTransition(status, "revision_requested")

\* rejectDeliverable, and the admin's decision for a revision
Reject(p, v) ==
  /\ MayReject
  /\ v \in Videos
  /\ page[p] # NothingSeen /\ page[p][v].version = video[v].version
  /\ Fits(RejectionEvidence(v))
  /\ status'  = "revision_requested"
  /\ history' = history \cup RejectionEvidence(v)
  /\ video'   = [w \in Slot |-> [video[w] EXCEPT
                   !.cycle = 0, !.review = IF w = v THEN "rejected" ELSE @]]
  /\ ClosePage(p)
  /\ UNCHANGED << submitted, cycles, landed, form, heard, metric >>

RefundEvidence == Interruptions({}) \cup { Evidence(v, "refunded", 0) : v \in Videos }

\* refundDeal
Refund ==
  /\ status \in RefundableFrom
  /\ Fits(RefundEvidence)
  /\ status'  = "refunded"
  /\ history' = history \cup RefundEvidence
  /\ video'   = [v \in Slot |-> [video[v] EXCEPT !.cycle = 0]]
  /\ UNCHANGED << submitted, cycles, landed, form, heard, page, metric >>

\* recordMetrics, at any status of the deal
RecordMetrics(p, v) ==
  /\ v \in Videos
  /\ page[p][v].version = video[v].version
  /\ metric' = [metric EXCEPT ![v] = page[p][v]]
  /\ UNCHANGED << status, submitted, video, cycles, history, landed, form, heard, page >>

----------------------------------------------------------------------------
Next ==
  \/ \E r \in Request : FillForm(r) \/ Replay(r) \/ Add(r)
  \/ \E r \in Request, v \in Slot : Replace(r, v)
  \/ \E p \in Page : OpenPage(p)
  \/ \E p \in Page, kind \in {"batch_approved", "admin_release"} : Approve(p, kind)
  \/ \E p \in Page, v \in Slot : Reject(p, v) \/ RecordMetrics(p, v)
  \/ Refund

Spec == Init /\ [][Next]_vars

----------------------------------------------------------------------------
\* Properties

TypeOK ==
  /\ status \in Statuses
  /\ submitted \in 0..VideoCount
  /\ video \in [Slot -> Video]
  /\ \A v \in Slot : IF v \in Videos THEN video[v].version > 0 ELSE video[v] = NoVideo
  /\ cycles \in Nat
  /\ history \subseteq Event
  /\ landed \in [Request -> Landing]
  /\ form \in [Request -> Form]
  /\ heard \in [Request -> Answer]
  /\ page \in [Page -> [Slot -> Seen]]
  /\ metric \in [Slot -> Seen]

\* "A deal is delivered exactly when it holds video_count rows and none of them is
\* rejected", and while it waits for a revision exactly one video is sent back: what lets
\* a resubmission find its target (submit-deliverable.ts).
VideosMatchStatus ==
  /\ status \in {"delivered", "revision_requested", "completed"} => submitted = VideoCount
  /\ status = "funded" => submitted < VideoCount
  /\ Cardinality(Rejected) = CASE status = "revision_requested" -> 1
                               [] status = "refunded" -> Cardinality(Rejected)
                               [] OTHER -> 0
  /\ status = "completed" <=> \E v \in Videos : video[v].review = "approved"

\* A deal is completed, or a video sent back, only by someone whose page showed the very
\* links that are judged: a video replaced meanwhile makes the decision stale.
DecisionsAreAboutWhatWasSeen ==
  [][/\ status # "completed" /\ status' = "completed" =>
          \E p \in Page : page'[p] # page[p] /\ \A v \in Slot : page[p][v].url = video[v].url
     /\ \A v \in Slot : video[v].review # "rejected" /\ video'[v].review = "rejected" =>
          \E p \in Page : page'[p] # page[p] /\ page[p][v].url = video[v].url]_vars

\* Figures are always those of the video the row shows now, whoever entered them and
\* however long their form was open.
MetricsAreOfTheCurrentVideo ==
  \A v \in Slot : metric[v].url # NoUrl =>
    metric[v] = [version |-> video[v].version, url |-> video[v].url]

\* The rows tell the deal, whichever forms and decisions arrived and in what order: how many
\* videos there are and are sent back is what the status says, and each row's figures are
\* those of its own video.
RowsTellTheDeal == VideosMatchStatus /\ MetricsAreOfTheCurrentVideo

\* However often a form arrives, the creator hears the same answer: the one rebuilt from
\* the evidence is the one given when the video was received.
RetryAnswersTheSame ==
  [][\A r \in Request : heard[r] # NoAnswer => heard'[r] = heard[r]]_heard

Endings == { "review_interrupted", "revision_requested", "batch_approved", "admin_release" }

\* A review cycle of a video is open or has ended, and it ends in one way only.
CyclesEndOnce ==
  \A ready \in { e \in history : e.kind = "review_ready" } :
    Cardinality({ e \in history : e.kind \in Endings /\ e.video = ready.video
                                                     /\ e.cycle = ready.cycle })
      = IF video[ready.video].cycle = ready.cycle THEN 0 ELSE 1

\* The evidence tells the whole life of a video: each version was received, and each
\* version before the current one was sent back and then replaced.
EveryVersionIsOnRecord ==
  \A v \in Videos, kind \in {"submitted", "superseded", "revision_requested"} :
    LET versions == { e.version : e \in { h \in history : h.video = v /\ h.kind = kind } }
        current == video[v].version
    IN versions = CASE kind = "submitted" -> 1..current
                    [] kind = "superseded" -> 1..current - 1
                    [] kind = "revision_requested" ->
                         IF video[v].review = "rejected" THEN 1..current ELSE 1..current - 1

\* The history shown to both parties is whole: nothing in it is missing, doubled or open
\* that should be closed, whatever the order of revisions, refunds and late requests.
EvidenceTellsTheHistory == CyclesEndOnce /\ EveryVersionIsOnRecord
=============================================================================
