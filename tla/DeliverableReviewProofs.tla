------------------------ MODULE DeliverableReviewProofs ------------------------
(***************************************************************************)
(* The properties of DeliverableReview, and what DealPages shows of it,    *)
(* for any number of videos, forms and pages.                              *)
(***************************************************************************)
EXTENDS DealPages, SumFacts, FiniteSetTheorems, TLAPS

\* Which rows there are, and which of them are judged, at each status.
RowsFit ==
  /\ status \in {"delivered", "revision_requested", "completed"} => submitted = VideoCount
  /\ status = "funded" => submitted < VideoCount
  /\ status = "revision_requested" => \E v \in Slot : Rejected = {v}
  /\ status \in {"funded", "delivered", "completed"} => Rejected = {}
  /\ (status = "completed") = (\E v \in Videos : video[v].review = "approved")

\* A page shows a version that was once the current one; while it still is, with its link.
PagesArePast ==
  \A p \in Page, v \in Slot :
    /\ page[p][v].version <= video[v].version
    /\ page[p][v].version = video[v].version => page[p][v].url = video[v].url

\* What a creator heard is what the evidence would answer again.
HeardIsRecorded ==
  \A r \in Request : heard[r] # NoAnswer => heard[r] = landed[r].answer

ReviewInv ==
  /\ TypeOK
  /\ RowsFit
  /\ PagesArePast
  /\ MetricsAreOfTheCurrentVideo
  /\ HeardIsRecorded

LEMMA SlotsAreVideos ==
  ASSUME TypeOK
  PROVE  /\ Videos \subseteq Slot
         /\ \A v \in Slot : video[v] \in Video
         /\ \A v \in Slot : IF v \in Videos THEN video[v].version > 0 ELSE video[v] = NoVideo
         /\ \A v \in Slot : video[v].version \in Nat
  <1>1. Videos \subseteq Slot
    BY VideoCountIsPositive DEF TypeOK, Videos, Slot
  <1>2. \A v \in Slot : video[v] \in Video
    BY DEF TypeOK
  <1> QED
    BY <1>1, <1>2 DEF TypeOK, Video

LEMMA EvidenceIsEvent ==
  ASSUME TypeOK, NEW v \in Slot, NEW kind \in Kind, NEW cycle \in Nat
  PROVE  Evidence(v, kind, cycle) \in Event
  BY SlotsAreVideos DEF Evidence, Event

\* What a submission makes of the state, given the rows it leaves.
LandsAs(r, v, rows, count) ==
  /\ submitted' = count
  /\ video' \in [Slot -> Video]
  /\ \A w \in Slot : IF w \in 1..count THEN video'[w].version > 0 ELSE video'[w] = NoVideo
  /\ \A w \in Slot : /\ video'[w].version = rows[w].version /\ video'[w].url = rows[w].url
                     /\ video'[w].review = rows[w].review
  /\ status' = IF count = VideoCount THEN "delivered" ELSE status
  /\ cycles' \in Nat /\ history' \subseteq Event
  /\ landed' \in [Request -> Landing] /\ heard' \in [Request -> Answer]
  /\ form' = form /\ page' = page
  /\ \A q \in Request : q # r => heard'[q] = heard[q] /\ landed'[q] = landed[q]
  /\ landed'[r].answer = [video |-> v, version |-> rows[v].version, submitted |-> count,
                          status |-> RecordedStatus(count)]
  /\ \/ heard'[r] = heard[r]
     \/ heard'[r] = [video |-> v, version |-> rows[v].version, submitted |-> count,
                     status |-> status']

LEMMA LandFacts ==
  ASSUME TypeOK, NEW r \in Request, NEW v \in Slot, NEW rows \in [Slot -> Video],
         NEW count \in 0..VideoCount, NEW evidence \in SUBSET Event,
         \A w \in Slot : IF w \in 1..count THEN rows[w].version > 0 ELSE rows[w] = NoVideo,
         Land(r, v, rows, count, evidence)
  PROVE  LandsAs(r, v, rows, count)
  <1>1. /\ cycles \in Nat /\ history \subseteq Event /\ status \in Statuses
        /\ landed \in [Request -> Landing] /\ heard \in [Request -> Answer]
        /\ form \in [Request -> Form] /\ submitted \in 0..VideoCount
    BY DEF TypeOK
  <1>2. /\ submitted' = count /\ form' = form /\ page' = page
        /\ status' = IF count = VideoCount THEN "delivered" ELSE status
        /\ cycles' = IF count = VideoCount THEN cycles + 1 ELSE cycles
        /\ video' = IF count = VideoCount THEN OpenCycle(rows, count) ELSE rows
    BY DEF Land
  <1>3. \A w \in Slot : rows[w] \in Video
    OBVIOUS
  <1>4. \A w \in Slot : w \in 1..count => w <= count
    OBVIOUS
  <1>5. /\ video' \in [Slot -> Video]
        /\ \A w \in Slot : IF w \in 1..count THEN video'[w].version > 0 ELSE video'[w] = NoVideo
        /\ \A w \in Slot : /\ video'[w].version = rows[w].version /\ video'[w].url = rows[w].url
                           /\ video'[w].review = rows[w].review
    <2>1. CASE count = VideoCount
      <3>1. \A w \in Slot : w <= count /\ w \in 1..count
        BY <2>1 DEF Slot
      <3>2. video' = [w \in Slot |-> [rows[w] EXCEPT !.cycle = cycles + 1]]
        BY <1>2, <2>1, <3>1 DEF OpenCycle
      <3>3. \A w \in Slot : video'[w] = [rows[w] EXCEPT !.cycle = cycles + 1]
        BY <3>2
      <3>4. \A w \in Slot : /\ video'[w].version = rows[w].version /\ video'[w].url = rows[w].url
                            /\ video'[w].review = rows[w].review /\ video'[w] \in Video
        <4> SUFFICES ASSUME NEW w \in Slot
                     PROVE  /\ video'[w].version = rows[w].version /\ video'[w].url = rows[w].url
                            /\ video'[w].review = rows[w].review /\ video'[w] \in Video
          OBVIOUS
        <4>1. rows[w] \in Video /\ cycles + 1 \in Nat
          BY <1>1, <1>3
        <4>2. video'[w] = [rows[w] EXCEPT !.cycle = cycles + 1]
          BY <3>3
        <4> QED
          BY <4>1, <4>2 DEF Video
      <3> QED
        BY <3>1, <3>2, <3>4
    <2>2. CASE count # VideoCount
      BY <1>2, <2>2
    <2> QED
      BY <2>1, <2>2
  <1>6. cycles' \in Nat /\ status' \in Statuses
    BY <1>1, <1>2 DEF Statuses
  <1>7. history' \subseteq Event
    <2>1. CycleEvidence(rows, count) \subseteq Event
      BY <1>1, <1>3, VideoCountIsPositive DEF CycleEvidence, Event, Kind, Video, Slot
    <2> QED
      BY <1>1, <2>1 DEF Land
  <1> DEFINE recorded == [video |-> v, version |-> rows[v].version, submitted |-> count,
                          status |-> RecordedStatus(count)]
             told == [video |-> v, version |-> rows[v].version, submitted |-> count,
                      status |-> status']
  <1>8. recorded \in Answer /\ told \in Answer
    <2>1. RecordedStatus(count) \in Statuses
      BY DEF RecordedStatus, Statuses
    <2>2. rows[v].version \in Nat
      BY <1>3 DEF Video
    <2> QED
      BY <1>6, <2>1, <2>2 DEF Answer
  <1>9. landed' = [landed EXCEPT ![r] = [asked |-> form[r], answer |-> recorded]]
    BY DEF Land
  <1>10. heard' = heard \/ heard' = [heard EXCEPT ![r] = told]
    BY DEF Land, Receive
  <1> HIDE DEF recorded, told
  <1>11. landed' \in [Request -> Landing] /\ landed'[r].answer = recorded
    <2>1. [asked |-> form[r], answer |-> recorded] \in Landing
      BY <1>1, <1>8 DEF Landing
    <2> QED
      BY <1>1, <1>9, <2>1
  <1>12. heard' \in [Request -> Answer] /\ (heard'[r] = heard[r] \/ heard'[r] = told)
    BY <1>1, <1>8, <1>10
  <1>13. \A q \in Request : q # r => heard'[q] = heard[q] /\ landed'[q] = landed[q]
    BY <1>1, <1>9, <1>10
  <1> QED
    BY <1>2, <1>5, <1>6, <1>7, <1>11, <1>12, <1>13 DEF recorded, told, LandsAs

\* A step that leaves versions, links, figures and requests alone.
LEMMA SameVideosKeepTheRest ==
  ASSUME ReviewInv, \A v \in Slot : video'[v].version = video[v].version /\ video'[v].url = video[v].url,
         metric' = metric, landed' = landed, heard' = heard,
         page' = page \/ (\E p \in Page : ClosePage(p))
  PROVE  /\ PagesArePast' /\ MetricsAreOfTheCurrentVideo' /\ HeardIsRecorded'
         /\ page' \in [Page -> [Slot -> Seen]]
  <1>1. HeardIsRecorded'
    BY DEF ReviewInv, HeardIsRecorded
  <1>2. MetricsAreOfTheCurrentVideo'
    BY DEF ReviewInv, MetricsAreOfTheCurrentVideo
  <1>3. page \in [Page -> [Slot -> Seen]]
    BY DEF ReviewInv, TypeOK
  <1>4. CASE page' = page
    BY <1>1, <1>2, <1>3, <1>4 DEF ReviewInv, PagesArePast
  <1>5. CASE \E p \in Page : ClosePage(p)
    <2>1. PICK p \in Page : page' = [page EXCEPT ![p] = NothingSeen]
      BY <1>5 DEF ClosePage
    <2>2. NothingSeen \in [Slot -> Seen]
      BY DEF NothingSeen, Seen
    <2>3. \A v \in Slot : NothingSeen[v].version = 0 /\ NothingSeen[v].url = NoUrl
      BY DEF NothingSeen
    <2>4. \A v \in Slot : /\ 0 <= video[v].version
                          /\ 0 = video[v].version => video[v].url = NoUrl
      BY SlotsAreVideos DEF ReviewInv, NoVideo
    <2>5. PagesArePast'
      <3> SUFFICES ASSUME NEW q \in Page, NEW v \in Slot
                   PROVE  /\ page'[q][v].version <= video[v].version
                          /\ page'[q][v].version = video[v].version => page'[q][v].url = video[v].url
        BY DEF PagesArePast
      <3>1. CASE q = p
        BY <1>3, <2>1, <2>3, <2>4, <3>1
      <3>2. CASE q # p
        BY <1>3, <2>1, <3>2 DEF ReviewInv, PagesArePast
      <3> QED
        BY <3>1, <3>2
    <2> QED
      BY <1>1, <1>2, <1>3, <2>1, <2>2, <2>5
  <1> QED
    BY <1>4, <1>5

LEMMA InitInv == Init => ReviewInv
  <1> SUFFICES ASSUME Init PROVE ReviewInv
    OBVIOUS
  <1>1. submitted = 0 /\ status = "funded" /\ Videos = {}
    BY DEF Init, Videos
  <1>2. \A v \in Slot : video[v] = NoVideo
    BY DEF Init
  <1>3. /\ NoVideo \in Video /\ NoForm \in Form /\ NoAnswer \in Answer /\ NotLanded \in Landing
        /\ NothingSeen \in [Slot -> Seen] /\ [version |-> 0, url |-> NoUrl] \in Seen
        /\ submitted \in 0..VideoCount /\ submitted < VideoCount
    BY <1>1, VideoCountIsPositive
       DEF NoVideo, Video, ReviewStatus, NoForm, Form, NoAnswer, Answer, NotLanded, Landing,
           NothingSeen, Seen
  <1>4. TypeOK
    BY <1>1, <1>2, <1>3 DEF Init, TypeOK, Statuses
  <1>5. RowsFit
    BY <1>1, <1>3 DEF RowsFit, Rejected
  <1>6. PagesArePast
    BY <1>2 DEF Init, PagesArePast, NothingSeen, NoVideo
  <1>7. MetricsAreOfTheCurrentVideo /\ HeardIsRecorded
    BY DEF Init, MetricsAreOfTheCurrentVideo, HeardIsRecorded
  <1> QED
    BY <1>4, <1>5, <1>6, <1>7 DEF ReviewInv

LEMMA FillFormKeepsInv ==
  ASSUME ReviewInv, NEW r \in Request, FillForm(r) PROVE ReviewInv'
  <1>1. PICK f \in CurrentForms : form' = [form EXCEPT ![r] = f]
    BY DEF FillForm
  <1>2. CurrentForms \subseteq Form
    <2>1. submitted \in 0..VideoCount /\ Rejected \subseteq Slot
      BY SlotsAreVideos DEF ReviewInv, TypeOK, Rejected
    <2>2. \A v \in Slot : video[v].version \in Nat
      BY SlotsAreVideos DEF ReviewInv
    <2> QED
      BY <2>1, <2>2 DEF CurrentForms, Form
  <1>3. form' \in [Request -> Form]
    BY <1>1, <1>2 DEF ReviewInv, TypeOK
  <1> QED
    BY <1>3 DEF FillForm, ReviewInv, TypeOK, RowsFit, Videos, Rejected, PagesArePast,
                MetricsAreOfTheCurrentVideo, HeardIsRecorded

LEMMA ReplayKeepsInv ==
  ASSUME ReviewInv, NEW r \in Request, Replay(r) PROVE ReviewInv'
  <1>1. heard \in [Request -> Answer] /\ landed \in [Request -> Landing]
    BY DEF ReviewInv, TypeOK
  <1>2. landed[r].answer \in Answer
    BY <1>1 DEF Landing
  <1>3. heard' = heard \/ heard' = [heard EXCEPT ![r] = landed[r].answer]
    BY DEF Replay, Receive
  <1>4. heard' \in [Request -> Answer]
    BY <1>1, <1>2, <1>3
  <1>5. HeardIsRecorded'
    BY <1>1, <1>3 DEF Replay, ReviewInv, HeardIsRecorded
  <1> QED
    BY <1>4, <1>5 DEF Replay, ReviewInv, TypeOK, RowsFit, Videos, Rejected, PagesArePast,
                      MetricsAreOfTheCurrentVideo

\* A request that has not landed was not answered.
LEMMA UnlandedIsUnheard ==
  ASSUME ReviewInv, NEW r \in Request, ~HasLanded(r) PROVE heard[r] = NoAnswer
  BY DEF ReviewInv, HeardIsRecorded, HasLanded, NotLanded

LEMMA ReplaceKeepsInv ==
  ASSUME ReviewInv, NEW r \in Request, NEW v \in Slot, Replace(r, v) PROVE ReviewInv'
  <1> DEFINE rows == [video EXCEPT ![v] = Replacement(r, v)]
  <1>1. /\ v \in Rejected /\ Land(r, v, rows, submitted, ReplacementEvidence(v))
        /\ metric' = DropMetric(v) /\ CanDeliver(status)
    BY DEF Replace
  <1>2. status = "revision_requested" /\ submitted = VideoCount /\ Rejected = {v}
    BY <1>1 DEF CanDeliver, CanTransition, LegalTransitions, ReviewInv, TypeOK, Statuses, RowsFit
  <1>3. /\ TypeOK /\ video \in [Slot -> Video] /\ v \in Videos /\ video[v].version \in Nat
        /\ submitted \in 0..VideoCount /\ metric \in [Slot -> Seen] /\ Videos = Slot
    BY <1>1, <1>2, SlotsAreVideos DEF ReviewInv, TypeOK, Rejected, Videos, Slot
  <1>4. /\ Replacement(r, v) \in Video /\ Replacement(r, v).version = video[v].version + 1
        /\ Replacement(r, v).review = "pending"
    BY <1>3 DEF Replacement, NextVersion, Video, ReviewStatus
  <1>5. /\ rows \in [Slot -> Video] /\ rows[v] = Replacement(r, v)
        /\ \A w \in Slot : w # v => rows[w] = video[w]
    BY <1>3, <1>4
  <1>6. ReplacementEvidence(v) \in SUBSET Event
    <2>1. Evidence(v, "superseded", 0) \in Event
      BY <1>3, EvidenceIsEvent DEF Kind
    <2> QED
      BY <1>3, <2>1 DEF ReplacementEvidence, NextVersion, Event, Kind
  <1>7. \A w \in Slot : IF w \in 1..submitted THEN rows[w].version > 0 ELSE rows[w] = NoVideo
    <2>1. \A w \in Slot : w \in 1..submitted /\ video[w].version > 0
      BY <1>3, SlotsAreVideos DEF Videos
    <2> QED
      BY <1>3, <1>4, <1>5, <2>1
  <1> HIDE DEF rows
  <1>8. /\ submitted' = submitted /\ video' \in [Slot -> Video]
        /\ \A w \in Slot : IF w \in 1..submitted THEN video'[w].version > 0 ELSE video'[w] = NoVideo
        /\ \A w \in Slot : /\ video'[w].version = rows[w].version /\ video'[w].url = rows[w].url
                           /\ video'[w].review = rows[w].review
        /\ status' = "delivered" /\ cycles' \in Nat /\ history' \subseteq Event
        /\ landed' \in [Request -> Landing] /\ heard' \in [Request -> Answer]
        /\ form' = form /\ page' = page
        /\ \A q \in Request : q # r => heard'[q] = heard[q] /\ landed'[q] = landed[q]
        /\ \/ heard'[r] = heard[r]
           \/ heard'[r] = landed'[r].answer
    <2>1. RecordedStatus(submitted) = "delivered"
      BY <1>2 DEF RecordedStatus
    <2>2. LandsAs(r, v, rows, submitted)
      BY <1>1, <1>3, <1>5, <1>6, <1>7, LandFacts
    <2> QED
      BY <1>2, <2>1, <2>2 DEF LandsAs
  <1>9. metric' \in [Slot -> Seen] /\ metric'[v].url = NoUrl
        /\ \A w \in Slot : w # v => metric'[w] = metric[w]
    BY <1>1, <1>3 DEF DropMetric, Seen
  <1>10. TypeOK'
    BY <1>3, <1>8, <1>9 DEF TypeOK, Videos, Statuses
  <1>11. RowsFit'
    <2>1. Videos' = Slot
      BY <1>3, <1>8 DEF Videos
    <2>2. \A w \in Slot : video[w].review # "approved"
      BY <1>2, <1>3 DEF ReviewInv, RowsFit
    <2>3. \A w \in Slot : w # v => video[w].review # "rejected"
      BY <1>2, <1>3 DEF Rejected
    <2>4. \A w \in Slot : video'[w].review # "rejected" /\ video'[w].review # "approved"
      BY <1>4, <1>5, <1>8, <2>2, <2>3
    <2> QED
      BY <1>2, <1>8, <2>1, <2>4 DEF RowsFit, Rejected
  <1>12. PagesArePast'
    <2> SUFFICES ASSUME NEW p \in Page, NEW w \in Slot
                 PROVE  /\ page[p][w].version <= video'[w].version
                        /\ page[p][w].version = video'[w].version => page[p][w].url = video'[w].url
      BY <1>8 DEF PagesArePast
    <2>1. /\ page[p][w].version <= video[w].version
          /\ page[p][w].version = video[w].version => page[p][w].url = video[w].url
      BY DEF ReviewInv, PagesArePast
    <2>2. page[p][w].version \in Nat
      BY DEF ReviewInv, TypeOK, Seen
    <2>3. CASE w = v
      BY <1>3, <1>4, <1>5, <1>8, <2>1, <2>2, <2>3
    <2>4. CASE w # v
      BY <1>5, <1>8, <2>1, <2>4
    <2> QED
      BY <2>3, <2>4
  <1>13. MetricsAreOfTheCurrentVideo'
    <2> SUFFICES ASSUME NEW w \in Slot, metric'[w].url # NoUrl
                 PROVE  metric'[w] = [version |-> video'[w].version, url |-> video'[w].url]
      BY DEF MetricsAreOfTheCurrentVideo
    <2>1. w # v /\ metric'[w] = metric[w] /\ rows[w] = video[w]
      BY <1>5, <1>9
    <2>2. metric[w] = [version |-> video[w].version, url |-> video[w].url]
      BY <2>1 DEF ReviewInv, MetricsAreOfTheCurrentVideo
    <2> QED
      BY <1>8, <2>1, <2>2
  <1>14. HeardIsRecorded'
    <2>1. heard[r] = NoAnswer
      BY UnlandedIsUnheard DEF Replace
    <2> QED
      BY <1>8, <2>1 DEF ReviewInv, HeardIsRecorded
  <1> QED
    BY <1>10, <1>11, <1>12, <1>13, <1>14 DEF ReviewInv

LEMMA AddKeepsInv ==
  ASSUME ReviewInv, NEW r \in Request, Add(r) PROVE ReviewInv'
  <1> DEFINE v == submitted + 1
             new == [version |-> 1, url |-> r, review |-> "pending", cycle |-> 0]
             rows == [video EXCEPT ![v] = new]
             evidence == { [video |-> v, version |-> 1, kind |-> "submitted", cycle |-> 0] }
  <1>1. /\ Land(r, v, rows, v, evidence) /\ metric' = metric /\ CanDeliver(status)
        /\ Rejected = {} /\ submitted < VideoCount
    BY DEF Add
  <1>2. status = "funded"
    <2>1. status # "revision_requested"
      BY <1>1 DEF ReviewInv, RowsFit
    <2> QED
      BY <1>1, <2>1 DEF CanDeliver, CanTransition, LegalTransitions, ReviewInv, TypeOK, Statuses
  <1>3. /\ TypeOK /\ video \in [Slot -> Video] /\ submitted \in Nat
        /\ v \in Slot /\ v \in 0..VideoCount /\ v \in Nat /\ v \notin Videos /\ Videos' = 1..submitted'
    BY <1>1, VideoCountIsPositive DEF ReviewInv, TypeOK, Slot, Videos
  <1>4. new \in Video /\ evidence \in SUBSET Event
    BY <1>3 DEF Video, ReviewStatus, Event, Kind
  <1>5. /\ rows \in [Slot -> Video] /\ rows[v] = new
        /\ \A w \in Slot : w # v => rows[w] = video[w]
    BY <1>3, <1>4
  <1>6. video[v] = NoVideo
    BY <1>3, SlotsAreVideos
  <1>7. \A w \in Slot : w \in 1..v <=> w = v \/ w \in Videos
    BY <1>3 DEF Slot, Videos
  <1>8. new.version = 1 /\ new.url = r /\ new.review = "pending"
    OBVIOUS
  <1> HIDE DEF v, new, rows, evidence
  <1>9. \A w \in Slot : IF w \in 1..v THEN rows[w].version > 0 ELSE rows[w] = NoVideo
    <2>1. \A w \in Slot : IF w \in Videos THEN video[w].version > 0 ELSE video[w] = NoVideo
      BY <1>3, SlotsAreVideos
    <2> QED
      BY <1>3, <1>5, <1>7, <1>8, <2>1
  <1>10. /\ submitted' = v /\ video' \in [Slot -> Video]
         /\ \A w \in Slot : IF w \in 1..v THEN video'[w].version > 0 ELSE video'[w] = NoVideo
         /\ \A w \in Slot : /\ video'[w].version = rows[w].version /\ video'[w].url = rows[w].url
                            /\ video'[w].review = rows[w].review
         /\ status' = IF v = VideoCount THEN "delivered" ELSE "funded"
         /\ cycles' \in Nat /\ history' \subseteq Event
         /\ landed' \in [Request -> Landing] /\ heard' \in [Request -> Answer]
         /\ form' = form /\ page' = page
         /\ \A q \in Request : q # r => heard'[q] = heard[q] /\ landed'[q] = landed[q]
         /\ \/ heard'[r] = heard[r]
            \/ heard'[r] = landed'[r].answer
    <2>1. RecordedStatus(v) = IF v = VideoCount THEN "delivered" ELSE status
      BY <1>2 DEF RecordedStatus
    <2>2. LandsAs(r, v, rows, v)
      BY <1>1, <1>3, <1>4, <1>5, <1>9, LandFacts
    <2> QED
      BY <1>2, <2>1, <2>2 DEF LandsAs
  <1>11. TypeOK'
    BY <1>1, <1>3, <1>10 DEF TypeOK, Videos, Statuses
  <1>12. RowsFit'
    <2>1. \A w \in Videos' : w \in Slot /\ (w = v \/ w \in Videos)
      <3>1. Videos' = 1..v
        BY <1>10 DEF Videos
      <3>2. 1..v \subseteq Slot
        BY <1>3, VideoCountIsPositive DEF Slot
      <3> QED
        BY <1>7, <3>1, <3>2
    <2>2. \A w \in Videos : video[w].review # "approved" /\ video[w].review # "rejected"
      BY <1>1, <1>2 DEF ReviewInv, RowsFit, Rejected
    <2>3. \A w \in Videos' : video'[w].review # "rejected" /\ video'[w].review # "approved"
      BY <1>5, <1>8, <1>10, <2>1, <2>2
    <2>4. v <= VideoCount
      BY <1>3
    <2>5. \A w \in Videos' : w \in Slot
      BY <2>1
    <2>6. Rejected' = {}
      BY <2>3 DEF Rejected
    <2>7. status' = "delivered" => submitted' = VideoCount
      BY <1>10
    <2>8. status' = "funded" => submitted' < VideoCount
      BY <1>3, <1>10, VideoCountIsPositive
    <2>9. status' \in {"delivered", "funded"}
      BY <1>10
    <2> QED
      BY <2>3, <2>6, <2>7, <2>8, <2>9 DEF RowsFit
  <1>13. PagesArePast'
    <2> SUFFICES ASSUME NEW p \in Page, NEW w \in Slot
                 PROVE  /\ page[p][w].version <= video'[w].version
                        /\ page[p][w].version = video'[w].version => page[p][w].url = video'[w].url
      BY <1>10 DEF PagesArePast
    <2>1. /\ page[p][w].version <= video[w].version
          /\ page[p][w].version = video[w].version => page[p][w].url = video[w].url
      BY DEF ReviewInv, PagesArePast
    <2>2. page[p][w].version \in Nat
      BY DEF ReviewInv, TypeOK, Seen
    <2>3. CASE w = v
      <3>1. page[p][w].version <= 0
        BY <1>6, <2>1, <2>3 DEF NoVideo
      <3>2. video'[w].version = 1
        BY <1>5, <1>8, <1>10, <2>3
      <3> QED
        BY <2>2, <3>1, <3>2
    <2>4. CASE w # v
      BY <1>5, <1>10, <2>1, <2>4
    <2> QED
      BY <2>3, <2>4
  <1>14. MetricsAreOfTheCurrentVideo'
    <2>1. metric[v].url = NoUrl
      <3>1. video[v].url = NoUrl
        BY <1>6 DEF NoVideo
      <3>2. metric[v].url # NoUrl =>
              metric[v] = [version |-> video[v].version, url |-> video[v].url]
        BY <1>3 DEF ReviewInv, MetricsAreOfTheCurrentVideo
      <3> QED
        BY <3>1, <3>2
    <2> QED
      BY <1>1, <1>5, <1>10, <2>1 DEF ReviewInv, MetricsAreOfTheCurrentVideo
  <1>15. HeardIsRecorded'
    <2>1. heard[r] = NoAnswer
      BY UnlandedIsUnheard DEF Add
    <2> QED
      BY <1>10, <2>1 DEF ReviewInv, HeardIsRecorded
  <1> QED
    BY <1>11, <1>12, <1>13, <1>14, <1>15 DEF ReviewInv

LEMMA OpenPageKeepsInv ==
  ASSUME ReviewInv, NEW p \in Page, OpenPage(p) PROVE ReviewInv'
  <1> DEFINE shown == [v \in Slot |-> [version |-> video[v].version, url |-> video[v].url]]
  <1>1. /\ page' = [page EXCEPT ![p] = shown] /\ page \in [Page -> [Slot -> Seen]]
        /\ video \in [Slot -> Video]
    BY DEF OpenPage, ReviewInv, TypeOK
  <1>2. shown \in [Slot -> Seen]
    <2>1. \A v \in Slot : video[v].version \in Nat /\ video[v].url \in Request \cup {NoUrl}
      BY <1>1 DEF Video
    <2> QED
      BY <2>1 DEF Seen
  <1>3. \A v \in Slot : shown[v].version = video[v].version /\ shown[v].url = video[v].url
    OBVIOUS
  <1>4. \A v \in Slot : video[v].version \in Nat
    BY SlotsAreVideos DEF ReviewInv
  <1> HIDE DEF shown
  <1>5. page' \in [Page -> [Slot -> Seen]]
    BY <1>1, <1>2
  <1>6. PagesArePast'
    <2> SUFFICES ASSUME NEW q \in Page, NEW v \in Slot
                 PROVE  /\ page'[q][v].version <= video[v].version
                        /\ page'[q][v].version = video[v].version => page'[q][v].url = video[v].url
      BY DEF PagesArePast, OpenPage
    <2>1. CASE q = p
      BY <1>1, <1>3, <1>4, <2>1
    <2>2. CASE q # p
      BY <1>1, <2>2 DEF ReviewInv, PagesArePast
    <2> QED
      BY <2>1, <2>2
  <1> QED
    BY <1>5, <1>6 DEF OpenPage, ReviewInv, TypeOK, RowsFit, Videos, Rejected,
                      MetricsAreOfTheCurrentVideo, HeardIsRecorded

\* A decision touches the verdict and the open cycle of each row, nothing else of it.
LEMMA RowsStay ==
  ASSUME TypeOK, submitted' = submitted, video' \in [Slot -> Video],
         \A v \in Slot \ Videos : video'[v] = video[v],
         \A v \in Slot : video'[v].version = video[v].version
  PROVE  \A v \in Slot : IF v \in Videos' THEN video'[v].version > 0 ELSE video'[v] = NoVideo
  BY SlotsAreVideos DEF Videos

Judged(row, verdict) == [row EXCEPT !.cycle = 0, !.review = verdict]

LEMMA JudgedRow ==
  ASSUME NEW row \in Video, NEW verdict \in ReviewStatus
  PROVE  /\ Judged(row, verdict).version = row.version /\ Judged(row, verdict).url = row.url
         /\ Judged(row, verdict).review = verdict /\ Judged(row, verdict) \in Video
  <1> DEFINE closed == [row EXCEPT !.cycle = 0]
  <1>1. closed \in Video /\ closed.version = row.version /\ closed.url = row.url
    BY DEF Video
  <1>2. Judged(row, verdict) = [closed EXCEPT !.review = verdict]
    BY DEF Judged
  <1> HIDE DEF closed
  <1> QED
    BY <1>1, <1>2 DEF Video

LEMMA ApproveKeepsInv ==
  ASSUME ReviewInv, NEW p \in Page, NEW kind \in {"batch_approved", "admin_release"}, Approve(p, kind)
  PROVE  ReviewInv'
  <1>1. /\ TypeOK /\ video \in [Slot -> Video] /\ status = "delivered" /\ status' = "completed"
        /\ submitted' = submitted /\ submitted = VideoCount
        /\ video' = [v \in Slot |-> IF v \in Videos
                       THEN [video[v] EXCEPT !.cycle = 0, !.review = "approved"] ELSE video[v]]
    BY DEF Approve, PayableFrom, ReviewInv, TypeOK, RowsFit
  <1>2. Videos = Slot /\ Videos' = Slot /\ 1 \in Slot
    <2>1. Videos = Slot /\ Videos' = Slot
      BY <1>1 DEF Videos, Slot
    <2>2. 1 \in Slot
      BY VideoCountIsPositive DEF Slot
    <2> QED
      BY <2>1, <2>2
  <1>3. \A v \in Slot : video'[v] = [video[v] EXCEPT !.cycle = 0, !.review = "approved"]
    BY <1>1, <1>2
  <1>4. \A v \in Slot : /\ video'[v].version = video[v].version /\ video'[v].url = video[v].url
                        /\ video'[v].review = "approved" /\ video'[v] \in Video
    <2> SUFFICES ASSUME NEW v \in Slot
                 PROVE  /\ video'[v].version = video[v].version /\ video'[v].url = video[v].url
                        /\ video'[v].review = "approved" /\ video'[v] \in Video
      OBVIOUS
    <2>1. video[v] \in Video
      BY <1>1
    <2>2. video'[v] = Judged(video[v], "approved")
      BY <1>3 DEF Judged
    <2>3. "approved" \in ReviewStatus
      BY DEF ReviewStatus
    <2> QED
      BY <2>1, <2>2, <2>3, JudgedRow
  <1>5. ApprovalEvidence(kind) \subseteq Event
    <2>1. \A v \in Videos : video[v].cycle \in Nat
      BY <1>1, <1>2 DEF Video
    <2>2. \A v \in Videos : Evidence(v, kind, video[v].cycle) \in Event
      BY <1>1, <1>2, <2>1, EvidenceIsEvent DEF Kind
    <2> QED
      BY <2>2 DEF ApprovalEvidence
  <1>6. /\ PagesArePast' /\ MetricsAreOfTheCurrentVideo' /\ HeardIsRecorded'
        /\ page' \in [Page -> [Slot -> Seen]]
    BY <1>4, SameVideosKeepTheRest DEF Approve
  <1>7. video' \in [Slot -> Video]
    BY <1>1, <1>4
  <1>8. \A v \in Slot : IF v \in Videos' THEN video'[v].version > 0 ELSE video'[v] = NoVideo
    BY <1>1, <1>2, <1>4, <1>7, RowsStay
  <1>9. TypeOK'
    BY <1>1, <1>5, <1>6, <1>7, <1>8 DEF Approve, ReviewInv, TypeOK, Statuses
  <1>10. RowsFit'
    <2>1. Rejected' = {}
      BY <1>2, <1>4 DEF Rejected
    <2>2. \E v \in Videos' : video'[v].review = "approved"
      BY <1>2, <1>4
    <2> QED
      BY <1>1, <2>1, <2>2 DEF RowsFit
  <1> QED
    BY <1>6, <1>9, <1>10 DEF ReviewInv

LEMMA InterruptionsAreEvents ==
  ASSUME TypeOK, NEW except PROVE Interruptions(except) \subseteq Event
  <1>1. \A v \in Videos : v \in Slot /\ video[v].cycle \in Nat
    BY SlotsAreVideos DEF Video
  <1>2. \A v \in Videos : Evidence(v, "review_interrupted", video[v].cycle) \in Event
    BY <1>1, EvidenceIsEvent DEF Kind
  <1> QED
    BY <1>2 DEF Interruptions

LEMMA RejectKeepsInv ==
  ASSUME ReviewInv, NEW p \in Page, NEW v \in Slot, Reject(p, v) PROVE ReviewInv'
  <1>1. /\ TypeOK /\ video \in [Slot -> Video] /\ v \in Videos
        /\ status = "delivered" /\ status' = "revision_requested"
        /\ submitted' = submitted /\ submitted = VideoCount
        /\ video' = [w \in Slot |-> [video[w] EXCEPT
                       !.cycle = 0, !.review = IF w = v THEN "rejected" ELSE @]]
    BY DEF Reject, MayReject, CanReview, CanTransition, LegalTransitions, ReviewInv, TypeOK,
           RowsFit, Statuses
  <1>2. Videos = Slot /\ Videos' = Slot
    BY <1>1 DEF Videos, Slot
  <1>3. \A w \in Slot : video'[w] = [video[w] EXCEPT
                           !.cycle = 0, !.review = IF w = v THEN "rejected" ELSE video[w].review]
    BY <1>1
  <1>4. \A w \in Slot : /\ video'[w].version = video[w].version /\ video'[w].url = video[w].url
                        /\ video'[w].review = (IF w = v THEN "rejected" ELSE video[w].review)
                        /\ video'[w] \in Video
    <2> SUFFICES ASSUME NEW w \in Slot
                 PROVE  /\ video'[w].version = video[w].version /\ video'[w].url = video[w].url
                        /\ video'[w].review = (IF w = v THEN "rejected" ELSE video[w].review)
                        /\ video'[w] \in Video
      OBVIOUS
    <2>1. video[w] \in Video
      BY <1>1
    <2> DEFINE verdict == IF w = v THEN "rejected" ELSE video[w].review
    <2>2. video'[w] = Judged(video[w], verdict)
      BY <1>3 DEF Judged
    <2>3. verdict \in ReviewStatus
      BY <2>1 DEF Video, ReviewStatus
    <2> HIDE DEF verdict
    <2>4. /\ video'[w].version = video[w].version /\ video'[w].url = video[w].url
          /\ video'[w].review = verdict /\ video'[w] \in Video
      BY <2>1, <2>2, <2>3, JudgedRow
    <2> QED
      BY <2>4 DEF verdict
  <1>5. RejectionEvidence(v) \subseteq Event
    <2>1. video[v].cycle \in Nat
      BY <1>1 DEF Video
    <2>2. Evidence(v, "revision_requested", video[v].cycle) \in Event
      BY <1>1, <2>1, EvidenceIsEvent DEF Kind
    <2> QED
      BY <1>1, <2>2, InterruptionsAreEvents DEF RejectionEvidence
  <1>6. /\ PagesArePast' /\ MetricsAreOfTheCurrentVideo' /\ HeardIsRecorded'
        /\ page' \in [Page -> [Slot -> Seen]]
    BY <1>4, SameVideosKeepTheRest DEF Reject
  <1>7. video' \in [Slot -> Video]
    BY <1>1, <1>4
  <1>8. \A w \in Slot : IF w \in Videos' THEN video'[w].version > 0 ELSE video'[w] = NoVideo
    BY <1>1, <1>2, <1>4, <1>7, RowsStay
  <1>9. TypeOK'
    BY <1>1, <1>5, <1>6, <1>7, <1>8 DEF Reject, ReviewInv, TypeOK, Statuses
  <1>10. RowsFit'
    <2>1. \A w \in Slot : video[w].review # "rejected" /\ video[w].review # "approved"
      BY <1>1, <1>2 DEF ReviewInv, RowsFit, Rejected
    <2>2. Rejected' = {v}
      BY <1>2, <1>4, <2>1 DEF Rejected
    <2>3. \A w \in Videos' : video'[w].review # "approved"
      BY <1>2, <1>4, <2>1
    <2> QED
      BY <1>1, <2>2, <2>3 DEF RowsFit
  <1> QED
    BY <1>6, <1>9, <1>10 DEF ReviewInv

LEMMA RefundKeepsInv ==
  ASSUME ReviewInv, Refund PROVE ReviewInv'
  <1>1. /\ TypeOK /\ video \in [Slot -> Video] /\ status # "completed" /\ status' = "refunded"
        /\ submitted' = submitted
        /\ video' = [v \in Slot |-> [video[v] EXCEPT !.cycle = 0]]
    BY DEF Refund, RefundableFrom, ReviewInv, TypeOK
  <1>2. \A v \in Slot : video'[v] = [video[v] EXCEPT !.cycle = 0]
    BY <1>1
  <1>3. \A v \in Slot : /\ video'[v].version = video[v].version /\ video'[v].url = video[v].url
                        /\ video'[v].review = video[v].review /\ video'[v] \in Video
    <2> SUFFICES ASSUME NEW v \in Slot
                 PROVE  /\ video'[v].version = video[v].version /\ video'[v].url = video[v].url
                        /\ video'[v].review = video[v].review /\ video'[v] \in Video
      OBVIOUS
    <2>1. video[v] \in Video
      BY <1>1
    <2>2. video'[v] = [video[v] EXCEPT !.cycle = 0]
      BY <1>2
    <2> QED
      BY <2>1, <2>2 DEF Video
  <1>4. RefundEvidence \subseteq Event
    <2>1. \A v \in Videos : Evidence(v, "refunded", 0) \in Event
      BY <1>1, SlotsAreVideos, EvidenceIsEvent DEF Kind
    <2> QED
      BY <1>1, <2>1, InterruptionsAreEvents DEF RefundEvidence
  <1>5. /\ PagesArePast' /\ MetricsAreOfTheCurrentVideo' /\ HeardIsRecorded'
        /\ page' \in [Page -> [Slot -> Seen]]
    BY <1>3, SameVideosKeepTheRest DEF Refund
  <1>6. video' \in [Slot -> Video]
    BY <1>1, <1>3
  <1>7. \A v \in Slot \ Videos : video'[v] = video[v]
    <2>1. \A v \in Slot \ Videos : video[v] = NoVideo
      BY <1>1, SlotsAreVideos
    <2>2. [NoVideo EXCEPT !.cycle = 0] = NoVideo
      BY DEF NoVideo
    <2> QED
      BY <1>2, <2>1, <2>2
  <1>8. \A v \in Slot : IF v \in Videos' THEN video'[v].version > 0 ELSE video'[v] = NoVideo
    BY <1>1, <1>3, <1>6, <1>7, RowsStay
  <1>9. TypeOK'
    BY <1>1, <1>4, <1>5, <1>6, <1>8 DEF Refund, ReviewInv, TypeOK, Statuses
  <1>10. RowsFit'
    <2>1. \A v \in Videos : video[v].review # "approved"
      BY <1>1 DEF ReviewInv, RowsFit
    <2>2. \A v \in Videos' : video'[v].review # "approved"
      BY <1>1, <1>3, <2>1, SlotsAreVideos DEF Videos
    <2> QED
      BY <1>1, <2>2 DEF RowsFit
  <1> QED
    BY <1>5, <1>9, <1>10 DEF ReviewInv

LEMMA RecordMetricsKeepsInv ==
  ASSUME ReviewInv, NEW p \in Page, NEW v \in Slot, RecordMetrics(p, v) PROVE ReviewInv'
  <1>1. /\ page[p][v] \in Seen /\ metric \in [Slot -> Seen]
        /\ metric' = [metric EXCEPT ![v] = page[p][v]]
        /\ page[p][v].version = video[v].version
    BY DEF RecordMetrics, ReviewInv, TypeOK
  <1>2. page[p][v].url = video[v].url
    BY <1>1 DEF ReviewInv, PagesArePast
  <1>3. page[p][v] = [version |-> video[v].version, url |-> video[v].url]
    BY <1>1, <1>2 DEF Seen
  <1>4. metric' \in [Slot -> Seen] /\ MetricsAreOfTheCurrentVideo'
    BY <1>1, <1>3 DEF RecordMetrics, ReviewInv, MetricsAreOfTheCurrentVideo
  <1> QED
    BY <1>4 DEF RecordMetrics, ReviewInv, TypeOK, RowsFit, Videos, Rejected, PagesArePast,
                HeardIsRecorded

LEMMA StutterKeepsInv ==
  ASSUME ReviewInv, UNCHANGED vars PROVE ReviewInv'
  BY DEF vars, ReviewInv, TypeOK, RowsFit, Videos, Rejected, PagesArePast,
         MetricsAreOfTheCurrentVideo, HeardIsRecorded

LEMMA SpecInv == Spec => []ReviewInv
  <1>1. ReviewInv /\ [Next]_vars => ReviewInv'
    <2> SUFFICES ASSUME ReviewInv, [Next]_vars PROVE ReviewInv'
      OBVIOUS
    <2>1. ASSUME NEW r \in Request, FillForm(r) PROVE ReviewInv'
      BY <2>1, FillFormKeepsInv
    <2>2. ASSUME NEW r \in Request, Replay(r) PROVE ReviewInv'
      BY <2>2, ReplayKeepsInv
    <2>3. ASSUME NEW r \in Request, Add(r) PROVE ReviewInv'
      BY <2>3, AddKeepsInv
    <2>4. ASSUME NEW r \in Request, NEW v \in Slot, Replace(r, v) PROVE ReviewInv'
      BY <2>4, ReplaceKeepsInv
    <2>5. ASSUME NEW p \in Page, OpenPage(p) PROVE ReviewInv'
      BY <2>5, OpenPageKeepsInv
    <2>6. ASSUME NEW p \in Page, NEW kind \in {"batch_approved", "admin_release"}, Approve(p, kind)
          PROVE  ReviewInv'
      BY <2>6, ApproveKeepsInv
    <2>7. ASSUME NEW p \in Page, NEW v \in Slot, Reject(p, v) PROVE ReviewInv'
      BY <2>7, RejectKeepsInv
    <2>8. ASSUME NEW p \in Page, NEW v \in Slot, RecordMetrics(p, v) PROVE ReviewInv'
      BY <2>8, RecordMetricsKeepsInv
    <2>9. CASE Refund
      BY <2>9, RefundKeepsInv
    <2>10. CASE UNCHANGED vars
      BY <2>10, StutterKeepsInv
    <2> QED
      BY <2>1, <2>2, <2>3, <2>4, <2>5, <2>6, <2>7, <2>8, <2>9, <2>10 DEF Next
  <1> QED
    BY InitInv, <1>1, PTL DEF Spec

----------------------------------------------------------------------------
\* Type correctness: the rows, the evidence, the requests and the pages keep their types,
\* and exactly the first `submitted` places hold a video.
THEOREM ReviewTypeCorrect == Spec => []TypeOK
  <1>1. ReviewInv => TypeOK
    BY DEF ReviewInv
  <1> QED
    BY SpecInv, <1>1, PTL

\* A deal is delivered exactly when all its videos are there and none is sent back, and a
\* deal that waits for a revision has exactly one video to replace, however many videos,
\* forms and pages there are.
THEOREM RowsMatchStatus == Spec => []VideosMatchStatus
  <1>1. ReviewInv => VideosMatchStatus
    <2> SUFFICES ASSUME ReviewInv PROVE VideosMatchStatus
      OBVIOUS
    <2>1. RowsFit /\ status \in Statuses
      BY DEF ReviewInv, TypeOK
    <2>2. CASE status = "revision_requested"
      <3>1. Cardinality(Rejected) = 1
        <4>1. PICK v \in Slot : Rejected = {v}
          BY <2>1, <2>2 DEF RowsFit
        <4> QED
          BY <4>1, FS_Singleton
      <3> QED
        BY <2>1, <2>2, <3>1 DEF RowsFit, VideosMatchStatus
    <2>3. CASE status = "refunded"
      BY <2>1, <2>3 DEF RowsFit, VideosMatchStatus
    <2>4. CASE status \in {"funded", "delivered", "completed"}
      <3>1. Cardinality(Rejected) = 0
        BY <2>1, <2>4, FS_EmptySet DEF RowsFit
      <3> QED
        BY <2>1, <2>4, <3>1 DEF RowsFit, VideosMatchStatus
    <2> QED
      BY <2>1, <2>2, <2>3, <2>4 DEF Statuses
  <1> QED
    BY SpecInv, <1>1, PTL

\* The figures of a row are those of the video it shows, however late they were entered.
THEOREM FiguresAreCurrent == Spec => []MetricsAreOfTheCurrentVideo
  <1>1. ReviewInv => MetricsAreOfTheCurrentVideo
    BY DEF ReviewInv
  <1> QED
    BY SpecInv, <1>1, PTL

\* Both together: the rows tell the deal.
THEOREM RowsAreRight == Spec => []RowsTellTheDeal
  <1>1. VideosMatchStatus /\ MetricsAreOfTheCurrentVideo => RowsTellTheDeal
    BY DEF RowsTellTheDeal
  <1> QED
    BY RowsMatchStatus, FiguresAreCurrent, <1>1, PTL

----------------------------------------------------------------------------
\* What DecisionsAreAboutWhatWasSeen says of one step.
SeenDecision ==
  /\ status # "completed" /\ status' = "completed" =>
       \E p \in Page : page'[p] # page[p] /\ \A v \in Slot : page[p][v].url = video[v].url
  /\ \A v \in Slot : video[v].review # "rejected" /\ video'[v].review = "rejected" =>
       \E p \in Page : page'[p] # page[p] /\ page[p][v].url = video[v].url

LEMMA ReplaceDecidesNothing ==
  ASSUME ReviewInv, NEW r \in Request, NEW v \in Slot, Replace(r, v) PROVE SeenDecision
  <1> DEFINE rows == [video EXCEPT ![v] = Replacement(r, v)]
  <1>1. Land(r, v, rows, submitted, ReplacementEvidence(v))
    BY DEF Replace
  <1>2. video \in [Slot -> Video] /\ rows[v].review = "pending"
    BY DEF ReviewInv, TypeOK, Replacement
  <1>3. \A w \in Slot : w # v => rows[w] = video[w]
    BY <1>2
  <1> HIDE DEF rows
  <1>4. status' = "delivered" \/ status' = status
    BY <1>1 DEF Land
  <1>5. \A w \in Slot : video'[w].review = rows[w].review
    <2> SUFFICES ASSUME NEW w \in Slot PROVE video'[w].review = rows[w].review
      OBVIOUS
    <2>1. video' = rows \/ video' = OpenCycle(rows, submitted)
      BY <1>1 DEF Land
    <2>2. OpenCycle(rows, submitted)[w] = rows[w]
            \/ OpenCycle(rows, submitted)[w] = [rows[w] EXCEPT !.cycle = cycles + 1]
      BY DEF OpenCycle
    <2>3. rows[w] \in Video
      <3>1. Replacement(r, v) \in Video
        <4>1. video[v].version + 1 \in Nat
          BY SlotsAreVideos DEF ReviewInv
        <4> QED
          BY <4>1 DEF Replacement, NextVersion, Video, ReviewStatus
      <3> QED
        BY <1>2, <3>1 DEF rows
    <2> QED
      BY <2>1, <2>2, <2>3 DEF Video
  <1> QED
    BY <1>2, <1>3, <1>4, <1>5 DEF SeenDecision

LEMMA AddDecidesNothing ==
  ASSUME ReviewInv, NEW r \in Request, Add(r) PROVE SeenDecision
  <1>1. ReviewInv'
    BY AddKeepsInv
  <1>2. status' = "delivered" \/ status' = status
    BY DEF Add, Land
  <1>3. status = "funded"
    <2>1. Rejected = {} /\ CanDeliver(status)
      BY DEF Add
    <2>2. status # "revision_requested"
      BY <2>1 DEF ReviewInv, RowsFit
    <2> QED
      BY <2>1, <2>2 DEF CanDeliver, CanTransition, LegalTransitions, ReviewInv, TypeOK, Statuses
  <1>4. Rejected' = {}
    BY <1>1, <1>2, <1>3 DEF ReviewInv, RowsFit
  <1>5. \A v \in Slot : video'[v].review # "rejected"
    <2> SUFFICES ASSUME NEW v \in Slot PROVE video'[v].review # "rejected"
      OBVIOUS
    <2>1. CASE v \in Videos'
      BY <1>4, <2>1 DEF Rejected
    <2>2. CASE v \notin Videos'
      <3>1. video'[v] = NoVideo
        BY <1>1, <2>2 DEF ReviewInv, TypeOK
      <3> QED
        BY <3>1 DEF NoVideo
    <2> QED
      BY <2>1, <2>2
  <1> QED
    BY <1>2, <1>3, <1>5 DEF SeenDecision

\* A page that shows the current version of a video shows its link.
LEMMA ApproveSawThem ==
  ASSUME ReviewInv, NEW p \in Page, NEW kind \in {"batch_approved", "admin_release"}, Approve(p, kind)
  PROVE  SeenDecision
  <1>1. page \in [Page -> [Slot -> Seen]] /\ page[p] # NothingSeen /\ SameVersions(p)
        /\ page' = [page EXCEPT ![p] = NothingSeen]
    BY DEF Approve, ClosePage, ReviewInv, TypeOK
  <1>2. page'[p] # page[p]
    BY <1>1
  <1>3. \A v \in Slot : page[p][v].url = video[v].url
    BY <1>1 DEF SameVersions, ReviewInv, PagesArePast
  <1>4. \A v \in Slot : page[p][v].url = video[v].url /\ page'[p] # page[p]
    BY <1>2, <1>3
  <1> QED
    BY <1>2, <1>3, <1>4 DEF SeenDecision

LEMMA RejectSawIt ==
  ASSUME ReviewInv, NEW p \in Page, NEW v \in Slot, Reject(p, v) PROVE SeenDecision
  <1>1. page \in [Page -> [Slot -> Seen]] /\ page[p] # NothingSeen
        /\ page[p][v].version = video[v].version /\ page' = [page EXCEPT ![p] = NothingSeen]
        /\ status' = "revision_requested"
    BY DEF Reject, ClosePage, ReviewInv, TypeOK
  <1>2. page'[p] # page[p]
    BY <1>1
  <1>3. page[p][v].url = video[v].url
    BY <1>1 DEF ReviewInv, PagesArePast
  <1>4. \A w \in Slot : w # v => video'[w].review = video[w].review
    <2> SUFFICES ASSUME NEW w \in Slot, w # v PROVE video'[w].review = video[w].review
      OBVIOUS
    <2>1. video[w] \in Video
      BY DEF ReviewInv, TypeOK
    <2>2. video'[w] = Judged(video[w], video[w].review)
      BY DEF Reject, Judged
    <2>3. video[w].review \in ReviewStatus
      BY <2>1 DEF Video
    <2> QED
      BY <2>1, <2>2, <2>3, JudgedRow
  <1> QED
    BY <1>1, <1>2, <1>3, <1>4 DEF SeenDecision

LEMMA RefundDecidesNothing ==
  ASSUME ReviewInv, Refund PROVE SeenDecision
  <1>1. \A v \in Slot : video'[v].review = video[v].review
    <2> SUFFICES ASSUME NEW v \in Slot PROVE video'[v].review = video[v].review
      OBVIOUS
    <2>1. video[v] \in Video
      BY DEF ReviewInv, TypeOK
    <2>2. video'[v] = [video[v] EXCEPT !.cycle = 0]
      BY DEF Refund
    <2> QED
      BY <2>1, <2>2 DEF Video
  <1> QED
    BY <1>1 DEF SeenDecision, Refund

\* A deal is completed, or a video sent back, only by someone whose page showed the links
\* that are judged.
THEOREM DecisionsWereSeen == Spec => DecisionsAreAboutWhatWasSeen
  <1>1. ReviewInv /\ [Next]_vars => [SeenDecision]_vars
    <2> SUFFICES ASSUME ReviewInv, Next PROVE SeenDecision
      OBVIOUS
    <2>1. ASSUME NEW r \in Request, FillForm(r) PROVE SeenDecision
      BY <2>1 DEF FillForm, SeenDecision
    <2>2. ASSUME NEW r \in Request, Replay(r) PROVE SeenDecision
      BY <2>2 DEF Replay, SeenDecision
    <2>3. ASSUME NEW r \in Request, Add(r) PROVE SeenDecision
      BY <2>3, AddDecidesNothing
    <2>4. ASSUME NEW r \in Request, NEW v \in Slot, Replace(r, v) PROVE SeenDecision
      BY <2>4, ReplaceDecidesNothing
    <2>5. ASSUME NEW p \in Page, OpenPage(p) PROVE SeenDecision
      BY <2>5 DEF OpenPage, SeenDecision
    <2>6. ASSUME NEW p \in Page, NEW kind \in {"batch_approved", "admin_release"}, Approve(p, kind)
          PROVE  SeenDecision
      BY <2>6, ApproveSawThem
    <2>7. ASSUME NEW p \in Page, NEW v \in Slot, Reject(p, v) PROVE SeenDecision
      BY <2>7, RejectSawIt
    <2>8. ASSUME NEW p \in Page, NEW v \in Slot, RecordMetrics(p, v) PROVE SeenDecision
      BY <2>8 DEF RecordMetrics, SeenDecision
    <2>9. CASE Refund
      BY <2>9, RefundDecidesNothing
    <2> QED
      BY <2>1, <2>2, <2>3, <2>4, <2>5, <2>6, <2>7, <2>8, <2>9 DEF Next
  <1> QED
    BY SpecInv, <1>1, PTL DEF Spec, DecisionsAreAboutWhatWasSeen, SeenDecision

----------------------------------------------------------------------------
\* What RetryAnswersTheSame says of one step.
SameAnswers == \A r \in Request : heard[r] # NoAnswer => heard'[r] = heard[r]

\* The answer to a submission, given when it lands.
LEMMA FirstAnswerIsNew ==
  ASSUME ReviewInv, NEW r \in Request, ~HasLanded(r),
         \E answer : Receive(r, answer)
  PROVE  SameAnswers
  <1>1. heard \in [Request -> Answer] /\ heard[r] = NoAnswer
    BY UnlandedIsUnheard DEF ReviewInv, TypeOK
  <1>2. PICK answer : heard' \in {heard, [heard EXCEPT ![r] = answer]}
    BY DEF Receive
  <1> QED
    BY <1>1, <1>2 DEF SameAnswers

\* However often a form is sent, the creator hears one answer.
THEOREM AnswersNeverChange == Spec => RetryAnswersTheSame
  <1>1. ReviewInv /\ [Next]_vars => [SameAnswers]_heard
    <2> SUFFICES ASSUME ReviewInv, Next, heard' # heard PROVE SameAnswers
      BY DEF vars
    <2>1. PICK r \in Request : Replay(r) \/ Add(r) \/ \E v \in Slot : Replace(r, v)
      BY DEF Next, FillForm, OpenPage, Approve, Reject, RecordMetrics, Refund
    <2>2. CASE Replay(r)
      <3>1. heard \in [Request -> Answer] /\ heard[r] # NoAnswer => heard[r] = landed[r].answer
        BY DEF ReviewInv, TypeOK, HeardIsRecorded
      <3>2. heard' = [heard EXCEPT ![r] = landed[r].answer]
        BY <2>2 DEF Replay, Receive
      <3> QED
        BY <3>1, <3>2 DEF SameAnswers, ReviewInv, TypeOK
    <2>3. CASE Add(r)
      <3>1. ~HasLanded(r) /\ \E answer : Receive(r, answer)
        BY <2>3 DEF Add, Land
      <3> QED
        BY <3>1, FirstAnswerIsNew
    <2>4. CASE \E v \in Slot : Replace(r, v)
      <3>1. ~HasLanded(r) /\ \E answer : Receive(r, answer)
        BY <2>4 DEF Replace, Land
      <3> QED
        BY <3>1, FirstAnswerIsNew
    <2> QED
      BY <2>1, <2>2, <2>3, <2>4
  <1> QED
    BY SpecInv, <1>1, PTL DEF Spec, RetryAnswersTheSame, SameAnswers

----------------------------------------------------------------------------
\* The versions of v for which there is evidence of this kind.
OnRecord(v, kind) == { e.version : e \in { h \in history : h.video = v /\ h.kind = kind } }

\* The evidence among events that v's review cycle c ended.
EndsAmong(events, v, c) ==
  { e \in events : e.kind \in Endings /\ e.video = v /\ e.cycle = c }

\* A delivered deal has all its videos in the newest cycle, any other deal has none in one.
CyclesAreOpen ==
  /\ \A v \in Slot : video[v].cycle = IF status = "delivered" THEN cycles ELSE 0
  /\ status = "delivered" => cycles > 0

\* Evidence is about a video that is there and a cycle that was opened.
EvidenceIsPast ==
  \A e \in history : /\ e.video \in Videos /\ e.cycle <= cycles
                     /\ e.kind = "review_ready" => e.cycle > 0

\* What CyclesEndOnce says, without counting.
CyclesEnd ==
  \A e \in history : e.kind = "review_ready" =>
    IF video[e.video].cycle = e.cycle
    THEN EndsAmong(history, e.video, e.cycle) = {}
    ELSE \E end \in history : EndsAmong(history, e.video, e.cycle) = {end}

\* What is on record of a video, by the kind of evidence.
VersionsOnRecord(v) ==
  LET current == video[v].version IN
  /\ OnRecord(v, "submitted") = 1..current
  /\ OnRecord(v, "superseded") = 1..current - 1
  /\ OnRecord(v, "revision_requested") =
       IF video[v].review = "rejected" THEN 1..current ELSE 1..current - 1

HistoryFits ==
  /\ CyclesAreOpen
  /\ EvidenceIsPast
  /\ CyclesEnd
  /\ \A v \in Videos : VersionsOnRecord(v)

----------------------------------------------------------------------------
\* A submission leaves every cycle as it was, or opens one for all the videos together.
LEMMA LandKeepsCycles ==
  ASSUME ReviewInv, ReviewInv', HistoryFits, status \in {"funded", "revision_requested"},
         NEW r \in Request, NEW v \in Slot, NEW rows \in [Slot -> Video], NEW count \in 0..VideoCount,
         NEW evidence, Land(r, v, rows, count, evidence),
         \A w \in Slot : rows[w].cycle = 0,
         \A e \in evidence : e.video = v /\ e.cycle = 0 /\ e.kind \in {"submitted", "superseded"},
         Videos \subseteq 1..count, v \in 1..count
  PROVE  /\ CyclesAreOpen' /\ EvidenceIsPast' /\ CyclesEnd'
         /\ \A w \in Videos', kind \in {"submitted", "superseded", "revision_requested"} :
              OnRecord(w, kind)' = OnRecord(w, kind) \cup
                                   { e.version : e \in { h \in evidence : h.video = w /\ h.kind = kind } }
  <1> DEFINE complete == count = VideoCount
             events == evidence \cup (IF complete THEN CycleEvidence(rows, count) ELSE {})
  <1>1. /\ history' = history \cup events /\ submitted' = count
        /\ video' = IF complete THEN OpenCycle(rows, count) ELSE rows
        /\ cycles' = IF complete THEN cycles + 1 ELSE cycles
        /\ status' = IF complete THEN "delivered" ELSE status
    BY DEF Land
  <1>2. cycles \in Nat /\ \A w \in Slot : video[w].cycle = 0
    BY DEF HistoryFits, CyclesAreOpen, ReviewInv, TypeOK
  <1>3. Videos' = 1..count /\ Videos' \subseteq Slot /\ (complete => Videos' = Slot)
    BY <1>1, VideoCountIsPositive DEF Videos, Slot
  <1>4. \A w \in Slot : video'[w].cycle = IF complete THEN cycles' ELSE 0
    <2> SUFFICES ASSUME NEW w \in Slot PROVE video'[w].cycle = IF complete THEN cycles' ELSE 0
      OBVIOUS
    <2>1. CASE complete
      <3>1. w <= count
        BY <2>1 DEF Slot
      <3>2. video'[w] = [rows[w] EXCEPT !.cycle = cycles + 1]
        BY <1>1, <2>1, <3>1 DEF OpenCycle
      <3>3. rows[w] \in Video
        OBVIOUS
      <3> QED
        BY <1>1, <2>1, <3>2, <3>3 DEF Video
    <2>2. CASE ~complete
      BY <1>1, <2>2
    <2> QED
      BY <2>1, <2>2
  <1>5. CyclesAreOpen'
    BY <1>1, <1>2, <1>4 DEF CyclesAreOpen
  <1>6. \A e \in events : \/ e \in evidence
                          \/ /\ complete /\ e.kind = "review_ready" /\ e.cycle = cycles + 1
                             /\ e.video \in 1..count
    BY DEF CycleEvidence
  <1> HIDE DEF events, complete
  <1>7. EvidenceIsPast'
    <2> SUFFICES ASSUME NEW e \in history'
                 PROVE  /\ e.video \in Videos' /\ e.cycle <= cycles'
                        /\ e.kind = "review_ready" => e.cycle > 0
      BY DEF EvidenceIsPast
    <2>1. CASE e \in history
      <3>1. e.video \in Videos /\ e.cycle <= cycles /\ e.cycle \in Nat
            /\ (e.kind = "review_ready" => e.cycle > 0)
        BY <2>1 DEF HistoryFits, EvidenceIsPast, ReviewInv, TypeOK, Event
      <3>2. cycles' \in Nat /\ cycles <= cycles'
        BY <1>1, <1>2
      <3>3. Videos \subseteq Videos'
        BY <1>3
      <3>4. e.cycle <= cycles'
        BY <1>2, <3>1, <3>2
      <3> QED
        BY <3>1, <3>3, <3>4
    <2>2. CASE e \in evidence
      BY <1>1, <1>2, <1>3, <2>2
    <2>3. CASE complete /\ e.kind = "review_ready" /\ e.cycle = cycles + 1 /\ e.video \in 1..count
      BY <1>1, <1>2, <1>3, <2>3
    <2> QED
      BY <1>1, <1>6, <2>1, <2>2, <2>3
  <1>8. \A w, c : EndsAmong(events, w, c) = {}
    BY <1>6 DEF EndsAmong, Endings
  <1>9. \A w, c : EndsAmong(history', w, c) = EndsAmong(history, w, c)
    <2> SUFFICES ASSUME NEW w, NEW c PROVE EndsAmong(history', w, c) = EndsAmong(history, w, c)
      OBVIOUS
    <2>1. EndsAmong(history', w, c) = EndsAmong(history, w, c) \cup EndsAmong(events, w, c)
      BY <1>1 DEF EndsAmong
    <2> QED
      BY <1>8, <2>1
  <1>10. CyclesEnd'
    <2> SUFFICES ASSUME NEW e \in history', e.kind = "review_ready"
                 PROVE  IF video'[e.video].cycle = e.cycle
                        THEN EndsAmong(history', e.video, e.cycle) = {}
                        ELSE \E end \in history' : EndsAmong(history', e.video, e.cycle) = {end}
      BY DEF CyclesEnd
    <2>1. CASE e \in history
      <3>1. /\ e.video \in Slot /\ e.cycle <= cycles /\ e.cycle > 0 /\ e.cycle \in Nat
        BY <2>1 DEF HistoryFits, EvidenceIsPast, ReviewInv, TypeOK, Event
      <3>2. \E end \in history : EndsAmong(history, e.video, e.cycle) = {end}
        <4>1. video[e.video].cycle = 0
          BY <1>2, <3>1
        <4>2. e.cycle # 0
          BY <3>1
        <4> QED
          BY <2>1, <4>1, <4>2 DEF HistoryFits, CyclesEnd
      <3>3. video'[e.video].cycle # e.cycle
        <4>1. complete => cycles' = cycles + 1
          BY <1>1
        <4>2. video'[e.video].cycle \in {0, cycles + 1}
          BY <1>4, <3>1, <4>1
        <4> QED
          BY <1>2, <3>1, <4>2
      <3> QED
        BY <1>1, <1>9, <3>2, <3>3
    <2>2. CASE e \notin history
      <3>1. complete /\ e.cycle = cycles + 1 /\ e.video \in 1..count
        BY <1>1, <1>6, <2>2
      <3>2. video'[e.video].cycle = e.cycle
        BY <1>1, <1>3, <1>4, <3>1
      <3>3. EndsAmong(history, e.video, e.cycle) = {}
        <4>1. \A h \in history : h.cycle <= cycles /\ h.cycle \in Nat
          BY DEF HistoryFits, EvidenceIsPast, ReviewInv, TypeOK, Event
        <4>2. \A h \in history : h.cycle # e.cycle
          BY <1>2, <3>1, <4>1
        <4> QED
          BY <4>2 DEF EndsAmong
      <3> QED
        BY <1>9, <3>2, <3>3
    <2> QED
      BY <2>1, <2>2
  <1>11. ASSUME NEW w, NEW kind \in {"submitted", "superseded", "revision_requested"}
         PROVE  OnRecord(w, kind)' = OnRecord(w, kind) \cup
                                   { e.version : e \in { h \in evidence : h.video = w /\ h.kind = kind } }
    <2>1. { h \in events : h.video = w /\ h.kind = kind } = { h \in evidence : h.video = w /\ h.kind = kind }
      <3>1. evidence \subseteq events
        BY DEF events
      <3> QED
        BY <1>6, <3>1
    <2> QED
      BY <1>1, <2>1 DEF OnRecord
  <1> QED
    BY <1>5, <1>7, <1>10, <1>11

\* Evidence that is about cycles that are open, or none, and ends each of them in one way.
ClosesCycles(events) ==
  /\ \A e \in events : /\ e.video \in Videos /\ e.cycle \in {0, video[e.video].cycle}
                       /\ e.kind # "review_ready"
                       /\ e.kind \in Endings => e.cycle = video[e.video].cycle
  /\ \A w \in Videos : video[w].cycle # 0 =>
       \E end \in events : EndsAmong(events, w, video[w].cycle) = {end}

\* A decision closes every cycle that is open, each with one piece of evidence.
LEMMA DecisionClosesCycles ==
  ASSUME ReviewInv, HistoryFits, NEW events, history' = history \cup events,
         UNCHANGED << cycles, submitted >>, status' # "delivered",
         \A w \in Slot : video'[w].cycle = 0,
         ClosesCycles(events)
  PROVE  CyclesAreOpen' /\ EvidenceIsPast' /\ CyclesEnd'
  <1>1. CyclesAreOpen'
    BY DEF CyclesAreOpen
  <1>2. /\ cycles \in Nat /\ Videos' = Videos /\ Videos \subseteq Slot
        /\ \A w \in Slot : video[w].cycle \in {0, cycles}
    BY SlotsAreVideos DEF HistoryFits, CyclesAreOpen, ReviewInv, TypeOK, Videos
  <1>3. \A e \in history : /\ e.video \in Videos /\ e.cycle <= cycles /\ e.cycle \in Nat
                           /\ e.kind = "review_ready" => e.cycle > 0
    BY DEF HistoryFits, EvidenceIsPast, ReviewInv, TypeOK, Event
  <1>4. EvidenceIsPast'
    BY <1>2, <1>3 DEF EvidenceIsPast, ClosesCycles
  <1>5. CyclesEnd'
    <2> SUFFICES ASSUME NEW e \in history', e.kind = "review_ready"
                 PROVE  IF video'[e.video].cycle = e.cycle
                        THEN EndsAmong(history', e.video, e.cycle) = {}
                        ELSE \E end \in history' : EndsAmong(history', e.video, e.cycle) = {end}
      BY DEF CyclesEnd
    <2>1. e \in history /\ e.video \in Slot /\ e.video \in Videos /\ e.cycle # 0
      BY <1>2, <1>3 DEF ClosesCycles
    <2>2. video'[e.video].cycle # e.cycle
      BY <2>1
    <2>3. EndsAmong(history', e.video, e.cycle) =
            EndsAmong(history, e.video, e.cycle) \cup EndsAmong(events, e.video, e.cycle)
      BY DEF EndsAmong
    <2>4. CASE video[e.video].cycle = e.cycle
      <3>1. EndsAmong(history, e.video, e.cycle) = {}
        BY <2>1, <2>4 DEF HistoryFits, CyclesEnd
      <3>2. \E end \in events : EndsAmong(events, e.video, e.cycle) = {end}
        BY <2>1, <2>4 DEF ClosesCycles
      <3> QED
        BY <2>2, <2>3, <3>1, <3>2
    <2>5. CASE video[e.video].cycle # e.cycle
      <3>1. \E end \in history : EndsAmong(history, e.video, e.cycle) = {end}
        BY <2>1, <2>5 DEF HistoryFits, CyclesEnd
      <3>2. EndsAmong(events, e.video, e.cycle) = {}
        BY <2>5 DEF EndsAmong, ClosesCycles
      <3> QED
        BY <2>2, <2>3, <3>1, <3>2
    <2> QED
      BY <2>4, <2>5
  <1> QED
    BY <1>1, <1>4, <1>5

\* EveryVersionIsOnRecord, video by video.
LEMMA RecordByVideo == EveryVersionIsOnRecord <=> \A v \in Videos : VersionsOnRecord(v)
  <1>1. ASSUME EveryVersionIsOnRecord, NEW v \in Videos PROVE VersionsOnRecord(v)
    <2> DEFINE current == video[v].version
    <2>1. \A kind \in {"submitted", "superseded", "revision_requested"} :
            OnRecord(v, kind) = CASE kind = "submitted" -> 1..current
                    [] kind = "superseded" -> 1..current - 1
                    [] kind = "revision_requested" ->
                         IF video[v].review = "rejected" THEN 1..current ELSE 1..current - 1
      BY <1>1 DEF EveryVersionIsOnRecord, OnRecord
    <2> QED
      BY <2>1 DEF VersionsOnRecord
  <1>2. ASSUME \A v \in Videos : VersionsOnRecord(v),
               NEW v \in Videos, NEW kind \in {"submitted", "superseded", "revision_requested"}
        PROVE  LET versions == { e.version : e \in { h \in history : h.video = v /\ h.kind = kind } }
                   current == video[v].version
               IN versions = CASE kind = "submitted" -> 1..current
                    [] kind = "superseded" -> 1..current - 1
                    [] kind = "revision_requested" ->
                         IF video[v].review = "rejected" THEN 1..current ELSE 1..current - 1
    <2>1. VersionsOnRecord(v)
      BY <1>2
    <2> QED
      BY <2>1 DEF VersionsOnRecord, OnRecord
  <1> QED
    BY <1>1, <1>2 DEF EveryVersionIsOnRecord

\* What a submission leaves of each row but its cycle.
LEMMA LandKeepsRows ==
  ASSUME NEW r, NEW v, NEW rows \in [Slot -> Video], NEW count, NEW evidence,
         Land(r, v, rows, count, evidence), NEW w \in Slot
  PROVE  video'[w].version = rows[w].version /\ video'[w].review = rows[w].review
  <1>1. video' = rows \/ video' = OpenCycle(rows, count)
    BY DEF Land
  <1>2. OpenCycle(rows, count)[w] \in {rows[w], [rows[w] EXCEPT !.cycle = cycles + 1]}
    BY DEF OpenCycle
  <1>3. rows[w] \in Video
    OBVIOUS
  <1>4. /\ [rows[w] EXCEPT !.cycle = cycles + 1].version = rows[w].version
        /\ [rows[w] EXCEPT !.cycle = cycles + 1].review = rows[w].review
    BY <1>3 DEF Video
  <1> QED
    BY <1>1, <1>2, <1>4

\* What a row has on record stays while the row and the record do.
LEMMA RecordStays ==
  ASSUME NEW v \in Slot, VersionsOnRecord(v),
         video'[v].version = video[v].version,
         video'[v].review = "rejected" <=> video[v].review = "rejected",
         \A kind \in {"submitted", "superseded", "revision_requested"} :
           OnRecord(v, kind)' = OnRecord(v, kind)
  PROVE  VersionsOnRecord(v)'
  BY DEF VersionsOnRecord

\* A video that is added begins its record.
LEMMA AddKeepsHistory ==
  ASSUME ReviewInv, HistoryFits, NEW r \in Request, Add(r) PROVE HistoryFits'
  <1>v. PICK v : v = submitted + 1
    OBVIOUS
  <1> DEFINE new == [version |-> 1, url |-> r, review |-> "pending", cycle |-> 0]
             rows == [video EXCEPT ![v] = new]
             event == [video |-> v, version |-> 1, kind |-> "submitted", cycle |-> 0]
  <1>1. Land(r, v, rows, v, {event}) /\ CanDeliver(status) /\ Rejected = {} /\ submitted < VideoCount
    BY <1>v DEF Add
  <1>2. status = "funded"
    <2>1. status # "revision_requested"
      BY <1>1 DEF ReviewInv, RowsFit
    <2> QED
      BY <1>1, <2>1 DEF CanDeliver, CanTransition, LegalTransitions, ReviewInv, TypeOK, Statuses
  <1>3. /\ video \in [Slot -> Video] /\ submitted \in Nat
        /\ v \in Slot /\ v \in 0..VideoCount /\ v \in Nat /\ v \notin Videos
        /\ Videos \subseteq 1..v /\ v \in 1..v /\ 1..v = Videos \cup {v} /\ Videos \subseteq Slot
    BY <1>v, <1>1, VideoCountIsPositive DEF ReviewInv, TypeOK, Slot, Videos
  <1>4. new \in Video /\ new.version = 1 /\ new.review = "pending" /\ new.cycle = 0
    BY DEF Video, ReviewStatus
  <1>5. /\ event.video = v /\ event.version = 1 /\ event.kind = "submitted" /\ event.cycle = 0
    OBVIOUS
  <1>6. /\ rows \in [Slot -> Video] /\ rows[v] = new
        /\ \A w \in Slot : w # v => rows[w] = video[w]
    BY <1>3, <1>4
  <1>s. submitted' = v
    BY <1>1 DEF Land
  <1> HIDE DEF new, rows, event
  <1>7. \A w \in Slot : rows[w].cycle = 0
    <2>1. \A w \in Slot : video[w].cycle = 0
      BY <1>2 DEF HistoryFits, CyclesAreOpen
    <2> QED
      BY <1>4, <1>6, <2>1
  <1>8. \A e \in {event} : e.video = v /\ e.cycle = 0 /\ e.kind \in {"submitted", "superseded"}
    BY <1>5
  <1>9. /\ CyclesAreOpen' /\ EvidenceIsPast' /\ CyclesEnd'
        /\ \A w \in Videos', kind \in {"submitted", "superseded", "revision_requested"} :
             OnRecord(w, kind)' = OnRecord(w, kind) \cup
                                  { e.version : e \in { h \in {event} : h.video = w /\ h.kind = kind } }
    BY <1>1, <1>2, <1>3, <1>6, <1>7, <1>8, AddKeepsInv, LandKeepsCycles
  <1>10. Videos' = Videos \cup {v}
    BY <1>3, <1>s DEF Videos
  <1>11. ASSUME NEW w \in Videos PROVE VersionsOnRecord(w)'
    <2>1. w \in Slot /\ w # v
      BY <1>3
    <2>2. VersionsOnRecord(w)
      BY DEF HistoryFits
    <2>3. ASSUME NEW kind \in {"submitted", "superseded", "revision_requested"}
          PROVE  OnRecord(w, kind)' = OnRecord(w, kind)
      <3>1. { h \in {event} : h.video = w /\ h.kind = kind } = {}
        BY <1>5, <2>1
      <3> QED
        BY <1>9, <1>10, <3>1
    <2>4. video'[w].version = video[w].version /\ video'[w].review = video[w].review
      BY <1>1, <1>6, <2>1, LandKeepsRows
    <2> QED
      BY <2>1, <2>2, <2>3, <2>4, RecordStays
  <1>12. VersionsOnRecord(v)'
    <2>1. \A kind : OnRecord(v, kind) = {}
      BY <1>3 DEF OnRecord, HistoryFits, EvidenceIsPast
    <2>2. /\ OnRecord(v, "submitted")' = {1}
          /\ OnRecord(v, "superseded")' = {} /\ OnRecord(v, "revision_requested")' = {}
      <3>1. /\ { h \in {event} : h.video = v /\ h.kind = "submitted" } = {event}
            /\ { h \in {event} : h.video = v /\ h.kind = "superseded" } = {}
            /\ { h \in {event} : h.video = v /\ h.kind = "revision_requested" } = {}
        BY <1>5
      <3>2. { e.version : e \in {event} } = {1} /\ { e.version : e \in {} } = {}
        BY <1>5
      <3>3. v \in Videos'
        BY <1>10
      <3>4. OnRecord(v, "submitted")' = {1}
        BY <1>9, <2>1, <3>1, <3>2, <3>3
      <3>5. OnRecord(v, "superseded")' = {}
        BY <1>9, <2>1, <3>1, <3>2, <3>3
      <3>6. OnRecord(v, "revision_requested")' = {}
        BY <1>9, <2>1, <3>1, <3>2, <3>3
      <3> QED
        BY <3>4, <3>5, <3>6
    <2>3. video'[v].version = 1 /\ video'[v].review = "pending"
      BY <1>1, <1>3, <1>4, <1>6, LandKeepsRows
    <2>4. 1..1 = {1} /\ 1..(1 - 1) = {}
      OBVIOUS
    <2> QED
      BY <2>2, <2>3, <2>4 DEF VersionsOnRecord
  <1>13. \A w \in Videos' : VersionsOnRecord(w)'
    BY <1>10, <1>11, <1>12
  <1> QED
    BY <1>9, <1>13 DEF HistoryFits

\* A replacement is the next version, after the one that was sent back.
LEMMA ReplaceKeepsHistory ==
  ASSUME ReviewInv, HistoryFits, NEW r \in Request, NEW v \in Slot, Replace(r, v) PROVE HistoryFits'
  <1> DEFINE rows == [video EXCEPT ![v] = Replacement(r, v)]
             current == video[v].version
             old == Evidence(v, "superseded", 0)
             new == [video |-> v, version |-> current + 1, kind |-> "submitted", cycle |-> 0]
  <1>1. /\ v \in Rejected /\ CanDeliver(status)
        /\ Land(r, v, rows, submitted, {old, new})
    BY DEF Replace, ReplacementEvidence, NextVersion
  <1>2. status = "revision_requested" /\ submitted = VideoCount /\ video[v].review = "rejected"
    BY <1>1 DEF CanDeliver, CanTransition, LegalTransitions, ReviewInv, TypeOK, Statuses, RowsFit,
       Rejected
  <1>3. /\ video \in [Slot -> Video] /\ v \in Videos /\ current \in Nat /\ current > 0
        /\ submitted \in 0..VideoCount /\ Videos = Slot /\ Videos = 1..submitted
    BY <1>1, <1>2, SlotsAreVideos DEF ReviewInv, TypeOK, Rejected, Videos, Slot
  <1>4. /\ Replacement(r, v) \in Video /\ Replacement(r, v).version = current + 1
        /\ Replacement(r, v).review = "pending" /\ Replacement(r, v).cycle = 0
    BY <1>3 DEF Replacement, NextVersion, Video, ReviewStatus
  <1>5. /\ old.video = v /\ old.version = current /\ old.kind = "superseded" /\ old.cycle = 0
        /\ new.video = v /\ new.version = current + 1 /\ new.kind = "submitted" /\ new.cycle = 0
    BY DEF Evidence
  <1>6. /\ rows \in [Slot -> Video] /\ rows[v] = Replacement(r, v)
        /\ \A w \in Slot : w # v => rows[w] = video[w]
    BY <1>3, <1>4
  <1>s. submitted' = submitted
    BY <1>1 DEF Land
  <1> HIDE DEF rows, old, new
  <1>7. \A w \in Slot : rows[w].cycle = 0
    <2>1. \A w \in Slot : video[w].cycle = 0
      BY <1>2 DEF HistoryFits, CyclesAreOpen
    <2> QED
      BY <1>4, <1>6, <2>1
  <1>8. \A e \in {old, new} : e.video = v /\ e.cycle = 0 /\ e.kind \in {"submitted", "superseded"}
    BY <1>5
  <1>9. /\ CyclesAreOpen' /\ EvidenceIsPast' /\ CyclesEnd'
        /\ \A w \in Videos', kind \in {"submitted", "superseded", "revision_requested"} :
             OnRecord(w, kind)' = OnRecord(w, kind) \cup
                                  { e.version : e \in { h \in {old, new} : h.video = w /\ h.kind = kind } }
    BY <1>1, <1>2, <1>3, <1>6, <1>7, <1>8, ReplaceKeepsInv, LandKeepsCycles
  <1>10. Videos' = Videos
    BY <1>s DEF Videos
  <1>11. ASSUME NEW w \in Videos, w # v PROVE VersionsOnRecord(w)'
    <2>1. VersionsOnRecord(w)
      BY DEF HistoryFits
    <2>2. ASSUME NEW kind \in {"submitted", "superseded", "revision_requested"}
          PROVE  OnRecord(w, kind)' = OnRecord(w, kind)
      <3>1. { e.version : e \in { h \in {old, new} : h.video = w /\ h.kind = kind } } = {}
        BY <1>5, <1>11
      <3>2. OnRecord(w, kind)' = OnRecord(w, kind) \cup
              { e.version : e \in { h \in {old, new} : h.video = w /\ h.kind = kind } }
        BY <1>9, <1>10, <1>11
      <3> QED
        BY <3>1, <3>2
    <2>3. video'[w].version = video[w].version /\ video'[w].review = video[w].review
      BY <1>1, <1>3, <1>6, <1>11, LandKeepsRows
    <2> QED
      BY <1>3, <2>1, <2>2, <2>3, RecordStays
  <1>12. VersionsOnRecord(v)'
    <2>1. VersionsOnRecord(v)
      BY <1>3 DEF HistoryFits
    <2>2. /\ OnRecord(v, "submitted")' = 1..current \cup {current + 1}
          /\ OnRecord(v, "superseded")' = 1..(current - 1) \cup {current}
          /\ OnRecord(v, "revision_requested")' = 1..current
      <3>1. /\ OnRecord(v, "submitted")' = OnRecord(v, "submitted") \cup {current + 1}
            /\ OnRecord(v, "superseded")' = OnRecord(v, "superseded") \cup {current}
            /\ OnRecord(v, "revision_requested")' = OnRecord(v, "revision_requested")
        <4>1. /\ { h \in {old, new} : h.video = v /\ h.kind = "submitted" } = {new}
              /\ { h \in {old, new} : h.video = v /\ h.kind = "superseded" } = {old}
              /\ { h \in {old, new} : h.video = v /\ h.kind = "revision_requested" } = {}
          BY <1>5
        <4>2. /\ { e.version : e \in {new} } = {current + 1} /\ { e.version : e \in {old} } = {current}
              /\ { e.version : e \in {} } = {}
          BY <1>5
        <4>3. v \in Videos'
          BY <1>3, <1>10
        <4> HIDE DEF current
        <4>4. OnRecord(v, "submitted")' = OnRecord(v, "submitted") \cup {current + 1}
          BY <1>9, <4>1, <4>2, <4>3
        <4>5. OnRecord(v, "superseded")' = OnRecord(v, "superseded") \cup {current}
          BY <1>9, <4>1, <4>2, <4>3
        <4>6. OnRecord(v, "revision_requested")' = OnRecord(v, "revision_requested")
          <5>1. { e.version : e \in { h \in {old, new} : h.video = v /\ h.kind = "revision_requested" } } = {}
            BY <4>1
          <5>2. OnRecord(v, "revision_requested")' = OnRecord(v, "revision_requested") \cup
                  { e.version : e \in { h \in {old, new} : h.video = v /\ h.kind = "revision_requested" } }
            BY <1>9, <4>3
          <5> QED
            BY <5>1, <5>2
        <4> QED
          BY <4>4, <4>5, <4>6
      <3> QED
        BY <1>2, <2>1, <3>1 DEF VersionsOnRecord
    <2>3. video'[v].version = current + 1 /\ video'[v].review = "pending"
      BY <1>1, <1>4, <1>6, LandKeepsRows
    <2>4. /\ 1..current \cup {current + 1} = 1..(current + 1)
          /\ 1..(current - 1) \cup {current} = 1..current
          /\ (current + 1) - 1 = current
      BY <1>3
    <2> HIDE DEF current
    <2> QED
      BY <2>2, <2>3, <2>4 DEF VersionsOnRecord
  <1>13. \A w \in Videos' : VersionsOnRecord(w)'
    BY <1>10, <1>11, <1>12
  <1> QED
    BY <1>9, <1>13 DEF HistoryFits

\* What the decisions say, other than that a video is sent back, is no part of a record.
LEMMA DecisionKeepsRecord ==
  ASSUME HistoryFits, NEW events, history' = history \cup events, UNCHANGED submitted,
         NEW v \in Videos, v \in Slot,
         \A e \in events : e.kind = "revision_requested" => e.video # v,
         \A e \in events : e.kind \notin {"submitted", "superseded"},
         video'[v].version = video[v].version,
         video'[v].review = "rejected" <=> video[v].review = "rejected"
  PROVE  VersionsOnRecord(v)'
  <1>1. VersionsOnRecord(v)
    BY DEF HistoryFits
  <1>2. ASSUME NEW kind \in {"submitted", "superseded", "revision_requested"}
        PROVE  OnRecord(v, kind)' = OnRecord(v, kind)
    <2>1. { h \in history' : h.video = v /\ h.kind = kind } = { h \in history : h.video = v /\ h.kind = kind }
      OBVIOUS
    <2> QED
      BY <2>1 DEF OnRecord
  <1> QED
    BY <1>1, <1>2, RecordStays

\* An approval ends every open cycle.
LEMMA ApproveKeepsHistory ==
  ASSUME ReviewInv, HistoryFits, NEW p \in Page, NEW kind \in {"batch_approved", "admin_release"},
         Approve(p, kind)
  PROVE  HistoryFits'
  <1>1. /\ status = "delivered" /\ status' = "completed" /\ submitted = VideoCount
        /\ Videos = Slot /\ Videos' = Videos /\ UNCHANGED << cycles, submitted >>
        /\ history' = history \cup ApprovalEvidence(kind)
    BY DEF Approve, PayableFrom, ReviewInv, RowsFit, Videos, Slot
  <1>2. ASSUME NEW v \in Slot
        PROVE  /\ video'[v].version = video[v].version /\ video'[v].review = "approved"
               /\ video'[v].cycle = 0 /\ video[v].review # "rejected"
    <2>1. video[v] \in Video /\ v \in Videos
      BY <1>1 DEF ReviewInv, TypeOK
    <2>2. video'[v] = Judged(video[v], "approved")
      BY <2>1 DEF Approve, Judged
    <2>3. video'[v].version = video[v].version /\ video'[v].review = "approved"
      BY <2>1, <2>2, JudgedRow DEF ReviewStatus
    <2>4. Judged(video[v], "approved").cycle = 0
      BY <2>1 DEF Judged, Video
    <2>5. video[v].review # "rejected"
      BY <1>1, <2>1 DEF ReviewInv, RowsFit, Rejected
    <2> QED
      BY <2>2, <2>3, <2>4, <2>5
  <1>3. \A e \in ApprovalEvidence(kind) :
          e.video \in Videos /\ e.kind = kind /\ e.cycle = video[e.video].cycle
    BY DEF ApprovalEvidence, Evidence
  <1>4. ASSUME NEW w \in Videos
        PROVE  \E end \in ApprovalEvidence(kind) :
                 EndsAmong(ApprovalEvidence(kind), w, video[w].cycle) = {end}
    <2> DEFINE end == Evidence(w, kind, video[w].cycle)
    <2>1. end \in ApprovalEvidence(kind) /\ end.video = w /\ end.kind = kind /\ end.cycle = video[w].cycle
      BY DEF ApprovalEvidence, Evidence
    <2>2. \A e \in ApprovalEvidence(kind) : e.video = w => e = end
      BY DEF ApprovalEvidence, Evidence
    <2> HIDE DEF end
    <2> QED
      BY <2>1, <2>2 DEF EndsAmong, Endings
  <1>5. CyclesAreOpen' /\ EvidenceIsPast' /\ CyclesEnd'
    <2> DEFINE events == ApprovalEvidence(kind)
    <2>1. PICK new : new = events
      OBVIOUS
    <2> HIDE DEF events
    <2>2. history' = history \cup new
      BY <1>1, <2>1 DEF events
    <2>3. \A e \in new : e.video \in Videos /\ e.kind = kind /\ e.cycle = video[e.video].cycle
      BY <1>3, <2>1 DEF events
    <2>4. \A w \in Videos : \E end \in new : EndsAmong(new, w, video[w].cycle) = {end}
      BY <1>4, <2>1 DEF events
    <2> QED
      <3>1. ClosesCycles(new)
        BY <2>3, <2>4 DEF ClosesCycles
      <3> QED
        BY <1>1, <1>2, <2>2, <3>1, DecisionClosesCycles
  <1>6. \A v \in Videos' : VersionsOnRecord(v)'
    <2>1. PICK new : new = ApprovalEvidence(kind)
      OBVIOUS
    <2> QED
      BY <1>1, <1>2, <1>3, <2>1, DecisionKeepsRecord
  <1> QED
    BY <1>5, <1>6 DEF HistoryFits

\* Every open cycle but those excepted is interrupted, once.
LEMMA InterruptionsEnd ==
  ASSUME NEW except
  PROVE  /\ \A e \in Interruptions(except) :
              /\ e.video \in Videos /\ e.kind = "review_interrupted"
              /\ e.cycle = video[e.video].cycle /\ e.video \notin except
         /\ \A w \in Videos : video[w].cycle # 0 /\ w \notin except =>
              Evidence(w, "review_interrupted", video[w].cycle) \in Interruptions(except)
         /\ \A e \in Interruptions(except) :
              e = Evidence(e.video, "review_interrupted", video[e.video].cycle)
  BY DEF Interruptions, Evidence

\* A refund interrupts every open cycle.
LEMMA RefundKeepsHistory ==
  ASSUME ReviewInv, HistoryFits, Refund PROVE HistoryFits'
  <1>1. /\ status' = "refunded" /\ Videos' = Videos /\ Videos \subseteq Slot
        /\ UNCHANGED << cycles, submitted >>
    BY SlotsAreVideos DEF Refund, ReviewInv, Videos
  <1>2. ASSUME NEW v \in Slot
        PROVE  /\ video'[v].version = video[v].version /\ video'[v].review = video[v].review
               /\ video'[v].cycle = 0
    <2>1. video[v] \in Video
      BY DEF ReviewInv, TypeOK
    <2>2. video'[v] = [video[v] EXCEPT !.cycle = 0]
      BY DEF Refund
    <2> QED
      BY <2>1, <2>2 DEF Video
  <1>3. PICK new : new = RefundEvidence
    OBVIOUS
  <1>4. history' = history \cup new
    BY <1>3 DEF Refund
  <1>5. \A e \in new : \/ e \in Interruptions({})
                       \/ e.video \in Videos /\ e.kind = "refunded" /\ e.cycle = 0
    BY <1>3 DEF RefundEvidence, Evidence
  <1>6. \A e \in new : /\ e.video \in Videos /\ e.cycle \in {0, video[e.video].cycle}
                       /\ e.kind \in {"review_interrupted", "refunded"}
                       /\ e.kind \in Endings => e.cycle = video[e.video].cycle
    BY <1>5, InterruptionsEnd DEF Endings
  <1>7. ASSUME NEW w \in Videos, video[w].cycle # 0
        PROVE  \E end \in new : EndsAmong(new, w, video[w].cycle) = {end}
    <2>1. PICK end : end = Evidence(w, "review_interrupted", video[w].cycle)
      OBVIOUS
    <2>2. end \in new /\ end.video = w /\ end.cycle = video[w].cycle /\ end.kind = "review_interrupted"
      BY <1>3, <1>7, <2>1, InterruptionsEnd DEF RefundEvidence, Evidence
    <2>3. \A e \in new : e.video = w /\ e.kind \in Endings => e = end
      BY <1>5, <2>1, InterruptionsEnd DEF Endings
    <2> QED
      BY <2>2, <2>3 DEF EndsAmong, Endings
  <1>8. CyclesAreOpen' /\ EvidenceIsPast' /\ CyclesEnd'
    <2>1. ClosesCycles(new)
      BY <1>6, <1>7 DEF ClosesCycles
    <2> QED
      BY <1>1, <1>2, <1>4, <2>1, DecisionClosesCycles
  <1>9. \A v \in Videos' : VersionsOnRecord(v)'
    BY <1>1, <1>2, <1>4, <1>6, DecisionKeepsRecord
  <1> QED
    BY <1>8, <1>9 DEF HistoryFits

\* A rejection ends the cycle of the video sent back, and interrupts all the others.
LEMMA RejectKeepsHistory ==
  ASSUME ReviewInv, HistoryFits, NEW p \in Page, NEW v \in Slot, Reject(p, v) PROVE HistoryFits'
  <1>1. /\ status = "delivered" /\ status' = "revision_requested" /\ v \in Videos
        /\ submitted = VideoCount /\ Videos = Slot /\ Videos' = Videos
        /\ UNCHANGED << cycles, submitted >>
    BY DEF Reject, MayReject, CanReview, CanTransition, LegalTransitions, ReviewInv, TypeOK,
           RowsFit, Statuses, Videos, Slot
  <1>2. ASSUME NEW w \in Slot
        PROVE  /\ video'[w].version = video[w].version /\ video'[w].cycle = 0
               /\ video'[w].review = (IF w = v THEN "rejected" ELSE video[w].review)
               /\ video[w].review # "rejected" /\ video[w].version \in Nat \ {0}
    <2>1. video[w] \in Video /\ w \in Videos
      BY <1>1 DEF ReviewInv, TypeOK
    <2> DEFINE verdict == IF w = v THEN "rejected" ELSE video[w].review
    <2>2. video'[w] = Judged(video[w], verdict) /\ verdict \in ReviewStatus
      BY <2>1 DEF Reject, Judged, Video, ReviewStatus
    <2> HIDE DEF verdict
    <2>3. video'[w].version = video[w].version /\ video'[w].review = verdict
      BY <2>1, <2>2, JudgedRow
    <2>4. Judged(video[w], verdict).cycle = 0
      BY <2>1 DEF Judged, Video
    <2>5. video[w].review # "rejected"
      BY <1>1, <2>1 DEF ReviewInv, RowsFit, Rejected
    <2>6. video[w].version \in Nat \ {0}
      BY <2>1, SlotsAreVideos DEF ReviewInv
    <2> QED
      BY <2>2, <2>3, <2>4, <2>5, <2>6 DEF verdict
  <1>3. PICK back : back = Evidence(v, "revision_requested", video[v].cycle)
    OBVIOUS
  <1>4. /\ back.video = v /\ back.kind = "revision_requested" /\ back.cycle = video[v].cycle
        /\ back.version = video[v].version
    BY <1>3 DEF Evidence
  <1>5. PICK new : new = RejectionEvidence(v)
    OBVIOUS
  <1>6. history' = history \cup new
    BY <1>5 DEF Reject
  <1>7. back \in new /\ \A e \in new : e \in Interruptions({v}) \/ e = back
    BY <1>3, <1>5 DEF RejectionEvidence
  <1>8. \A e \in new : /\ e.video \in Videos /\ e.cycle = video[e.video].cycle
                       /\ e.kind \in {"review_interrupted", "revision_requested"}
                       /\ e.video = v => e = back
                       /\ e.kind = "revision_requested" => e.video = v
    BY <1>1, <1>4, <1>7, InterruptionsEnd
  <1>9. ASSUME NEW w \in Videos, video[w].cycle # 0
        PROVE  \E end \in new : EndsAmong(new, w, video[w].cycle) = {end}
    <2>1. CASE w = v
      BY <1>4, <1>7, <1>8, <2>1 DEF EndsAmong, Endings
    <2>2. CASE w # v
      <3>1. PICK end : end = Evidence(w, "review_interrupted", video[w].cycle)
        OBVIOUS
      <3>2. end \in new /\ end.video = w /\ end.cycle = video[w].cycle /\ end.kind = "review_interrupted"
        BY <1>5, <1>9, <2>2, <3>1, InterruptionsEnd DEF RejectionEvidence, Evidence
      <3>3. \A e \in new : e.video = w => e = end
        BY <1>4, <1>7, <2>2, <3>1, InterruptionsEnd
      <3> QED
        BY <3>2, <3>3 DEF EndsAmong, Endings
    <2> QED
      BY <2>1, <2>2
  <1>10. CyclesAreOpen' /\ EvidenceIsPast' /\ CyclesEnd'
    <2>1. ClosesCycles(new)
      BY <1>8, <1>9 DEF ClosesCycles
    <2> QED
      BY <1>1, <1>2, <1>6, <2>1, DecisionClosesCycles
  <1>11. ASSUME NEW w \in Videos', w # v PROVE VersionsOnRecord(w)'
    BY <1>1, <1>2, <1>6, <1>8, <1>11, DecisionKeepsRecord
  <1>12. VersionsOnRecord(v)'
    <2>1. PICK current : current = video[v].version
      OBVIOUS
    <2>2. VersionsOnRecord(v)
      BY <1>1 DEF HistoryFits
    <2>3. /\ OnRecord(v, "submitted") = 1..current /\ OnRecord(v, "superseded") = 1..(current - 1)
          /\ OnRecord(v, "revision_requested") = 1..(current - 1)
      BY <1>2, <2>1, <2>2 DEF VersionsOnRecord
    <2>4. ASSUME NEW kind \in {"submitted", "superseded"} PROVE OnRecord(v, kind)' = OnRecord(v, kind)
      <3>1. { h \in history' : h.video = v /\ h.kind = kind } = { h \in history : h.video = v /\ h.kind = kind }
        BY <1>6, <1>8
      <3> QED
        BY <3>1 DEF OnRecord
    <2>5. OnRecord(v, "revision_requested")' = OnRecord(v, "revision_requested") \cup {current}
      <3>1. { h \in history' : h.video = v /\ h.kind = "revision_requested" } =
              { h \in history : h.video = v /\ h.kind = "revision_requested" } \cup {back}
        BY <1>4, <1>6, <1>7, <1>8
      <3> QED
        BY <1>4, <2>1, <3>1 DEF OnRecord
    <2>6. 1..(current - 1) \cup {current} = 1..current
      BY <1>2, <2>1
    <2>7. video'[v].version = current /\ video'[v].review = "rejected"
      BY <1>2, <2>1
    <2> QED
      BY <2>3, <2>4, <2>5, <2>6, <2>7 DEF VersionsOnRecord
  <1> QED
    BY <1>10, <1>11, <1>12 DEF HistoryFits

LEMMA SpecHistory == Spec => []HistoryFits
  <1>1. Init => HistoryFits
    <2> SUFFICES ASSUME Init PROVE HistoryFits
      OBVIOUS
    <2>1. Videos = {} /\ history = {} /\ status = "funded" /\ \A v \in Slot : video[v].cycle = 0
      BY DEF Init, Videos, NoVideo
    <2> QED
      BY <2>1 DEF HistoryFits, CyclesAreOpen, EvidenceIsPast, CyclesEnd
  <1>2. ReviewInv /\ HistoryFits /\ [Next]_vars => HistoryFits'
    <2> SUFFICES ASSUME ReviewInv, HistoryFits, [Next]_vars PROVE HistoryFits'
      OBVIOUS
    <2>1. CASE UNCHANGED << status, submitted, cycles, history, video >>
      BY <2>1 DEF HistoryFits, CyclesAreOpen, EvidenceIsPast, CyclesEnd, VersionsOnRecord,
         OnRecord, Videos, EndsAmong
    <2>2. ASSUME NEW r \in Request, Add(r) PROVE HistoryFits'
      BY <2>2, AddKeepsHistory
    <2>3. ASSUME NEW r \in Request, NEW v \in Slot, Replace(r, v) PROVE HistoryFits'
      BY <2>3, ReplaceKeepsHistory
    <2>4. ASSUME NEW p \in Page, NEW kind \in {"batch_approved", "admin_release"}, Approve(p, kind)
          PROVE  HistoryFits'
      BY <2>4, ApproveKeepsHistory
    <2>5. ASSUME NEW p \in Page, NEW v \in Slot, Reject(p, v) PROVE HistoryFits'
      BY <2>5, RejectKeepsHistory
    <2>6. CASE Refund
      BY <2>6, RefundKeepsHistory
    <2> QED
      BY <2>1, <2>2, <2>3, <2>4, <2>5, <2>6 DEF Next, FillForm, Replay, OpenPage, RecordMetrics, vars
  <1> QED
    BY SpecInv, <1>1, <1>2, PTL DEF Spec

\* The evidence tells the whole life of every video, and every cycle ends in one way, for any
\* number of videos, forms and pages and whatever order they arrive in.
THEOREM HistoryIsWhole == Spec => []EvidenceTellsTheHistory
  <1>1. HistoryFits => EvidenceTellsTheHistory
    <2> SUFFICES ASSUME HistoryFits PROVE CyclesEndOnce
      BY RecordByVideo DEF EvidenceTellsTheHistory, HistoryFits
    <2> SUFFICES ASSUME NEW ready \in history, ready.kind = "review_ready"
                 PROVE  Cardinality(EndsAmong(history, ready.video, ready.cycle))
                          = IF video[ready.video].cycle = ready.cycle THEN 0 ELSE 1
      BY DEF CyclesEndOnce, EndsAmong
    <2>1. IF video[ready.video].cycle = ready.cycle
          THEN EndsAmong(history, ready.video, ready.cycle) = {}
          ELSE \E end \in history : EndsAmong(history, ready.video, ready.cycle) = {end}
      BY DEF HistoryFits, CyclesEnd
    <2> QED
      BY <2>1, FS_EmptySet, FS_Singleton
  <1> QED
    BY SpecHistory, <1>1, PTL

----------------------------------------------------------------------------
\* What the evidence leaves room for

\* An approval or a refund on record is the end of the deal, and every video of a delivered
\* deal is on record as ready for the review that is open.
EndsAreFinal ==
  /\ \A e \in history : /\ e.kind \in {"batch_approved", "admin_release"} => status = "completed"
                        /\ e.kind = "refunded" => status = "refunded"
  /\ status = "delivered" => \A v \in Slot :
       \E e \in history : e.kind = "review_ready" /\ e.video = v /\ e.cycle = cycles

\* No unique index of the evidence stands in the way of what a page offers: whatever is
\* sent on time, from a deal in whatever history, writes rows that fit.
RulesNeverRefuse ==
  /\ status = "delivered" =>
       /\ \A kind \in {"batch_approved", "admin_release"} : Fits(ApprovalEvidence(kind))
       /\ \A v \in Videos : Fits(RejectionEvidence(v))
  /\ status \in RefundableFrom => Fits(RefundEvidence)
  /\ \A v \in Rejected, rows \in [Slot -> Video] : CanDeliver(status) =>
       Fits(ReplacementEvidence(v) \cup CycleEvidence(rows, submitted))
  /\ \A v \in Slot \ Videos, rows \in [Slot -> Video] :
       Fits({ [video |-> v, version |-> 1, kind |-> "submitted", cycle |-> 0] }
              \cup CycleEvidence(rows, v))

LEMMA LandEndsNothing ==
  ASSUME ReviewInv, EndsAreFinal, CanDeliver(status), NEW r \in Request, NEW v \in Slot,
         NEW rows \in [Slot -> Video], NEW count, NEW evidence,
         \A e \in evidence : e.kind \in {"submitted", "superseded"},
         Land(r, v, rows, count, evidence)
  PROVE  EndsAreFinal'
  <1> DEFINE complete == count = VideoCount
             events == evidence \cup (IF complete THEN CycleEvidence(rows, count) ELSE {})
  <1>1. /\ history' = history \cup events
        /\ cycles' = IF complete THEN cycles + 1 ELSE cycles
        /\ status' = IF complete THEN "delivered" ELSE status
    BY DEF Land
  <1>2. status \in {"funded", "revision_requested"}
    BY DEF CanDeliver, CanTransition, LegalTransitions, ReviewInv, TypeOK, Statuses
  <1>3. \A e \in events : e.kind \in {"submitted", "superseded", "review_ready"}
    BY DEF CycleEvidence
  <1>4. \A e \in history : e.kind \notin {"batch_approved", "admin_release", "refunded"}
    BY <1>2 DEF EndsAreFinal
  <1>5. ASSUME complete, NEW w \in Slot
        PROVE  \E e \in history' : e.kind = "review_ready" /\ e.video = w /\ e.cycle = cycles'
    <2>1. w \in 1..count
      BY <1>5 DEF Slot
    <2> DEFINE ready == [video |-> w, version |-> rows[w].version, kind |-> "review_ready",
                         cycle |-> cycles + 1]
    <2>2. ready \in CycleEvidence(rows, count)
      BY <2>1 DEF CycleEvidence
    <2>3. ready.kind = "review_ready" /\ ready.video = w /\ ready.cycle = cycles + 1
      OBVIOUS
    <2> HIDE DEF ready
    <2> QED
      BY <1>1, <1>5, <2>2, <2>3
  <1> HIDE DEF complete, events
  <1>6. \A e \in history' : e.kind \notin {"batch_approved", "admin_release", "refunded"}
    BY <1>1, <1>3, <1>4
  <1>7. status' = "delivered" => complete
    BY <1>1, <1>2
  <1> QED
    BY <1>5, <1>6, <1>7 DEF EndsAreFinal

LEMMA NextKeepsEnds ==
  ASSUME ReviewInv, EndsAreFinal, [Next]_vars PROVE EndsAreFinal'
  <1>1. /\ TypeOK /\ video \in [Slot -> Video] /\ submitted \in 0..VideoCount /\ status \in Statuses
    BY DEF ReviewInv, TypeOK
  <1>2. ASSUME NEW r \in Request, Add(r) PROVE EndsAreFinal'
    <2>v. PICK v : v = submitted + 1
      OBVIOUS
    <2> DEFINE new == [version |-> 1, url |-> r, review |-> "pending", cycle |-> 0]
               rows == [video EXCEPT ![v] = new]
               evidence == { [video |-> v, version |-> 1, kind |-> "submitted", cycle |-> 0] }
    <2>1. Land(r, v, rows, v, evidence) /\ submitted < VideoCount /\ CanDeliver(status)
      BY <2>v, <1>2 DEF Add
    <2>2. v \in Slot /\ new \in Video
      BY <2>v, <2>1, <1>1, VideoCountIsPositive DEF Slot, Video, ReviewStatus
    <2>3. rows \in [Slot -> Video]
      BY <1>1, <2>2
    <2>4. \A e \in evidence : e.kind \in {"submitted", "superseded"}
      OBVIOUS
    <2> HIDE DEF new, rows, evidence
    <2> QED
      BY <2>1, <2>2, <2>3, <2>4, LandEndsNothing
  <1>3. ASSUME NEW r \in Request, NEW v \in Slot, Replace(r, v) PROVE EndsAreFinal'
    <2> DEFINE rows == [video EXCEPT ![v] = Replacement(r, v)]
    <2>1. Land(r, v, rows, submitted, ReplacementEvidence(v)) /\ CanDeliver(status)
      BY <1>3 DEF Replace
    <2>2. Replacement(r, v) \in Video
      BY <1>1 DEF Replacement, NextVersion, Video, ReviewStatus
    <2>3. rows \in [Slot -> Video]
      BY <1>1, <2>2
    <2>4. \A e \in ReplacementEvidence(v) : e.kind \in {"submitted", "superseded"}
      BY DEF ReplacementEvidence, Evidence
    <2> HIDE DEF rows
    <2> QED
      BY <2>1, <2>3, <2>4, LandEndsNothing
  <1>4. ASSUME NEW p \in Page, NEW kind \in {"batch_approved", "admin_release"}, Approve(p, kind)
        PROVE  EndsAreFinal'
    <2>1. /\ status = "delivered" /\ status' = "completed"
          /\ history' = history \cup ApprovalEvidence(kind)
      BY <1>4 DEF Approve, PayableFrom
    <2>2. \A e \in ApprovalEvidence(kind) : e.kind = kind
      BY DEF ApprovalEvidence, Evidence
    <2> QED
      BY <2>1, <2>2 DEF EndsAreFinal
  <1>5. ASSUME NEW p \in Page, NEW v \in Slot, Reject(p, v) PROVE EndsAreFinal'
    <2>1. /\ CanReview(status) /\ status' = "revision_requested"
          /\ history' = history \cup RejectionEvidence(v)
      BY <1>5 DEF Reject, MayReject
    <2>2. status = "delivered"
      BY <2>1 DEF CanReview, CanTransition, LegalTransitions
    <2>3. \A e \in RejectionEvidence(v) : e.kind \in {"review_interrupted", "revision_requested"}
      BY DEF RejectionEvidence, Interruptions, Evidence
    <2> QED
      BY <2>1, <2>2, <2>3 DEF EndsAreFinal
  <1>6. CASE Refund
    <2>1. status \in RefundableFrom /\ status' = "refunded" /\ history' = history \cup RefundEvidence
      BY <1>6 DEF Refund
    <2>2. \A e \in RefundEvidence : e.kind \in {"review_interrupted", "refunded"}
      BY DEF RefundEvidence, Interruptions, Evidence
    <2> QED
      BY <2>1, <2>2 DEF EndsAreFinal, RefundableFrom
  <1>7. CASE UNCHANGED << status, history, cycles >>
    BY <1>7 DEF EndsAreFinal
  <1> QED
    BY <1>2, <1>3, <1>4, <1>5, <1>6, <1>7 DEF Next, FillForm, Replay, OpenPage, RecordMetrics, vars

\* What is on record of an open review, and of the versions up to the current one, leaves
\* room for the next step.
LEMMA RoomForMore ==
  ASSUME ReviewInv, HistoryFits, EndsAreFinal, NEW h \in history
  PROVE  /\ h.video \in Videos /\ h.cycle \in Nat /\ h.cycle <= cycles /\ h.version \in Nat
         /\ status = "delivered" /\ h.kind \in Endings => h.cycle # cycles
         /\ h.kind = "submitted" => h.version <= video[h.video].version
         /\ h.kind = "superseded" => h.version < video[h.video].version
         /\ h.kind = "revision_requested" /\ video[h.video].review # "rejected" =>
              h.version < video[h.video].version
  <1>1. /\ h.video \in Videos /\ h.cycle \in Nat /\ h.cycle <= cycles /\ h.version \in Nat
        /\ h.video \in Slot /\ video[h.video] \in Video
    BY DEF HistoryFits, EvidenceIsPast, ReviewInv, TypeOK, Event
  <1>2. ASSUME status = "delivered", h.kind \in Endings, h.cycle = cycles PROVE FALSE
    <2>1. PICK e \in history : e.kind = "review_ready" /\ e.video = h.video /\ e.cycle = cycles
      BY <1>1, <1>2 DEF EndsAreFinal
    <2>2. video[e.video].cycle = e.cycle
      BY <1>1, <1>2, <2>1 DEF HistoryFits, CyclesAreOpen
    <2>3. EndsAmong(history, h.video, cycles) = {}
      BY <2>1, <2>2 DEF HistoryFits, CyclesEnd
    <2> QED
      BY <1>2, <2>3 DEF EndsAmong
  <1>3. h.version \in OnRecord(h.video, h.kind)
    BY DEF OnRecord
  <1>4. VersionsOnRecord(h.video) /\ video[h.video].version \in Nat
    BY <1>1 DEF HistoryFits, Video
  <1>5. h.kind = "submitted" => h.version <= video[h.video].version
    BY <1>1, <1>3, <1>4 DEF VersionsOnRecord
  <1>6. h.kind = "superseded" => h.version < video[h.video].version
    BY <1>1, <1>3, <1>4 DEF VersionsOnRecord
  <1>7. h.kind = "revision_requested" /\ video[h.video].review # "rejected" =>
          h.version < video[h.video].version
    BY <1>1, <1>3, <1>4 DEF VersionsOnRecord
  <1> QED
    BY <1>1, <1>2, <1>5, <1>6, <1>7

\* A review that is newly opened clashes with none on record.
LEMMA NewReviewFits ==
  ASSUME ReviewInv, HistoryFits, EndsAreFinal, NEW rows, NEW count
  PROVE  Fits(CycleEvidence(rows, count))
  <1> SUFFICES ASSUME NEW v \in 1..count, NEW h \in history
               PROVE  ~Clash([video |-> v, version |-> rows[v].version, kind |-> "review_ready",
                              cycle |-> cycles + 1], h)
    BY DEF Fits, CycleEvidence
  <1>1. h.cycle \in Nat /\ h.cycle <= cycles /\ cycles \in Nat
    BY RoomForMore DEF ReviewInv, TypeOK
  <1>2. cycles + 1 # h.cycle
    BY <1>1
  <1> QED
    BY <1>2 DEF Clash

\* The reviews a decision interrupts are open, so nothing on record has ended them.
LEMMA InterruptionsFit ==
  ASSUME ReviewInv, HistoryFits, EndsAreFinal, NEW except
  PROVE  Fits(Interruptions(except))
  <1> SUFFICES ASSUME NEW v \in Videos, video[v].cycle # 0, NEW h \in history
               PROVE  ~Clash(Evidence(v, "review_interrupted", video[v].cycle), h)
    BY DEF Fits, Interruptions
  <1>1. v \in Slot
    BY SlotsAreVideos, VideoCountIsPositive DEF ReviewInv, TypeOK, Videos, Slot
  <1>2. status = "delivered" /\ video[v].cycle = cycles
    BY <1>1 DEF HistoryFits, CyclesAreOpen
  <1>3. h.kind = "review_interrupted" => h.cycle # cycles
    BY <1>2, RoomForMore DEF Endings
  <1> QED
    BY <1>2, <1>3 DEF Clash, Evidence

LEMMA NothingRefuses ==
  ASSUME ReviewInv, HistoryFits, EndsAreFinal PROVE RulesNeverRefuse
  <1>1. ASSUME status = "delivered", NEW kind \in {"batch_approved", "admin_release"}
        PROVE  Fits(ApprovalEvidence(kind))
    BY <1>1 DEF Fits, ApprovalEvidence, Evidence, Clash, EndsAreFinal
  <1>2. ASSUME status = "delivered", NEW v \in Videos PROVE Fits(RejectionEvidence(v))
    <2>1. v \in Slot
      BY VideoCountIsPositive DEF ReviewInv, TypeOK, Videos, Slot
    <2>2. video[v].cycle = cycles
      BY <1>2, <2>1 DEF HistoryFits, CyclesAreOpen
    <2>3. video[v].review # "rejected"
      BY <1>2 DEF ReviewInv, RowsFit, Rejected
    <2>4. \A h \in history : ~Clash(Evidence(v, "revision_requested", video[v].cycle), h)
      <3> SUFFICES ASSUME NEW h \in history, h.video = v, h.kind = "revision_requested"
                   PROVE  h.version # video[v].version /\ h.cycle # cycles
        BY <2>2 DEF Clash, Evidence
      <3>1. h.cycle # cycles
        BY <1>2, RoomForMore DEF Endings
      <3>2. h.version \in Nat /\ video[v].version \in Nat /\ h.version < video[v].version
        BY <2>1, <2>3, RoomForMore, SlotsAreVideos DEF ReviewInv, TypeOK, Video
      <3> QED
        BY <3>1, <3>2
    <2> QED
      BY <2>4, InterruptionsFit DEF Fits, RejectionEvidence
  <1>3. ASSUME status \in RefundableFrom PROVE Fits(RefundEvidence)
    <2>1. ASSUME NEW v \in Videos, NEW h \in history PROVE ~Clash(Evidence(v, "refunded", 0), h)
      BY <1>3 DEF Clash, Evidence, EndsAreFinal, RefundableFrom
    <2> QED
      BY <2>1, InterruptionsFit DEF Fits, RefundEvidence
  <1>4. ASSUME NEW v \in Rejected, NEW rows
        PROVE  Fits(ReplacementEvidence(v) \cup CycleEvidence(rows, submitted))
    <2>1. v \in Videos /\ v \in Slot /\ video[v].version \in Nat
      BY VideoCountIsPositive DEF Rejected, ReviewInv, TypeOK, Videos, Slot, Video
    <2>2. ASSUME NEW h \in history, h.video = v
          PROVE  /\ h.kind = "superseded" => h.version # video[v].version
                 /\ h.kind = "submitted" => h.version # video[v].version + 1
      BY <2>1, <2>2, RoomForMore
    <2>3. Fits(ReplacementEvidence(v))
      BY <2>1, <2>2 DEF Fits, ReplacementEvidence, Evidence, NextVersion, Clash
    <2> QED
      BY <2>3, NewReviewFits DEF Fits
  <1>5. ASSUME NEW v \in Slot \ Videos, NEW rows
        PROVE  Fits({ [video |-> v, version |-> 1, kind |-> "submitted", cycle |-> 0] }
                      \cup CycleEvidence(rows, v))
    <2>1. \A h \in history : h.video # v
      BY RoomForMore
    <2> QED
      BY <2>1, NewReviewFits DEF Fits, Clash
  <1> QED
    BY <1>1, <1>2, <1>3, <1>4, <1>5 DEF RulesNeverRefuse

\* What the pages offer is never refused by the evidence that is already there, for any number
\* of videos, forms and pages: what FreshPagesWork says of the unique indexes of
\* deliverable_event, without ENABLED.
THEOREM EvidenceNeverRefuses == Spec => []RulesNeverRefuse
  <1>1. Init => EndsAreFinal
    BY DEF Init, EndsAreFinal
  <1>2. ReviewInv /\ EndsAreFinal /\ [Next]_vars => EndsAreFinal'
    BY NextKeepsEnds
  <1>3. ReviewInv /\ HistoryFits /\ EndsAreFinal => RulesNeverRefuse
    BY NothingRefuses
  <1> QED
    BY SpecInv, SpecHistory, <1>1, <1>2, <1>3, PTL DEF Spec

----------------------------------------------------------------------------
\* What the screens show

\* A row with a version has its link, and so has a row's figure.
LinksAreThere ==
  \A v \in Slot : /\ video[v].version # 0 => video[v].url # NoUrl
                  /\ metric[v].version # 0 => metric[v].url # NoUrl

\* The statuses the deal has been through
Past == { walk[i] : i \in DOMAIN walk }

\* What the status events tell of the cycles and of the status.
WalkFits ==
  /\ walk \in Seq(DealStatus)
  /\ {"funded", status} \subseteq Past
  /\ Past \subseteq Statuses \cup {"pending", "accepted"}
  /\ "completed" \in Past => status = "completed" /\ cycles > 0
  /\ "delivered" \in Past <=> cycles > 0
  /\ "revision_requested" \in Past => cycles > 0
  /\ status = "funded" => cycles = 0

PagesInv == ReviewInv /\ LinksAreThere /\ WalkFits

\* A submission adds a link to the row it writes, and no other loses its own.
LEMMA LandKeepsLinks ==
  ASSUME TypeOK, NEW r \in Request, NEW v \in Slot, NEW rows \in [Slot -> Video], NEW count, NEW evidence,
         Land(r, v, rows, count, evidence)
  PROVE  \A w \in Slot : video'[w].version = rows[w].version /\ video'[w].url = rows[w].url
  <1> SUFFICES ASSUME NEW w \in Slot
               PROVE  video'[w].version = rows[w].version /\ video'[w].url = rows[w].url
    OBVIOUS
  <1>1. rows[w] \in Video
    OBVIOUS
  <1>2. video' = IF count = VideoCount THEN OpenCycle(rows, count) ELSE rows
    BY DEF Land
  <1>3. OpenCycle(rows, count)[w] = IF w <= count THEN [rows[w] EXCEPT !.cycle = cycles + 1] ELSE rows[w]
    BY DEF OpenCycle
  <1>4. /\ [rows[w] EXCEPT !.cycle = cycles + 1].version = rows[w].version
        /\ [rows[w] EXCEPT !.cycle = cycles + 1].url = rows[w].url
    BY <1>1 DEF Video
  <1> QED
    BY <1>2, <1>3, <1>4

LEMMA NextKeepsLinks ==
  ASSUME ReviewInv, LinksAreThere, [Next]_vars
  PROVE  LinksAreThere'
  <1>1. /\ TypeOK /\ video \in [Slot -> Video] /\ metric \in [Slot -> Seen] /\ submitted \in 0..VideoCount
        /\ page \in [Page -> [Slot -> Seen]]
    BY DEF ReviewInv, TypeOK
  <1>2. \A v \in Slot : video[v] \in Video /\ metric[v] \in Seen
    BY <1>1
  <1>3. ASSUME NEW r \in Request, Add(r) PROVE LinksAreThere'
    <2>v. PICK v : v = submitted + 1
      OBVIOUS
    <2> DEFINE new == [version |-> 1, url |-> r, review |-> "pending", cycle |-> 0]
               rows == [video EXCEPT ![v] = new]
               evidence == { [video |-> v, version |-> 1, kind |-> "submitted", cycle |-> 0] }
    <2>1. Land(r, v, rows, v, evidence) /\ metric' = metric /\ submitted < VideoCount
      BY <2>v, <1>3 DEF Add
    <2>2. v \in Slot /\ new \in Video /\ new.url = r
      BY <2>v, <2>1, <1>1, VideoCountIsPositive DEF Slot, Video, ReviewStatus
    <2>3. /\ rows \in [Slot -> Video] /\ rows[v] = new
          /\ \A w \in Slot : w # v => rows[w] = video[w]
      BY <1>1, <2>2
    <2> HIDE DEF new, rows, evidence
    <2>4. \A w \in Slot : video'[w].version = rows[w].version /\ video'[w].url = rows[w].url
      BY <1>1, <2>1, <2>2, <2>3, LandKeepsLinks
    <2> QED
      BY <2>1, <2>2, <2>3, <2>4, NoUrlIsNoRequest DEF LinksAreThere
  <1>4. ASSUME NEW r \in Request, NEW v \in Slot, Replace(r, v) PROVE LinksAreThere'
    <2> DEFINE rows == [video EXCEPT ![v] = Replacement(r, v)]
    <2>1. Land(r, v, rows, submitted, ReplacementEvidence(v)) /\ metric' = DropMetric(v)
      BY <1>4 DEF Replace
    <2>2. Replacement(r, v) \in Video /\ Replacement(r, v).url = r
      BY <1>2 DEF Replacement, NextVersion, Video, ReviewStatus
    <2>3. /\ rows \in [Slot -> Video] /\ rows[v] = Replacement(r, v)
          /\ \A w \in Slot : w # v => rows[w] = video[w]
      BY <1>1, <2>2
    <2> HIDE DEF rows
    <2>4. \A w \in Slot : video'[w].version = rows[w].version /\ video'[w].url = rows[w].url
      BY <1>1, <2>1, <2>3, LandKeepsLinks
    <2>5. metric'[v].version = 0 /\ \A w \in Slot : w # v => metric'[w] = metric[w]
      BY <1>1, <2>1 DEF DropMetric
    <2> QED
      BY <2>2, <2>3, <2>4, <2>5, NoUrlIsNoRequest DEF LinksAreThere
  <1>5. ASSUME NEW p \in Page, NEW v \in Slot, RecordMetrics(p, v) PROVE LinksAreThere'
    <2>1. /\ page[p][v].version = video[v].version /\ metric' = [metric EXCEPT ![v] = page[p][v]]
          /\ video' = video
      BY <1>5 DEF RecordMetrics
    <2>2. page[p][v].url = video[v].url
      BY <2>1 DEF ReviewInv, PagesArePast
    <2>3. metric'[v] = page[p][v] /\ \A w \in Slot : w # v => metric'[w] = metric[w]
      BY <1>1, <2>1
    <2> QED
      BY <2>1, <2>2, <2>3 DEF LinksAreThere
  <1>6. ASSUME metric' = metric,
               \A w \in Slot : video'[w].version = video[w].version /\ video'[w].url = video[w].url
        PROVE  LinksAreThere'
    BY <1>6 DEF LinksAreThere
  <1>7. ASSUME NEW p \in Page, NEW kind \in {"batch_approved", "admin_release"}, Approve(p, kind)
        PROVE  LinksAreThere'
    <2>1. /\ metric' = metric
          /\ video' = [v \in Slot |-> IF v \in Videos
               THEN [video[v] EXCEPT !.cycle = 0, !.review = "approved"] ELSE video[v]]
      BY <1>7 DEF Approve
    <2>2. \A w \in Slot : video'[w].version = video[w].version /\ video'[w].url = video[w].url
      BY <1>2, <2>1 DEF Video
    <2> QED
      BY <2>1, <2>2, <1>6
  <1>8. ASSUME NEW p \in Page, NEW v \in Slot, Reject(p, v) PROVE LinksAreThere'
    <2>1. /\ metric' = metric
          /\ video' = [w \in Slot |-> [video[w] EXCEPT
                         !.cycle = 0, !.review = IF w = v THEN "rejected" ELSE @]]
      BY <1>8 DEF Reject
    <2>2. \A w \in Slot : video'[w].version = video[w].version /\ video'[w].url = video[w].url
      BY <1>2, <2>1 DEF Video
    <2> QED
      BY <2>1, <2>2, <1>6
  <1>9. CASE Refund
    <2>1. metric' = metric /\ video' = [v \in Slot |-> [video[v] EXCEPT !.cycle = 0]]
      BY <1>9 DEF Refund
    <2>2. \A w \in Slot : video'[w].version = video[w].version /\ video'[w].url = video[w].url
      BY <1>2, <2>1 DEF Video
    <2> QED
      BY <2>1, <2>2, <1>6
  <1>10. CASE UNCHANGED << video, metric >>
    BY <1>10, <1>6
  <1> QED
    BY <1>3, <1>4, <1>5, <1>7, <1>8, <1>9, <1>10 DEF Next, FillForm, Replay, OpenPage, vars

\* The four ways the status and the cycles move together.
StatusMoves ==
  \/ status' = status /\ cycles' = cycles
  \/ CanDeliver(status) /\ status' = "delivered" /\ cycles' = cycles + 1
  \/ status = "delivered" /\ status' \in {"completed", "revision_requested"} /\ cycles' = cycles
  \/ status \in RefundableFrom /\ status' = "refunded" /\ cycles' = cycles

LEMMA StatusWalks == [Next]_vars => StatusMoves
  <1> SUFFICES ASSUME [Next]_vars PROVE StatusMoves
    OBVIOUS
  <1>1. ASSUME NEW r \in Request, Add(r) PROVE StatusMoves
    BY <1>1 DEF Add, Land, StatusMoves
  <1>2. ASSUME NEW r \in Request, NEW v \in Slot, Replace(r, v) PROVE StatusMoves
    BY <1>2 DEF Replace, Land, StatusMoves
  <1>3. ASSUME NEW p \in Page, NEW kind \in {"batch_approved", "admin_release"}, Approve(p, kind)
        PROVE  StatusMoves
    BY <1>3 DEF Approve, PayableFrom, StatusMoves
  <1>4. ASSUME NEW p \in Page, NEW v \in Slot, Reject(p, v) PROVE StatusMoves
    <2>1. status' = "revision_requested" /\ cycles' = cycles /\ CanTransition(status, "completed")
      BY <1>4 DEF Reject, MayReject, CanReview
    <2>2. status = "delivered"
      BY <2>1 DEF CanTransition, LegalTransitions
    <2> QED
      BY <2>1, <2>2 DEF StatusMoves
  <1>5. CASE Refund
    BY <1>5 DEF Refund, StatusMoves
  <1> QED
    BY <1>1, <1>2, <1>3, <1>4, <1>5
    DEF Next, FillForm, Replay, OpenPage, RecordMetrics, vars, StatusMoves

\* A status the walk comes to becomes one of its past.
LEMMA PastGrows ==
  ASSUME ReviewInv', walk \in Seq(DealStatus), status \in Past,
         walk' = IF status' = status THEN walk ELSE Append(walk, status')
  PROVE  walk' \in Seq(DealStatus) /\ Past' = Past \cup {status'}
  <1>1. CASE status' = status
    BY <1>1 DEF Past
  <1>2. CASE status' # status
    <2>1. /\ walk' = Append(walk, status') /\ status' \in DealStatus /\ Len(walk) \in Nat
      BY <1>2 DEF ReviewInv, TypeOK, Statuses, DealStatus
    <2>2. /\ walk' \in Seq(DealStatus) /\ DOMAIN walk = 1..Len(walk) /\ DOMAIN walk' = 1..(Len(walk) + 1)
          /\ walk'[Len(walk) + 1] = status' /\ \A i \in 1..Len(walk) : walk'[i] = walk[i]
      BY <2>1
    <2>3. 1..(Len(walk) + 1) = 1..Len(walk) \cup {Len(walk) + 1}
      BY <2>1
    <2> QED
      BY <2>2, <2>3 DEF Past
  <1> QED
    BY <1>1, <1>2

LEMMA RecordKeepsWalk ==
  ASSUME ReviewInv, ReviewInv', WalkFits, StatusMoves, walk' = IF status' = status THEN walk ELSE Append(walk, status')
  PROVE  WalkFits'
  <1>1. status \in Statuses /\ status' \in Statuses /\ Statuses \subseteq DealStatus /\ cycles \in Nat
    BY DEF ReviewInv, TypeOK, Statuses, DealStatus
  <1>2. walk' \in Seq(DealStatus) /\ Past' = Past \cup {status'}
    BY PastGrows DEF WalkFits
  <1>3. CASE status' = status /\ cycles' = cycles
    BY <1>1, <1>2, <1>3 DEF WalkFits
  <1>4. CASE CanDeliver(status) /\ status' = "delivered" /\ cycles' = cycles + 1
    <2>1. status \in {"funded", "revision_requested"}
      BY <1>1, <1>4 DEF CanDeliver, CanTransition, LegalTransitions, Statuses
    <2> QED
      BY <1>1, <1>2, <1>4, <2>1 DEF WalkFits
  <1>5. CASE status = "delivered" /\ status' \in {"completed", "revision_requested"} /\ cycles' = cycles
    BY <1>1, <1>2, <1>5 DEF WalkFits
  <1>6. CASE status \in RefundableFrom /\ status' = "refunded" /\ cycles' = cycles
    BY <1>1, <1>2, <1>6 DEF WalkFits, RefundableFrom
  <1> QED
    BY <1>3, <1>4, <1>5, <1>6 DEF StatusMoves

\* How far the rail shows a deal: to its completion, its delivery, or its funding.
LEMMA HighestIs ==
  ASSUME ReviewInv, WalkFits
  PROVE  HighestReached = IF status = "completed" THEN 4 ELSE IF cycles > 0 THEN 3 ELSE 2
  <1> DEFINE steps == (Past \cup {status}) \ OffPath
             rungs == { StepIndex(s) : s \in steps }
  <1>1. HighestReached = Max(rungs)
    BY DEF HighestReached, Past
  <1>2. /\ StepIndex("pending") = 0 /\ StepIndex("accepted") = 1 /\ StepIndex("funded") = 2
        /\ StepIndex("delivered") = 3 /\ StepIndex("revision_requested") = 3
        /\ StepIndex("completed") = 4
    BY DEF StepIndex
  <1>3. /\ steps \subseteq { "pending", "accepted", "funded", "delivered", "revision_requested",
                             "completed" }
        /\ "funded" \in steps
        /\ "completed" \in steps <=> status = "completed"
        /\ "delivered" \in steps <=> cycles > 0
        /\ "revision_requested" \in steps => cycles > 0
    BY DEF WalkFits, OffPath, Statuses, ReviewInv, TypeOK
  <1> DEFINE top == IF status = "completed" THEN 4 ELSE IF cycles > 0 THEN 3 ELSE 2
  <1>4. top \in rungs
    <2>1. CASE status = "completed"
      BY <1>2, <1>3, <2>1
    <2>2. CASE status # "completed" /\ cycles > 0
      BY <1>2, <1>3, <2>2
    <2>3. CASE status # "completed" /\ ~(cycles > 0)
      BY <1>2, <1>3, <2>3
    <2> QED
      BY <2>1, <2>2, <2>3
  <1>5. \A x \in rungs : x \in Nat /\ x <= top
    <2> SUFFICES ASSUME NEW s \in steps PROVE StepIndex(s) \in Nat /\ StepIndex(s) <= top
      OBVIOUS
    <2> QED
      BY <1>2, <1>3
  <1> HIDE DEF rungs, top
  <1>6. Max(rungs) \in rungs /\ \A x \in rungs : Max(rungs) >= x
    <2>1. \E x \in rungs : \A y \in rungs : x >= y
      BY <1>4, <1>5
    <2> QED
      BY <2>1 DEF Max
  <1>7. Max(rungs) = top
    <2>1. PICK m : m = Max(rungs)
      OBVIOUS
    <2>2. m \in Nat /\ m <= top /\ m >= top /\ top \in Nat
      BY <1>4, <1>5, <1>6, <2>1
    <2> QED
      BY <2>1, <2>2
  <1> QED
    BY <1>1, <1>7 DEF top

\* How many videos stand, at each status.
LEMMA StandingIs ==
  ASSUME ReviewInv
  PROVE  /\ submitted \in 0..VideoCount /\ StandingVideoCount \in Nat
         /\ status = "funded" => StandingVideoCount = submitted /\ submitted < VideoCount /\ Rejected = {}
         /\ status \in {"delivered", "completed"} => StandingVideoCount = VideoCount /\ Rejected = {}
         /\ status = "revision_requested" =>
              /\ Rejected # {} /\ StandingVideoCount < VideoCount /\ submitted > 0
  <1>1. /\ submitted \in 0..VideoCount /\ submitted \in Nat /\ VideoCount \in Nat /\ VideoCount > 0
        /\ status \in Statuses
    BY VideoCountIsPositive DEF ReviewInv, TypeOK
  <1>2. IsFiniteSet(Videos) /\ Cardinality(Videos) = submitted
    <2>1. PICK n \in Nat : n = submitted
      BY <1>1
    <2>2. IsFiniteSet(1..n) /\ Cardinality(1..n) = IF 1 > n THEN 0 ELSE n - 1 + 1
      BY FS_Interval
    <2>3. (IF 1 > n THEN 0 ELSE n - 1 + 1) = n
      OBVIOUS
    <2> QED
      BY <2>1, <2>2, <2>3 DEF Videos
  <1>3. Rejected = {} => StandingVideoCount = submitted
    <2>1. Rejected = {} => Videos \ Rejected = Videos
      OBVIOUS
    <2> QED
      BY <1>2, <2>1 DEF StandingVideoCount
  <1>4. StandingVideoCount \in Nat
    <2>1. Videos \ Rejected \in SUBSET Videos
      OBVIOUS
    <2>2. IsFiniteSet(Videos \ Rejected)
      BY <1>2, <2>1, FS_Subset
    <2> QED
      BY <2>2, FS_CardinalityType DEF StandingVideoCount
  <1>5. ASSUME NEW v \in Slot, Rejected = {v}
        PROVE  StandingVideoCount < submitted
    <2>1. v \in Videos /\ Videos \ Rejected = Videos \ {v}
      BY <1>5 DEF Rejected
    <2>2. Cardinality(Videos \ {v}) = Cardinality(Videos) - 1
      BY <1>2, <2>1, FS_RemoveElement
    <2>3. StandingVideoCount = submitted - 1
      BY <1>2, <2>1, <2>2 DEF StandingVideoCount
    <2> QED
      BY <1>1, <2>3
  <1>6. status = "revision_requested" => \E v \in Slot : Rejected = {v}
    BY DEF ReviewInv, RowsFit
  <1>7. status \in {"delivered", "revision_requested", "completed"} => submitted = VideoCount
    BY DEF ReviewInv, RowsFit
  <1>8. status = "funded" => submitted < VideoCount
    BY DEF ReviewInv, RowsFit
  <1>9. status \in {"funded", "delivered", "completed"} => Rejected = {}
    BY DEF ReviewInv, RowsFit
  <1> QED
    BY <1>1, <1>3, <1>4, <1>5, <1>6, <1>7, <1>8, <1>9

\* Who must act, status by status, as the table of transitions and each screen have it.
LEMMA TurnsByStatus ==
  ASSUME status \in Statuses
  PROVE  /\ CanDeliver(status) <=> status \in {"funded", "revision_requested"}
         /\ CanReview(status) <=> status = "delivered"
         /\ CreatorRung = CASE status \in {"funded", "revision_requested"} -> "creator"
                            [] status = "delivered" -> "brand"
                            [] status \in {"completed", "refunded"} -> "nobody"
         /\ DealCue = CreatorRung
         /\ OnDashboard <=> FundsHeldShown
         /\ AwaitingReview <=> status = "delivered"
  <1>1. /\ CanDeliver(status) <=> status \in {"funded", "revision_requested"}
        /\ CanReview(status) <=> status = "delivered"
    BY DEF CanDeliver, CanReview, CanTransition, LegalTransitions, Statuses
  <1>2. /\ GroupForStatus("funded") = "in_progress"
        /\ GroupForStatus("revision_requested") = "in_progress"
        /\ GroupForStatus("delivered") = "awaiting_approval"
        /\ GroupForStatus("completed") = "completed"
        /\ GroupForStatus("refunded") = "closed"
    BY DEF GroupForStatus
  <1>3. CASE status = "funded"
    BY <1>1, <1>2, <1>3 DEF CreatorRung, DealCue, ReadyToDeliver, NeedsRevision, OnDashboard, FundsHeldShown,
       IsMoneyHeld, RefundableFrom, AwaitingReview
  <1>4. CASE status = "revision_requested"
    BY <1>1, <1>2, <1>4 DEF CreatorRung, DealCue, ReadyToDeliver, NeedsRevision, OnDashboard, FundsHeldShown,
       IsMoneyHeld, RefundableFrom, AwaitingReview
  <1>5. CASE status = "delivered"
    BY <1>1, <1>2, <1>5 DEF CreatorRung, DealCue, ReadyToDeliver, NeedsRevision, OnDashboard, FundsHeldShown,
       IsMoneyHeld, RefundableFrom, AwaitingReview
  <1>6. CASE status = "completed"
    BY <1>1, <1>2, <1>6 DEF CreatorRung, DealCue, ReadyToDeliver, NeedsRevision, OnDashboard, FundsHeldShown,
       IsMoneyHeld, RefundableFrom, AwaitingReview
  <1>7. CASE status = "refunded"
    BY <1>1, <1>2, <1>7 DEF CreatorRung, DealCue, ReadyToDeliver, NeedsRevision, OnDashboard, FundsHeldShown,
       IsMoneyHeld, RefundableFrom, AwaitingReview
  <1> QED
    BY <1>3, <1>4, <1>5, <1>6, <1>7 DEF Statuses

\* A list of measured videos is the same whether it is joined by version or not.
LEMMA MeasuredAlike ==
  ASSUME PagesInv PROVE MeasuredByVideo = MeasuredByVersion
  <1> SUFFICES ASSUME NEW v \in Videos
               PROVE  metric[v].version # 0 <=> metric[v].version = video[v].version
    BY DEF MeasuredByVideo, MeasuredByVersion
  <1>1. v \in Slot /\ video[v].version > 0 /\ video[v].version \in Nat
    BY SlotsAreVideos, VideoCountIsPositive DEF PagesInv, ReviewInv, TypeOK, Videos, Slot
  <1>2. metric[v].version # 0 => metric[v].url # NoUrl
    BY <1>1 DEF PagesInv, LinksAreThere
  <1>3. metric[v].url # NoUrl => metric[v] = [version |-> video[v].version, url |-> video[v].url]
    BY <1>1 DEF PagesInv, ReviewInv, MetricsAreOfTheCurrentVideo
  <1> QED
    BY <1>1, <1>2, <1>3

\* The rail ends where the deal stands.
LEMMA RailAgrees ==
  ASSUME PagesInv
  PROVE  /\ DealProgress[3] \in {"done", "current"} <=> cycles > 0
         /\ DealProgress[4] = IF status = "completed" THEN "current"
                              ELSE IF status = "refunded" /\ cycles > 0 THEN "blocked" ELSE "upcoming"
  <1> DEFINE top == IF status = "completed" THEN 4 ELSE IF cycles > 0 THEN 3 ELSE 2
             Shows(i) == CASE status \in OffPath /\ i <= top     -> "done"
                           [] status \in OffPath /\ i = top + 1  -> "blocked"
                           [] status \notin OffPath /\ i < top   -> "done"
                           [] status \notin OffPath /\ i = top   -> "current"
                           [] OTHER                              -> "upcoming"
  <1>1. status \in Statuses /\ cycles \in Nat /\ (status = "funded" => cycles = 0)
        /\ (status \in {"delivered", "revision_requested", "completed"} => cycles > 0)
    BY DEF PagesInv, ReviewInv, TypeOK, WalkFits, Statuses
  <1>2. DealProgress[3] = Shows(3) /\ DealProgress[4] = Shows(4)
    <2>1. HighestReached = top
      BY HighestIs DEF PagesInv
    <2> HIDE DEF top
    <2> QED
      BY <2>1 DEF DealProgress
  <1>3. CASE status = "completed"
    BY <1>1, <1>2, <1>3 DEF OffPath
  <1>4. CASE status \in {"delivered", "revision_requested"}
    BY <1>1, <1>2, <1>4 DEF OffPath
  <1>5. CASE status = "funded"
    BY <1>1, <1>2, <1>5 DEF OffPath
  <1>6. CASE status = "refunded" /\ cycles > 0
    BY <1>1, <1>2, <1>6 DEF OffPath
  <1>7. CASE status = "refunded" /\ ~(cycles > 0)
    BY <1>1, <1>2, <1>7 DEF OffPath
  <1> QED
    BY <1>1, <1>3, <1>4, <1>5, <1>6, <1>7 DEF Statuses

LEMMA PagesAgree == PagesInv => ScreensAgree
  <1> SUFFICES ASSUME PagesInv PROVE ScreensAgree
    OBVIOUS
  <1>1. ReviewInv /\ status \in Statuses /\ VideoCount \in Nat /\ VideoCount > 0
    BY VideoCountIsPositive DEF PagesInv, ReviewInv, TypeOK
  <1>2. /\ CreatorPage.forms # {} <=> status \in {"funded", "revision_requested"}
        /\ CreatorPage.full = ProgressIsFull /\ CreatorPage.sentence = FormSentence
        /\ BrandPage.approve <=> status = "delivered"
        /\ BrandPage.full = ProgressIsFull /\ BrandPage.absence = ReviewAbsence
    BY <1>1, TurnsByStatus DEF CreatorPage, BrandPage
  <1>3. /\ CreatorRung = "creator" <=> status \in {"funded", "revision_requested"}
        /\ CreatorRung = "brand" <=> status = "delivered"
    BY <1>1, TurnsByStatus DEF Statuses
  <1>4. AwaitingReview = BrandPage.approve
    <2>1. BrandPage.approve = CanReview(status)
      BY DEF BrandPage
    <2>2. CanReview(status) = (status = "delivered")
      BY <1>1 DEF CanReview, CanTransition, LegalTransitions, Statuses
    <2> QED
      BY <2>1, <2>2 DEF AwaitingReview
  <1>5. OnDashboard = FundsHeldShown
    BY <1>1, TurnsByStatus DEF OnDashboard, FundsHeldShown, IsMoneyHeld
  <1>6. ASSUME status = "funded", submitted > 0
        PROVE  /\ ReviewAbsence = "creator" /\ ~ProgressIsFull /\ FormSentence # "none"
    <2>1. ~CanReview(status)
      BY <1>1, <1>6, TurnsByStatus
    <2>2. StandingVideoCount = submitted /\ submitted < VideoCount /\ submitted \in Nat /\ Rejected = {}
      BY <1>1, <1>6, StandingIs
    <2>3. StandingVideoCount \in 1..VideoCount - 1
      BY <1>1, <1>6, <2>2
    <2>4. ReviewAbsence = "creator"
      BY <1>6, <2>1, <2>2 DEF ReviewAbsence
    <2> QED
      BY <2>2, <2>3, <2>4 DEF ProgressIsFull, FormSentence
  <1>7. ASSUME status = "revision_requested"
        PROVE  ReviewAbsence = "creator" /\ ~ProgressIsFull /\ FormSentence = "replace"
    <2>1. ~CanReview(status)
      BY <1>1, <1>7, TurnsByStatus
    <2>2. StandingVideoCount < VideoCount /\ StandingVideoCount \in Nat /\ Rejected # {} /\ submitted > 0
      BY <1>1, <1>7, StandingIs
    <2>3. ReviewAbsence = "creator"
      BY <1>7, <2>1, <2>2 DEF ReviewAbsence
    <2> QED
      BY <1>1, <2>2, <2>3 DEF ProgressIsFull, FormSentence
  <1>8. ASSUME status \in {"delivered", "completed"}
        PROVE  ProgressIsFull /\ ReviewAbsence # "creator"
    <2>1. StandingVideoCount = VideoCount /\ submitted \in Nat
      BY <1>1, <1>8, StandingIs
    <2>2. ReviewAbsence \in {"none", "nobody"}
      BY <1>1, <1>8, <2>1 DEF ReviewAbsence
    <2> QED
      BY <2>1, <2>2 DEF ProgressIsFull
  <1>9. CreatorPage.forms # {} => (FormSentence = "replace" <=> NeedsRevision)
    <2>1. CASE status = "funded"
      <3>1. Rejected = {}
        BY <1>1, <2>1, StandingIs
      <3> QED
        BY <2>1, <3>1 DEF FormSentence, NeedsRevision
    <2> QED
      BY <1>2, <1>7, <2>1 DEF NeedsRevision
  <1>10. /\ CreatorPage.forms # {} /\ submitted > 0 =>
              BrandPage.absence = "creator" /\ ~CreatorPage.full /\ CreatorPage.sentence # "none"
    BY <1>2, <1>6, <1>7
  <1>11. CreatorPage.forms = {} /\ IsOrdered => BrandPage.full /\ BrandPage.absence # "creator"
    BY <1>2, <1>8 DEF IsOrdered
  <1>12. DealCue = CreatorRung
    BY <1>1, TurnsByStatus
  <1> QED
    BY <1>2, <1>3, <1>4, <1>5, <1>9, <1>10, <1>11, <1>12, MeasuredAlike, RailAgrees DEF ScreensAgree

LEMMA PagesInvInit == HistoryInit => PagesInv
  <1> SUFFICES ASSUME HistoryInit PROVE PagesInv
    OBVIOUS
  <1>1. Init /\ walk = << "pending", "accepted", "funded" >>
    BY DEF HistoryInit
  <1>2. /\ walk \in Seq(DealStatus) /\ DOMAIN walk = 1..3
        /\ walk[1] = "pending" /\ walk[2] = "accepted" /\ walk[3] = "funded"
    BY <1>1 DEF DealStatus
  <1>3. 1..3 = {1, 2, 3}
    OBVIOUS
  <1>4. Past = {"pending", "accepted", "funded"}
    BY <1>2, <1>3 DEF Past
  <1>5. WalkFits
    BY <1>1, <1>2, <1>4 DEF WalkFits, Init, Statuses
  <1>6. LinksAreThere
    BY <1>1 DEF LinksAreThere, Init, NoVideo
  <1> QED
    BY <1>1, <1>5, <1>6, InitInv DEF PagesInv

LEMMA HistoryKeepsPages ==
  ASSUME ReviewInv, ReviewInv', WalkFits, [HistoryNext]_historyVars
  PROVE  WalkFits' /\ (LinksAreThere => LinksAreThere')
  <1>1. [Next]_vars
    BY DEF HistoryNext, historyVars
  <1>2. walk' = IF status' = status THEN walk ELSE Append(walk, status')
    BY DEF HistoryNext, historyVars, Record, vars
  <1> QED
    BY <1>1, <1>2, NextKeepsLinks, StatusWalks, RecordKeepsWalk

LEMMA HistoryIsReview == HistorySpec => Spec
  <1>1. HistoryInit => Init
    BY DEF HistoryInit
  <1>2. [HistoryNext]_historyVars => [Next]_vars
    BY DEF HistoryNext, historyVars
  <1> QED
    BY <1>1, <1>2, PTL DEF HistorySpec, Spec

\* The two parties' pages, their lists, their dashboards and the rail name the same party and
\* contradict each other nowhere (dashboard.ts, progress.ts, groups.ts, the pages of a deal),
\* for any number of videos, forms and pages and whatever happened to the deal.
THEOREM EveryScreenAgrees == HistorySpec => []ScreensAgree
  <1>1. ReviewInv /\ ReviewInv' /\ LinksAreThere /\ WalkFits /\ [HistoryNext]_historyVars
          => LinksAreThere' /\ WalkFits'
    BY HistoryKeepsPages
  <1> QED
    BY <1>1, PagesInvInit, HistoryIsReview, SpecInv, PagesAgree, PTL DEF HistorySpec, PagesInv

----------------------------------------------------------------------------
\* What the report makes of the evidence

\* The trail is the evidence, each row once.
TrailTells ==
  /\ trail \in Seq(Event)
  /\ \A i \in Rows : trail[i] \in history
  /\ \A e \in history : \E i \in Rows : trail[i] = e
  /\ \A i, j \in Rows : trail[i] = trail[j] => i = j

\* The order of the trail: reviews open one after the other, each before what ends it; a
\* decision comes before the interruptions it causes; a change request comes before the
\* versions that answer it, and is the last word on the version that waits for one.
ReviewsInTurn ==
  \A i, j \in Rows :
    trail[i].kind = "review_ready" /\ trail[j].kind = "review_ready" /\ i < j =>
      trail[i].cycle <= trail[j].cycle

ReviewsComeFirst ==
  \A i, j \in Rows :
    trail[i].kind = "review_ready" /\ trail[j].kind \in Endings
      /\ trail[i].cycle = trail[j].cycle => i < j

DecisionsComeFirst ==
  \A i, j \in Rows :
    trail[i].kind \in Decisions /\ trail[j].kind = "review_interrupted"
      /\ trail[i].cycle = trail[j].cycle => i < j

ChangesComeFirst ==
  \A i, j \in Rows :
    trail[i].kind = "revision_requested" /\ trail[j].kind = "submitted"
      /\ trail[i].video = trail[j].video /\ trail[i].version < trail[j].version => i < j

ChangesAreLast ==
  \A i, j \in Rows :
    trail[i].kind = "revision_requested" /\ trail[j].kind \in Decisions
      /\ trail[i].video = trail[j].video
      /\ trail[i].version = video[trail[i].video].version => j <= i

\* Of a cycle c that came to an end, whether a decision or only a refund ended it.
WasDecided(c) ==
  c < cycles \/ status \in {"revision_requested", "completed"} \/ Rejected # {}

\* Every cycle has begun, and those that are over ended as the rows tell.
CyclesAreTold ==
  \A c \in 1..cycles :
    /\ \E e \in history : e.kind = "review_ready" /\ e.cycle = c
    /\ WasDecided(c) => \E e \in history : e.kind \in Decisions /\ e.cycle = c
    /\ ~WasDecided(c) /\ status = "refunded" =>
         /\ \E e \in history : e.kind = "review_interrupted" /\ e.cycle = c
         /\ \A e \in history : e.kind \in Decisions => e.cycle # c

\* Each version is sent back once, what ends a cycle names one, and a deal that was sent
\* back has a change request on record.
ChangesAreTold ==
  /\ \A e, h \in history :
       e.kind = "revision_requested" /\ h.kind = "revision_requested"
         /\ e.video = h.video /\ e.version = h.version => e = h
  /\ \A e \in history : /\ e.version <= video[e.video].version
                        /\ e.kind \in Endings => e.cycle > 0
  /\ "revision_requested" \in Past => \E e \in history : e.kind = "revision_requested"

ReportInv ==
  /\ TrailTells
  /\ ReviewsInTurn /\ ReviewsComeFirst /\ DecisionsComeFirst
  /\ ChangesComeFirst /\ ChangesAreLast
  /\ CyclesAreTold
  /\ ChangesAreTold

----------------------------------------------------------------------------
\* Rows in order

\* The rows can be told apart by when they are written.
AreApart(S) ==
  /\ S \subseteq Event
  /\ \A e, f \in S : e # f => WrittenBefore(e, f) \/ WrittenBefore(f, e)

\* rows lists S in the order of WrittenBefore.
Lists(rows, S) ==
  /\ rows \in [1..Cardinality(S) -> S]
  /\ \A i, j \in 1..Cardinality(S) : i < j => WrittenBefore(rows[i], rows[j])

LEMMA RankIsNumber ==
  ASSUME NEW kind \in Kind PROVE KindRank(kind) \in 1..6
  BY DEF Kind, KindRank

\* WrittenBefore is a strict order.
LEMMA WrittenInOrder ==
  ASSUME NEW e \in Event, NEW f \in Event, NEW g \in Event
  PROVE  /\ ~WrittenBefore(e, e)
         /\ WrittenBefore(e, f) /\ WrittenBefore(f, g) => WrittenBefore(e, g)
         /\ WrittenBefore(e, f) => ~WrittenBefore(f, e)
  <1>1. /\ KindRank(e.kind) \in 1..6 /\ KindRank(f.kind) \in 1..6 /\ KindRank(g.kind) \in 1..6
        /\ e.video \in Nat /\ f.video \in Nat /\ g.video \in Nat
    BY RankIsNumber DEF Event, Slot
  <1> QED
    BY <1>1 DEF WrittenBefore

\* Of rows that are apart one is written last.
LEMMA LastWritten ==
  ASSUME NEW S, IsFiniteSet(S), AreApart(S), S # {}
  PROVE  \E x \in S : \A y \in S : y # x => WrittenBefore(y, x)
  <1> DEFINE HasLast(s) == \E x \in s : \A y \in s : y # x => WrittenBefore(y, x)
             B == { s \in SUBSET S : s # {} /\ ~HasLast(s) }
  <1>1. \A s \in B : IsFiniteSet(s)
    BY FS_Subset
  <1>2. ASSUME NEW s \in B PROVE \E x \in s : s \ {x} \in B
    <2>1. s # {} /\ s \subseteq S /\ ~HasLast(s)
      OBVIOUS
    <2>2. PICK x \in s : TRUE
      BY <2>1
    <2>3. s \ {x} # {}
      BY <2>1, <2>2
    <2>4. ASSUME HasLast(s \ {x}) PROVE FALSE
      <3>1. PICK y \in s \ {x} : \A z \in s \ {x} : z # y => WrittenBefore(z, y)
        BY <2>4
      <3>2. x \in Event /\ y \in Event /\ \A z \in s : z \in Event
        BY <2>1, <2>2, <3>1 DEF AreApart
      <3>3. WrittenBefore(x, y) \/ WrittenBefore(y, x)
        BY <2>1, <2>2, <3>1 DEF AreApart
      <3>4. CASE WrittenBefore(x, y)
        BY <2>1, <3>1, <3>4
      <3>5. CASE WrittenBefore(y, x)
        <4>1. ASSUME NEW z \in s, z # x PROVE WrittenBefore(z, x)
          BY <3>1, <3>2, <3>5, <4>1, WrittenInOrder
        <4> QED
          BY <2>1, <2>2, <4>1
      <3> QED
        BY <3>3, <3>4, <3>5
    <2> QED
      BY <2>1, <2>2, <2>3, <2>4
  <1>3. B = {}
    <2> HIDE DEF B
    <2> QED
      BY <1>1, <1>2, NoSmallest
  <1> QED
    BY <1>3

\* A list is continued by a row that is written later than all of it.
LEMMA ListContinues ==
  ASSUME NEW S, IsFiniteSet(S), NEW x \in S, NEW rows, Lists(rows, S \ {x}),
         \A y \in S : y # x => WrittenBefore(y, x)
  PROVE  \E more : Lists(more, S)
  <1> PICK n : n = Cardinality(S)
    OBVIOUS
  <1>1. n \in Nat \ {0} /\ Cardinality(S \ {x}) = n - 1
    BY FS_RemoveElement, FS_CardinalityType, FS_EmptySet
  <1> DEFINE more == [i \in 1..n |-> IF i = n THEN x ELSE rows[i]]
  <1>2. /\ rows \in [1..(n - 1) -> S \ {x}]
        /\ \A i, j \in 1..(n - 1) : i < j => WrittenBefore(rows[i], rows[j])
    BY <1>1 DEF Lists
  <1>3. \A i \in 1..n : i # n => i \in 1..(n - 1)
    BY <1>1
  <1>4. more \in [1..n -> S]
    BY <1>2, <1>3
  <1>5. ASSUME NEW i \in 1..n, NEW j \in 1..n, i < j PROVE WrittenBefore(more[i], more[j])
    <2>1. i # n /\ i \in 1..(n - 1) /\ more[i] = rows[i] /\ rows[i] \in S \ {x}
      BY <1>1, <1>2, <1>3, <1>5
    <2>2. CASE j = n
      BY <2>1, <2>2
    <2>3. CASE j # n
      BY <1>2, <1>3, <1>5, <2>1, <2>3
    <2> QED
      BY <2>2, <2>3
  <1> HIDE DEF more
  <1> QED
    BY <1>4, <1>5 DEF Lists

\* Rows that are apart can be listed.
LEMMA ListsExist ==
  ASSUME NEW S, IsFiniteSet(S), AreApart(S)
  PROVE  \E rows : Lists(rows, S)
  <1> DEFINE B == { s \in SUBSET S : ~\E rows : Lists(rows, s) }
  <1>1. \A s \in B : IsFiniteSet(s)
    BY FS_Subset
  <1>2. ASSUME NEW s \in B PROVE \E x \in s : s \ {x} \in B
    <2>1. s \subseteq S /\ IsFiniteSet(s) /\ AreApart(s) /\ ~\E rows : Lists(rows, s)
      BY <1>1 DEF AreApart
    <2>2. ASSUME s = {} PROVE FALSE
      <3>1. Cardinality(s) = 0
        BY <2>2, FS_EmptySet
      <3>2. [i \in 1..0 |-> 0] \in [1..0 -> s]
        BY <2>2
      <3>3. Lists([i \in 1..0 |-> 0], s)
        BY <3>1, <3>2 DEF Lists
      <3> QED
        BY <2>1, <3>3
    <2>3. PICK x \in s : \A y \in s : y # x => WrittenBefore(y, x)
      BY <2>1, <2>2, LastWritten
    <2>4. ~\E rows : Lists(rows, s \ {x})
      BY <2>1, <2>3, ListContinues
    <2> QED
      BY <2>1, <2>3, <2>4
  <1>3. B = {}
    <2> HIDE DEF B
    <2> QED
      BY <1>1, <1>2, NoSmallest
  <1> QED
    BY <1>3

\* rows are those of S, each once, those written earlier first.
IsListOf(rows, S) ==
  /\ rows \in Seq(Event)
  /\ \A i \in 1..Len(rows) : rows[i] \in S
  /\ \A e \in S : \E i \in 1..Len(rows) : rows[i] = e
  /\ \A i, j \in 1..Len(rows) : rows[i] = rows[j] => i = j
  /\ \A i, j \in 1..Len(rows) : WrittenBefore(rows[i], rows[j]) => i < j

LEMMA InOrderLists ==
  ASSUME NEW S, IsFiniteSet(S), AreApart(S), NEW rows, rows = InOrder(S)
  PROVE  IsListOf(rows, S)
  <1> PICK n : n = Cardinality(S)
    OBVIOUS
  <1>1. n \in Nat
    BY FS_CardinalityType
  <1>2. rows = CHOOSE r \in [1..n -> S] : \A i, j \in DOMAIN r : i < j => WrittenBefore(r[i], r[j])
    BY Zenon DEF InOrder
  <1>3. \E r \in [1..n -> S] : \A i, j \in DOMAIN r : i < j => WrittenBefore(r[i], r[j])
    BY ListsExist DEF Lists
  <1>4. /\ rows \in [1..n -> S]
        /\ \A i, j \in 1..n : i < j => WrittenBefore(rows[i], rows[j])
    BY <1>2, <1>3
  <1>5. ASSUME NEW i \in 1..n, NEW j \in 1..n
        PROVE  /\ rows[i] = rows[j] => i = j
               /\ WrittenBefore(rows[i], rows[j]) => i < j
    <2>1. rows[i] \in Event /\ rows[j] \in Event
      BY <1>4 DEF AreApart
    <2>2. ~WrittenBefore(rows[i], rows[i])
      BY <2>1, WrittenInOrder
    <2>3. WrittenBefore(rows[i], rows[j]) => ~WrittenBefore(rows[j], rows[i])
      BY <2>1, WrittenInOrder
    <2> QED
      BY <1>1, <1>4, <2>2, <2>3
  <1>6. rows \in Surjection(1..n, S)
    <2>1. rows \in Injection(1..n, S)
      BY <1>4, <1>5 DEF Injection, IsInjective
    <2>2. Cardinality(1..n) = n
      BY <1>1, FS_Interval
    <2> QED
      BY <2>1, <2>2, FS_Injection
  <1>7. \A e \in S : \E i \in 1..n : rows[i] = e
    BY <1>6 DEF Surjection
  <1>8. rows \in Seq(Event) /\ Len(rows) = n
    <2>1. rows \in [1..n -> Event]
      BY <1>4 DEF AreApart
    <2> QED
      BY <1>1, <2>1
  <1> QED
    BY <1>1, <1>4, <1>5, <1>7, <1>8 DEF IsListOf

\* What appending rows to a trail does to its places.
IsAppended(old, new, rows) ==
  /\ Len(old) \in Nat /\ Len(rows) \in Nat
  /\ DOMAIN old = 1..Len(old) /\ DOMAIN new = 1..(Len(old) + Len(rows))
  /\ \A i \in 1..Len(old) : new[i] = old[i]
  /\ \A i \in 1..Len(rows) : new[Len(old) + i] = rows[i]
  /\ \A i \in DOMAIN new \ DOMAIN old :
       i > Len(old) /\ i - Len(old) \in 1..Len(rows) /\ new[i] = rows[i - Len(old)]

LEMMA Joined ==
  ASSUME NEW S, NEW s, NEW t, NEW u, s \in Seq(S), t \in Seq(S), u = s \o t
  PROVE  u \in Seq(S) /\ IsAppended(s, u, t)
  <1>1. /\ u \in Seq(S) /\ Len(s) \in Nat /\ Len(t) \in Nat
        /\ DOMAIN s = 1..Len(s) /\ DOMAIN u = 1..(Len(s) + Len(t))
    OBVIOUS
  <1>2. \A i \in 1..Len(s) : u[i] = s[i]
    BY <1>1
  <1>3. ASSUME NEW i \in 1..Len(t) PROVE u[Len(s) + i] = t[i]
    BY <1>1
  <1>4. ASSUME NEW i \in DOMAIN u \ DOMAIN s
        PROVE  i > Len(s) /\ i - Len(s) \in 1..Len(t) /\ u[i] = t[i - Len(s)]
    <2>1. i > Len(s) /\ i - Len(s) \in 1..Len(t) /\ Len(s) + (i - Len(s)) = i
      BY <1>1
    <2> QED
      BY <1>3, <2>1
  <1> QED
    BY <1>1, <1>2, <1>3, <1>4 DEF IsAppended

\* The rows of a step come after those that were there, in the order they are written.
Follows(old, new, N) ==
  /\ DOMAIN old \subseteq DOMAIN new /\ DOMAIN new \subseteq Nat
  /\ \A i \in DOMAIN old : new[i] = old[i]
  /\ \A i \in DOMAIN old, j \in DOMAIN new \ DOMAIN old : i < j
  /\ \A i \in DOMAIN new \ DOMAIN old : new[i] \in N
  /\ \A e \in N : \E i \in DOMAIN new : new[i] = e
  /\ \A i, j \in DOMAIN new \ DOMAIN old :
       /\ new[i] = new[j] => i = j
       /\ WrittenBefore(new[i], new[j]) => i < j

LEMMA AppendedFollow ==
  ASSUME NEW N, NEW rows, NEW old, NEW new, IsListOf(rows, N), IsAppended(old, new, rows)
  PROVE  Follows(old, new, N)
  <1> PICK n, m : n = Len(old) /\ m = Len(rows)
    OBVIOUS
  <1>1. /\ n \in Nat /\ m \in Nat
        /\ DOMAIN old = 1..n /\ DOMAIN new = 1..(n + m)
        /\ \A i \in 1..n : new[i] = old[i]
        /\ \A i \in 1..m : new[n + i] = rows[i]
        /\ \A i \in DOMAIN new \ DOMAIN old : i > n /\ i - n \in 1..m /\ new[i] = rows[i - n]
    BY DEF IsAppended
  <1>2. \A i \in 1..m : rows[i] \in N
    BY DEF IsListOf
  <1>3. \A e \in N : \E i \in 1..m : rows[i] = e
    BY DEF IsListOf
  <1>4. \A i, j \in 1..m : rows[i] = rows[j] => i = j
    BY DEF IsListOf
  <1>5. \A i, j \in 1..m : WrittenBefore(rows[i], rows[j]) => i < j
    BY DEF IsListOf
  <1>6. \A i \in DOMAIN new \ DOMAIN old : new[i] \in N
    BY <1>1, <1>2
  <1>7. ASSUME NEW i \in DOMAIN new \ DOMAIN old, NEW j \in DOMAIN new \ DOMAIN old
        PROVE  /\ new[i] = new[j] => i = j
               /\ WrittenBefore(new[i], new[j]) => i < j
    <2>1. /\ i \in Nat /\ j \in Nat /\ i - n \in 1..m /\ j - n \in 1..m
          /\ new[i] = rows[i - n] /\ new[j] = rows[j - n]
      BY <1>1
    <2>2. rows[i - n] = rows[j - n] => i - n = j - n
      BY <1>4, <2>1
    <2>3. WrittenBefore(rows[i - n], rows[j - n]) => i - n < j - n
      BY <1>5, <2>1
    <2>4. /\ i - n = j - n => i = j
          /\ i - n < j - n => i < j
      BY <1>1, <2>1
    <2>5. new[i] = new[j] => i = j
      BY <2>1, <2>2, <2>4
    <2>6. WrittenBefore(new[i], new[j]) => i < j
      BY <2>1, <2>3, <2>4
    <2> QED
      BY <2>5, <2>6
  <1>8. \A i \in DOMAIN old, j \in DOMAIN new \ DOMAIN old : i < j
    BY <1>1
  <1>9. DOMAIN old \subseteq DOMAIN new /\ DOMAIN new \subseteq Nat
    BY <1>1
  <1>10. ASSUME NEW e \in N PROVE \E i \in DOMAIN new : new[i] = e
    <2>1. PICK i \in 1..m : rows[i] = e
      BY <1>3
    <2>2. n + i \in DOMAIN new /\ new[n + i] = e
      BY <1>1, <2>1
    <2> QED
      BY <2>2
  <1>11. \A i \in DOMAIN old : new[i] = old[i]
    BY <1>1
  <1> QED
    BY <1>6, <1>7, <1>8, <1>9, <1>10, <1>11 DEF Follows

LEMMA FollowingTells ==
  ASSUME TrailTells, history \subseteq history', trail' \in Seq(Event),
         Follows(trail, trail', history' \ history)
  PROVE  TrailTells'
  <1>1. /\ \A i \in Rows : trail[i] \in history
        /\ \A e \in history : \E i \in Rows : trail[i] = e
        /\ \A i, j \in Rows : trail[i] = trail[j] => i = j
    BY DEF TrailTells
  <1>2. /\ Rows \subseteq Rows'
        /\ \A i \in Rows : trail'[i] = trail[i] /\ trail[i] \in history
        /\ \A i \in Rows' \ Rows : trail'[i] \in history' \ history
        /\ \A i, j \in Rows' \ Rows : trail'[i] = trail'[j] => i = j
    BY <1>1 DEF Follows, Rows
  <1>3. ASSUME NEW e \in history' PROVE \E i \in Rows' : trail'[i] = e
    <2>1. CASE e \in history
      BY <1>1, <1>2, <2>1
    <2>2. CASE e \notin history
      BY <2>2 DEF Follows, Rows
    <2> QED
      BY <2>1, <2>2
  <1>4. ASSUME NEW i \in Rows', NEW j \in Rows', trail'[i] = trail'[j] PROVE i = j
    <2>1. CASE i \in Rows /\ j \in Rows
      BY <1>1, <1>2, <1>4, <2>1
    <2>2. CASE i \notin Rows /\ j \notin Rows
      BY <1>2, <1>4, <2>2
    <2>3. CASE i \in Rows /\ j \notin Rows
      BY <1>2, <1>4, <2>3
    <2>4. CASE i \notin Rows /\ j \in Rows
      BY <1>2, <1>4, <2>4
    <2> QED
      BY <2>1, <2>2, <2>3, <2>4
  <1>5. \A i \in Rows' : trail'[i] \in history'
    BY <1>2
  <1> QED
    BY <1>3, <1>4, <1>5 DEF TrailTells

LEMMA TrailGrows ==
  ASSUME TrailTells, history \subseteq history', history' \subseteq Event,
         IsFiniteSet(history' \ history), AreApart(history' \ history),
         trail' = trail \o InOrder(history' \ history)
  PROVE  TrailTells' /\ Follows(trail, trail', history' \ history)
  <1> PICK N, rows : N = history' \ history /\ rows = InOrder(N)
    OBVIOUS
  <1>1. trail \in Seq(Event) /\ trail' = trail \o rows
    BY DEF TrailTells
  <1>2. IsListOf(rows, N)
    BY InOrderLists, Zenon
  <1>3. rows \in Seq(Event)
    BY <1>2 DEF IsListOf
  <1>4. trail' \in Seq(Event) /\ IsAppended(trail, trail', rows)
    BY <1>1, <1>3, Joined, Zenon
  <1>5. Follows(trail, trail', N)
    BY <1>2, <1>4, AppendedFollow, Zenon
  <1>7. TrailTells'
    BY <1>4, <1>5, FollowingTells
  <1> QED
    BY <1>5, <1>7, Zenon

----------------------------------------------------------------------------
\* What a step adds

\* The rows of one step: what they are about, and which go together.
StepAdds ==
  LET new == history' \ history IN
  /\ history \subseteq history'
  /\ \A v \in Slot : video[v].version <= video'[v].version
  /\ \A e \in new :
       /\ e.version <= video'[e.video].version
       /\ e.kind \in Endings =>
            /\ status = "delivered" /\ cycles' = cycles /\ e.cycle = cycles
            /\ e.version = video[e.video].version
       /\ e.kind = "review_ready" => cycles' = cycles + 1 /\ e.cycle = cycles'
       /\ e.kind = "submitted" => status # "delivered"
       /\ e.kind \in Decisions => status' # "refunded"
  /\ \A e, f \in new :
       /\ KindRank(e.kind) = KindRank(f.kind) => e.kind = f.kind
       /\ e.kind = f.kind /\ e.video = f.video => e = f
       /\ e.kind = "revision_requested" /\ f.kind \in Decisions => e = f
       /\ e.kind \in Decisions /\ f.kind = "review_interrupted" => e.kind = "revision_requested"
  /\ status = "delivered" /\ status' \in {"completed", "revision_requested"} =>
       \E e \in history' : e.kind \in Decisions /\ e.cycle = cycles
  /\ status = "delivered" /\ status' = "refunded" =>
       \E e \in history' : e.kind = "review_interrupted" /\ e.cycle = cycles
  /\ status' = "refunded" => Rejected' = Rejected

LEMMA LandAdds ==
  ASSUME ReviewInv, ReviewInv', NEW r \in Request, NEW v \in Slot, NEW rows \in [Slot -> Video],
         NEW count, NEW evidence, count \in 0..VideoCount,
         Land(r, v, rows, count, evidence), status \in {"funded", "revision_requested"},
         \A w \in Slot : video[w].version <= rows[w].version,
         \A e \in evidence : /\ e.video = v /\ e.kind \in {"submitted", "superseded"}
                             /\ e.version <= rows[v].version,
         \A e, f \in evidence : e.kind = f.kind => e = f
  PROVE  StepAdds
  <1> DEFINE complete == count = VideoCount
             opened == IF complete THEN CycleEvidence(rows, count) ELSE {}
             new == history' \ history
  <1>1. /\ history' = history \cup evidence \cup opened
        /\ cycles' = IF complete THEN cycles + 1 ELSE cycles
        /\ status' = IF complete THEN "delivered" ELSE status
    BY DEF Land
  <1>2. \A w \in Slot : video'[w].version = rows[w].version
    BY LandKeepsRows
  <1>3. ASSUME NEW e \in opened
        PROVE  /\ complete /\ e.kind = "review_ready" /\ e.cycle = cycles + 1
               /\ e.video \in Slot /\ e.version = rows[e.video].version
               /\ e = [video |-> e.video, version |-> rows[e.video].version,
                       kind |-> "review_ready", cycle |-> cycles + 1]
    <2>1. complete /\ e \in CycleEvidence(rows, count)
      BY <1>3
    <2>2. PICK w \in 1..count : e = [video |-> w, version |-> rows[w].version,
                                     kind |-> "review_ready", cycle |-> cycles + 1]
      BY <2>1 DEF CycleEvidence
    <2>3. w \in Slot
      BY VideoCountIsPositive DEF Slot
    <2> QED
      BY <2>1, <2>2, <2>3
  <1> HIDE DEF complete, opened
  <1>4. \A w \in Slot : rows[w].version \in Nat
    BY DEF Video
  <1>5. \A e \in new : e \in evidence \/ e \in opened
    BY <1>1
  <1>6. ASSUME NEW e \in new
        PROVE  /\ e.version <= video'[e.video].version
               /\ e.kind \in {"submitted", "superseded", "review_ready"}
               /\ e.kind = "review_ready" => cycles' = cycles + 1 /\ e.cycle = cycles'
    <2>1. CASE e \in evidence
      BY <1>2, <2>1
    <2>2. CASE e \in opened
      <3>1. e.version = video'[e.video].version /\ e.version \in Nat
        BY <1>2, <1>3, <1>4, <2>2
      <3> QED
        BY <1>1, <1>3, <2>2, <3>1
    <2> QED
      BY <1>5, <2>1, <2>2
  <1>7. ASSUME NEW e \in new, NEW f \in new
        PROVE  /\ KindRank(e.kind) = KindRank(f.kind) => e.kind = f.kind
               /\ e.kind = f.kind /\ e.video = f.video => e = f
    <2>1. KindRank("submitted") = 2 /\ KindRank("superseded") = 1 /\ KindRank("review_ready") = 3
      BY DEF KindRank
    <2>2. KindRank(e.kind) = KindRank(f.kind) => e.kind = f.kind
      BY <1>6, <2>1
    <2>3. ASSUME e.kind = f.kind, e.video = f.video PROVE e = f
      <3>1. CASE e \in evidence /\ f \in evidence
        BY <2>3, <3>1
      <3>2. CASE e \in opened /\ f \in opened
        BY <1>3, <2>3, <3>2
      <3>3. CASE e \in evidence /\ f \in opened
        BY <1>3, <2>3, <3>3
      <3>4. CASE e \in opened /\ f \in evidence
        BY <1>3, <2>3, <3>4
      <3> QED
        BY <1>5, <3>1, <3>2, <3>3, <3>4
    <2> QED
      BY <2>2, <2>3
  <1>8. \A e \in new : e.kind \notin Endings /\ e.kind \notin Decisions
    BY <1>6 DEF Endings, Decisions
  <1>9. status' # "refunded" /\ status # "delivered" /\ history \subseteq history'
    BY <1>1
  <1>10. \A w \in Slot : video[w].version <= video'[w].version
    BY <1>2
  <1> HIDE DEF new
  <1> QED
    BY <1>6, <1>7, <1>8, <1>9, <1>10 DEF StepAdds, Decisions, Endings, new

LEMMA AddAdds ==
  ASSUME ReviewInv, ReviewInv', NEW r \in Request, Add(r) PROVE StepAdds
  <1>t. video \in [Slot -> Video] /\ submitted \in 0..VideoCount /\ status \in Statuses
    BY DEF ReviewInv, TypeOK
  <1> PICK v : v = submitted + 1
    OBVIOUS
  <1> DEFINE new == [version |-> 1, url |-> r, review |-> "pending", cycle |-> 0]
             rows == [video EXCEPT ![v] = new]
             evidence == { [video |-> v, version |-> 1, kind |-> "submitted", cycle |-> 0] }
  <1>1. Land(r, v, rows, v, evidence) /\ submitted < VideoCount /\ CanDeliver(status)
    BY DEF Add
  <1>2. v \in Slot /\ v \in 0..VideoCount /\ v \notin Videos /\ new \in Video
    BY <1>t, <1>1, VideoCountIsPositive DEF Slot, Videos, Video, ReviewStatus
  <1>3. /\ rows \in [Slot -> Video] /\ rows[v] = new
        /\ \A w \in Slot : w # v => rows[w] = video[w]
    BY <1>t, <1>2
  <1>4. video[v].version = 0 /\ \A w \in Slot : video[w].version \in Nat
    BY <1>2, SlotsAreVideos DEF ReviewInv, NoVideo
  <1>5. \A w \in Slot : video[w].version <= rows[w].version
    BY <1>3, <1>4
  <1>6. /\ \A e \in evidence : /\ e.video = v /\ e.kind \in {"submitted", "superseded"}
                               /\ e.version <= rows[v].version
        /\ \A e, f \in evidence : e.kind = f.kind => e = f
    BY <1>3
  <1>7. status \in {"funded", "revision_requested"}
    BY <1>t, <1>1 DEF CanDeliver, CanTransition, LegalTransitions, Statuses
  <1> HIDE DEF rows, evidence
  <1> QED
    BY <1>1, <1>2, <1>3, <1>5, <1>6, <1>7, LandAdds

LEMMA ReplaceAdds ==
  ASSUME ReviewInv, ReviewInv', NEW r \in Request, NEW v \in Slot, Replace(r, v) PROVE StepAdds
  <1>t. video \in [Slot -> Video] /\ submitted \in 0..VideoCount /\ status \in Statuses
    BY DEF ReviewInv, TypeOK
  <1> DEFINE rows == [video EXCEPT ![v] = Replacement(r, v)]
  <1>1. Land(r, v, rows, submitted, ReplacementEvidence(v)) /\ CanDeliver(status)
    BY DEF Replace
  <1>2. \A w \in Slot : video[w].version \in Nat
    BY SlotsAreVideos DEF ReviewInv
  <1>3. /\ Replacement(r, v) \in Video /\ Replacement(r, v).version = video[v].version + 1
    BY <1>2 DEF Replacement, NextVersion, Video, ReviewStatus
  <1>4. /\ rows \in [Slot -> Video] /\ rows[v] = Replacement(r, v)
        /\ \A w \in Slot : w # v => rows[w] = video[w]
    BY <1>t, <1>3
  <1>5. \A w \in Slot : video[w].version <= rows[w].version
    BY <1>2, <1>3, <1>4
  <1>6. /\ \A e \in ReplacementEvidence(v) :
             /\ e.video = v /\ e.kind \in {"submitted", "superseded"}
             /\ e.version <= rows[v].version
        /\ \A e, f \in ReplacementEvidence(v) : e.kind = f.kind => e = f
    <2>1. rows[v].version = video[v].version + 1 /\ video[v].version \in Nat
      BY <1>2, <1>3, <1>4
    <2> HIDE DEF rows
    <2> QED
      BY <2>1 DEF ReplacementEvidence, Evidence, NextVersion
  <1>7. status \in {"funded", "revision_requested"}
    BY <1>t, <1>1 DEF CanDeliver, CanTransition, LegalTransitions, Statuses
  <1> HIDE DEF rows
  <1> QED
    BY <1>t, <1>1, <1>4, <1>5, <1>6, <1>7, LandAdds

\* A decision is about the review that is open, of the versions that are current.
LEMMA DecisionAdds ==
  ASSUME ReviewInv, NEW new, history' \ history \subseteq new, history \subseteq history',
         status = "delivered", cycles' = cycles, status' # "refunded",
         \A v \in Slot : video'[v].version = video[v].version,
         \A e \in new :
           /\ e.video \in Slot /\ e.cycle = cycles /\ e.version = video[e.video].version
           /\ e.kind \in Endings
           /\ e = [video |-> e.video, version |-> e.version, kind |-> e.kind, cycle |-> e.cycle],
         \A e, f \in new :
           /\ e.kind \in {"batch_approved", "admin_release"} => f.kind = e.kind
           /\ e.kind = "revision_requested" /\ f.kind = "revision_requested" => e = f,
         \E e \in history' : e.kind \in Decisions /\ e.cycle = cycles
  PROVE  StepAdds
  <1>1. \A v \in Slot : video[v].version \in Nat
    BY SlotsAreVideos DEF ReviewInv
  <1>2. /\ KindRank("review_interrupted") = 5 /\ KindRank("revision_requested") = 4
        /\ KindRank("batch_approved") = 6 /\ KindRank("admin_release") = 6
    BY DEF KindRank
  <1>3. ASSUME NEW e \in new
        PROVE  /\ e.version <= video'[e.video].version
               /\ e.kind \in {"review_interrupted", "revision_requested", "batch_approved", "admin_release"}
               /\ e.cycle = cycles /\ e.version = video[e.video].version
    BY <1>1 DEF Endings
  <1>4. ASSUME NEW e \in new, NEW f \in new
        PROVE  /\ KindRank(e.kind) = KindRank(f.kind) => e.kind = f.kind
               /\ e.kind = "revision_requested" /\ f.kind \in Decisions => e = f
               /\ e.kind \in Decisions /\ f.kind = "review_interrupted" => e.kind = "revision_requested"
    BY <1>2, <1>3 DEF Decisions
  <1>5. ASSUME NEW e \in new, NEW f \in new, e.kind = f.kind, e.video = f.video PROVE e = f
    <2>1. e.version = f.version /\ e.cycle = f.cycle
      BY <1>3, <1>5
    <2> QED
      BY <1>5, <2>1
  <1>6. \A v \in Slot : video[v].version <= video'[v].version
    BY <1>1
  <1>7. \A e \in new : e.kind \notin {"review_ready", "submitted"}
    BY <1>3
  <1> QED
    BY <1>3, <1>4, <1>5, <1>6, <1>7 DEF StepAdds

\* Where the videos of a delivered deal are.
LEMMA DeliveredCycles ==
  ASSUME ReviewInv, HistoryFits, status = "delivered"
  PROVE  /\ Videos = Slot /\ 1 \in Slot /\ cycles > 0 /\ cycles \in Nat
         /\ \A v \in Slot : video[v].cycle = cycles
         /\ Rejected = {}
  <1>1. submitted = VideoCount /\ Rejected = {} /\ cycles \in Nat
    BY DEF ReviewInv, RowsFit, TypeOK
  <1> QED
    BY <1>1, VideoCountIsPositive DEF HistoryFits, CyclesAreOpen, Videos, Slot

LEMMA ApproveAdds ==
  ASSUME ReviewInv, HistoryFits, NEW p \in Page, NEW kind \in {"batch_approved", "admin_release"},
         Approve(p, kind)
  PROVE  StepAdds
  <1>1. /\ status = "delivered" /\ status' = "completed" /\ cycles' = cycles
        /\ history' = history \cup ApprovalEvidence(kind)
        /\ video' = [v \in Slot |-> IF v \in Videos
               THEN [video[v] EXCEPT !.cycle = 0, !.review = "approved"] ELSE video[v]]
    BY DEF Approve, PayableFrom
  <1>2. /\ Videos = Slot /\ 1 \in Slot /\ \A v \in Slot : video[v].cycle = cycles
    BY <1>1, DeliveredCycles
  <1>3. \A v \in Slot : video'[v].version = video[v].version
    BY <1>1, SlotsAreVideos DEF ReviewInv, Video
  <1>4. \A e \in ApprovalEvidence(kind) :
           /\ e.video \in Slot /\ e.cycle = cycles /\ e.version = video[e.video].version
           /\ e.kind = kind
           /\ e = [video |-> e.video, version |-> e.version, kind |-> e.kind, cycle |-> e.cycle]
    BY <1>2 DEF ApprovalEvidence, Evidence
  <1>5. \E e \in history' : e.kind \in Decisions /\ e.cycle = cycles
    <2>1. Evidence(1, kind, video[1].cycle) \in history'
      BY <1>1, <1>2 DEF ApprovalEvidence
    <2>2. /\ Evidence(1, kind, video[1].cycle).kind = kind
          /\ Evidence(1, kind, video[1].cycle).cycle = cycles
      BY <1>2 DEF Evidence
    <2> QED
      BY <2>1, <2>2 DEF Decisions
  <1>6. \A e \in ApprovalEvidence(kind) : e.kind \in Endings /\ e.kind # "revision_requested"
    BY <1>4 DEF Endings
  <1> PICK new : new = ApprovalEvidence(kind)
    OBVIOUS
  <1>7. history' \ history \subseteq new /\ history \subseteq history' /\ status' # "refunded"
    BY <1>1
  <1>8. \A e, f \in new :
           /\ e.kind \in {"batch_approved", "admin_release"} => f.kind = e.kind
           /\ e.kind = "revision_requested" /\ f.kind = "revision_requested" => e = f
    BY <1>4, <1>6
  <1> QED
    BY <1>1, <1>3, <1>4, <1>5, <1>6, <1>7, <1>8, DecisionAdds

LEMMA RejectAdds ==
  ASSUME ReviewInv, HistoryFits, NEW p \in Page, NEW v \in Slot, Reject(p, v) PROVE StepAdds
  <1>1. /\ status' = "revision_requested" /\ cycles' = cycles /\ CanReview(status)
        /\ history' = history \cup RejectionEvidence(v)
        /\ video' = [w \in Slot |-> [video[w] EXCEPT
                       !.cycle = 0, !.review = IF w = v THEN "rejected" ELSE @]]
    BY DEF Reject, MayReject
  <1>2. status = "delivered"
    BY <1>1 DEF CanReview, CanTransition, LegalTransitions
  <1>3. /\ Videos = Slot /\ \A w \in Slot : video[w].cycle = cycles
    BY <1>2, DeliveredCycles
  <1>4. \A w \in Slot : video'[w].version = video[w].version
    BY <1>1, SlotsAreVideos DEF ReviewInv, Video
  <1>5. ASSUME NEW e \in RejectionEvidence(v)
        PROVE  /\ e.video \in Slot /\ e.cycle = cycles /\ e.version = video[e.video].version
               /\ e.kind \in {"review_interrupted", "revision_requested"}
               /\ e = [video |-> e.video, version |-> e.version, kind |-> e.kind, cycle |-> e.cycle]
               /\ e.kind = "revision_requested" => e = Evidence(v, "revision_requested", video[v].cycle)
    <2>1. CASE e = Evidence(v, "revision_requested", video[v].cycle)
      BY <1>3, <2>1 DEF Evidence
    <2>2. CASE e \in Interruptions({v})
      BY <1>3, <2>2 DEF Interruptions, Evidence
    <2> QED
      BY <2>1, <2>2 DEF RejectionEvidence
  <1>6. \E e \in history' : e.kind \in Decisions /\ e.cycle = cycles
    <2>1. Evidence(v, "revision_requested", video[v].cycle) \in history'
      BY <1>1 DEF RejectionEvidence
    <2>2. /\ Evidence(v, "revision_requested", video[v].cycle).kind = "revision_requested"
          /\ Evidence(v, "revision_requested", video[v].cycle).cycle = cycles
      BY <1>3 DEF Evidence
    <2> QED
      BY <2>1, <2>2 DEF Decisions
  <1> PICK new : new = RejectionEvidence(v)
    OBVIOUS
  <1>7. history' \ history \subseteq new /\ history \subseteq history' /\ status' # "refunded"
    BY <1>1
  <1>8. \A e, f \in new :
           /\ e.kind \in {"batch_approved", "admin_release"} => f.kind = e.kind
           /\ e.kind = "revision_requested" /\ f.kind = "revision_requested" => e = f
    BY <1>5
  <1>9. \A e \in new :
           /\ e.video \in Slot /\ e.cycle = cycles /\ e.version = video[e.video].version
           /\ e.kind \in Endings
           /\ e = [video |-> e.video, version |-> e.version, kind |-> e.kind, cycle |-> e.cycle]
    BY <1>5 DEF Endings
  <1>10. cycles' = cycles
    BY <1>1
  <1> QED
    BY <1>2, <1>4, <1>6, <1>7, <1>8, <1>9, <1>10, DecisionAdds

LEMMA RefundAdds ==
  ASSUME ReviewInv, HistoryFits, Refund PROVE StepAdds
  <1>1. /\ status' = "refunded" /\ cycles' = cycles /\ submitted' = submitted
        /\ history' = history \cup RefundEvidence /\ status \in RefundableFrom
        /\ video' = [v \in Slot |-> [video[v] EXCEPT !.cycle = 0]]
    BY DEF Refund
  <1>2. \A w \in Slot : video[w] \in Video /\ video[w].version \in Nat
    BY SlotsAreVideos DEF ReviewInv
  <1>3. \A w \in Slot : /\ video'[w].version = video[w].version
                        /\ video'[w].review = video[w].review
    BY <1>1, <1>2 DEF Video
  <1>4. Videos \subseteq Slot
    BY SlotsAreVideos DEF ReviewInv
  <1>5. Rejected' = Rejected
    BY <1>1, <1>3, <1>4 DEF Rejected, Videos
  <1>6. \A w \in Slot : video[w].cycle # 0 => status = "delivered" /\ video[w].cycle = cycles
    BY DEF HistoryFits, CyclesAreOpen
  <1>7. ASSUME NEW e \in RefundEvidence
        PROVE  /\ e.video \in Slot /\ e.version = video[e.video].version
               /\ \/ e.kind = "review_interrupted" /\ status = "delivered" /\ e.cycle = cycles
                     /\ e = [video |-> e.video, version |-> video[e.video].version,
                             kind |-> "review_interrupted", cycle |-> cycles]
                  \/ e.kind = "refunded"
                     /\ e = [video |-> e.video, version |-> video[e.video].version,
                             kind |-> "refunded", cycle |-> 0]
    <2>1. CASE e \in { Evidence(v, "refunded", 0) : v \in Videos }
      BY <1>4, <2>1 DEF Evidence
    <2>2. CASE e \in Interruptions({})
      BY <1>4, <1>6, <2>2 DEF Interruptions, Evidence
    <2> QED
      BY <2>1, <2>2 DEF RefundEvidence
  <1>8. ASSUME status = "delivered"
        PROVE  \E e \in history' : e.kind = "review_interrupted" /\ e.cycle = cycles
    <2>1. 1 \in Videos /\ video[1].cycle = cycles /\ cycles # 0
      BY <1>8, DeliveredCycles
    <2>2. Evidence(1, "review_interrupted", video[1].cycle) \in history'
      BY <1>1, <2>1 DEF RefundEvidence, Interruptions
    <2>3. /\ Evidence(1, "review_interrupted", video[1].cycle).kind = "review_interrupted"
          /\ Evidence(1, "review_interrupted", video[1].cycle).cycle = cycles
      BY <2>1 DEF Evidence
    <2> QED
      BY <2>2, <2>3
  <1>9. ASSUME NEW e \in history' \ history
        PROVE  /\ e.version <= video'[e.video].version
               /\ e.kind \in Endings =>
                    /\ status = "delivered" /\ cycles' = cycles /\ e.cycle = cycles
                    /\ e.version = video[e.video].version
               /\ e.kind \notin Decisions /\ e.kind \notin {"review_ready", "submitted"}
    <2>1. e \in RefundEvidence
      BY <1>1
    <2> QED
      BY <1>1, <1>2, <1>3, <1>7, <2>1 DEF Endings, Decisions
  <1>10. ASSUME NEW e \in history' \ history, NEW f \in history' \ history
         PROVE  /\ KindRank(e.kind) = KindRank(f.kind) => e.kind = f.kind
                /\ e.kind = f.kind /\ e.video = f.video => e = f
                /\ e.kind # "revision_requested"
    <2>1. e \in RefundEvidence /\ f \in RefundEvidence
      BY <1>1
    <2>2. KindRank("review_interrupted") = 5 /\ KindRank("refunded") = 6
      BY DEF KindRank
    <2> QED
      BY <1>7, <2>1, <2>2
  <1>11. \A w \in Slot : video[w].version <= video'[w].version
    BY <1>2, <1>3
  <1> QED
    BY <1>1, <1>5, <1>8, <1>9, <1>10, <1>11 DEF StepAdds

LEMMA NextAdds ==
  ASSUME ReviewInv, ReviewInv', HistoryFits, [Next]_vars PROVE StepAdds
  <1>1. ASSUME UNCHANGED << status, history, video, cycles, submitted >> PROVE StepAdds
    <2>1. \A v \in Slot : video[v].version \in Nat
      BY SlotsAreVideos DEF ReviewInv
    <2> QED
      BY <1>1, <2>1 DEF StepAdds, Rejected, Videos
  <1>2. ASSUME NEW r \in Request, Add(r) PROVE StepAdds
    BY <1>2, AddAdds
  <1>3. ASSUME NEW r \in Request, NEW v \in Slot, Replace(r, v) PROVE StepAdds
    BY <1>3, ReplaceAdds
  <1>4. ASSUME NEW p \in Page, NEW kind \in {"batch_approved", "admin_release"}, Approve(p, kind)
        PROVE  StepAdds
    BY <1>4, ApproveAdds
  <1>5. ASSUME NEW p \in Page, NEW v \in Slot, Reject(p, v) PROVE StepAdds
    BY <1>5, RejectAdds
  <1>6. CASE Refund
    BY <1>6, RefundAdds
  <1> QED
    BY <1>1, <1>2, <1>3, <1>4, <1>5, <1>6 DEF Next, FillForm, Replay, OpenPage, RecordMetrics, vars

----------------------------------------------------------------------------
\* The trail stays in order

\* What is known of an old row when a step adds its own.
LEMMA OldRows ==
  ASSUME ReviewInv, HistoryFits, EndsAreFinal, NEW h \in history
  PROVE  /\ h.video \in Slot /\ h.cycle \in Nat /\ h.cycle <= cycles /\ cycles \in Nat
         /\ h.version \in Nat /\ video[h.video].version \in Nat
         /\ status = "delivered" /\ h.kind \in Endings => h.cycle # cycles
         /\ h.kind = "submitted" => h.version <= video[h.video].version
         /\ status = "delivered" /\ h.kind = "revision_requested" =>
              h.version < video[h.video].version
  <1>1. h.video \in Slot /\ cycles \in Nat
    BY DEF ReviewInv, TypeOK, Event
  <1>2. video[h.video].version \in Nat
    BY <1>1, SlotsAreVideos DEF ReviewInv
  <1>3. /\ h.video \in Videos /\ h.cycle \in Nat /\ h.cycle <= cycles /\ h.version \in Nat
        /\ status = "delivered" /\ h.kind \in Endings => h.cycle # cycles
        /\ h.kind = "submitted" => h.version <= video[h.video].version
        /\ h.kind = "revision_requested" /\ video[h.video].review # "rejected" =>
             h.version < video[h.video].version
    BY RoomForMore
  <1>4. ASSUME status = "delivered" PROVE video[h.video].review # "rejected"
    BY <1>3, <1>4, DeliveredCycles DEF Rejected
  <1> QED
    BY <1>1, <1>2, <1>3, <1>4

\* The rows of a step are apart, and few.
LEMMA NewRowsAreApart ==
  ASSUME ReviewInv', StepAdds
  PROVE  IsFiniteSet(history' \ history) /\ AreApart(history' \ history)
  <1> PICK N : N = history' \ history
    OBVIOUS
  <1>1. \A e, f \in N :
          /\ KindRank(e.kind) = KindRank(f.kind) => e.kind = f.kind
          /\ e.kind = f.kind /\ e.video = f.video => e = f
    BY DEF StepAdds
  <1>2. N \subseteq Event
    BY DEF ReviewInv, TypeOK
  <1>3. \A e \in N : KindRank(e.kind) \in 1..6 /\ e.video \in Slot
    BY <1>2, RankIsNumber DEF Event
  <1>4. IsFiniteSet(N)
    <2> DEFINE place == [e \in N |-> << KindRank(e.kind), e.video >>]
    <2>1. IsFiniteSet((1..6) \X Slot)
      <3>1. VideoCount \in Int
        BY VideoCountIsPositive
      <3>2. IsFiniteSet(1..VideoCount)
        BY <3>1, FS_Interval
      <3>3. IsFiniteSet(1..6)
        <4>1. ASSUME NEW n \in Int PROVE IsFiniteSet(1..n)
          BY FS_Interval
        <4>2. 6 \in Int
          OBVIOUS
        <4> QED
          BY <4>1, <4>2, Zenon
      <3> QED
        BY <3>2, <3>3, FS_Product DEF Slot
    <2>2. place \in [N -> (1..6) \X Slot]
      BY <1>3
    <2>3. ASSUME NEW e \in N, NEW f \in N, place[e] = place[f] PROVE e = f
      BY <1>1, <2>3
    <2>4. place \in Injection(N, (1..6) \X Slot)
      BY <2>2, <2>3 DEF Injection, IsInjective
    <2> QED
      BY <2>1, <2>4, FS_Injection
  <1>5. ASSUME NEW e \in N, NEW f \in N, e # f
        PROVE  WrittenBefore(e, f) \/ WrittenBefore(f, e)
    <2>1. KindRank(e.kind) \in Nat /\ KindRank(f.kind) \in Nat /\ e.video \in Nat /\ f.video \in Nat
      BY <1>3 DEF Slot
    <2>2. CASE KindRank(e.kind) # KindRank(f.kind)
      BY <2>1, <2>2 DEF WrittenBefore
    <2>3. CASE KindRank(e.kind) = KindRank(f.kind)
      BY <1>1, <1>5, <2>1, <2>3 DEF WrittenBefore
    <2> QED
      BY <2>2, <2>3
  <1> QED
    BY <1>2, <1>4, <1>5 DEF AreApart

\* Two places of the trail after a step: both old, one of each, or both new.
LEMMA TwoPlaces ==
  ASSUME TrailTells, Follows(trail, trail', history' \ history), NEW i \in Rows', NEW j \in Rows'
  PROVE  /\ i \in Nat /\ j \in Nat
         /\ i \in Rows => trail'[i] = trail[i] /\ trail[i] \in history
         /\ j \in Rows => trail'[j] = trail[j] /\ trail[j] \in history
         /\ i \notin Rows => trail'[i] \in history' \ history
         /\ j \notin Rows => trail'[j] \in history' \ history
         /\ i \in Rows /\ j \notin Rows => i < j
         /\ i \notin Rows /\ j \in Rows => j < i
         /\ i \notin Rows /\ j \notin Rows =>
              /\ trail'[i] = trail'[j] => i = j
              /\ WrittenBefore(trail'[i], trail'[j]) => i < j
  <1>1. /\ i \in Nat /\ j \in Nat
        /\ i \in Rows => trail'[i] = trail[i]
        /\ j \in Rows => trail'[j] = trail[j]
        /\ i \notin Rows => trail'[i] \in history' \ history
        /\ j \notin Rows => trail'[j] \in history' \ history
        /\ i \in Rows /\ j \notin Rows => i < j
        /\ i \notin Rows /\ j \in Rows => j < i
    BY DEF Follows, Rows
  <1>2. i \notin Rows /\ j \notin Rows =>
          /\ trail'[i] = trail'[j] => i = j
          /\ WrittenBefore(trail'[i], trail'[j]) => i < j
    BY DEF Follows, Rows
  <1>3. /\ i \in Rows => trail[i] \in history
        /\ j \in Rows => trail[j] \in history
    BY DEF TrailTells
  <1> QED
    BY <1>1, <1>2, <1>3

LEMMA OrderKept ==
  ASSUME ReviewInv, HistoryFits, EndsAreFinal, ReportInv, StepAdds,
         Follows(trail, trail', history' \ history)
  PROVE  /\ ReviewsInTurn' /\ ReviewsComeFirst' /\ DecisionsComeFirst'
         /\ ChangesComeFirst' /\ ChangesAreLast'
  <1>s. \A e \in history' \ history :
          /\ e.kind \in Endings =>
               /\ status = "delivered" /\ cycles' = cycles /\ e.cycle = cycles
               /\ e.version = video[e.video].version
          /\ e.kind = "review_ready" => cycles' = cycles + 1 /\ e.cycle = cycles'
          /\ e.kind = "submitted" => status # "delivered"
    BY DEF StepAdds
  <1>p. \A e, f \in history' \ history :
          /\ e.kind = "revision_requested" /\ f.kind \in Decisions => e = f
          /\ e.kind \in Decisions /\ f.kind = "review_interrupted" => e.kind = "revision_requested"
    BY DEF StepAdds
  <1>d. Decisions \subseteq Endings /\ "revision_requested" \in Decisions
        /\ "review_interrupted" \in Endings
    BY DEF Decisions, Endings
  <1>1. ASSUME NEW i \in Rows', NEW j \in Rows', trail'[i].kind = "review_ready",
               trail'[j].kind = "review_ready", i < j
        PROVE  trail'[i].cycle <= trail'[j].cycle
    <2>1. CASE i \in Rows /\ j \in Rows
      BY <1>1, <2>1, TwoPlaces DEF ReportInv, ReviewsInTurn
    <2>2. CASE i \in Rows /\ j \notin Rows
      BY <1>1, <1>s, <2>2, TwoPlaces, OldRows DEF ReportInv
    <2>3. CASE i \notin Rows /\ j \in Rows
      BY <1>1, <2>3, TwoPlaces DEF ReportInv
    <2>4. CASE i \notin Rows /\ j \notin Rows
      <3>1. trail'[i].cycle = cycles + 1 /\ trail'[j].cycle = cycles + 1 /\ cycles \in Nat
        BY <1>1, <1>s, <2>4, TwoPlaces DEF ReportInv, ReviewInv, TypeOK
      <3> QED
        BY <3>1
    <2> QED
      BY <2>1, <2>2, <2>3, <2>4
  <1>2. ASSUME NEW i \in Rows', NEW j \in Rows', trail'[i].kind = "review_ready",
               trail'[j].kind \in Endings, trail'[i].cycle = trail'[j].cycle
        PROVE  i < j
    <2>1. CASE i \in Rows /\ j \in Rows
      BY <1>2, <2>1, TwoPlaces DEF ReportInv, ReviewsComeFirst
    <2>2. CASE i \in Rows /\ j \notin Rows
      BY <2>2, TwoPlaces DEF ReportInv
    <2>3. CASE i \notin Rows /\ j \in Rows
      BY <1>2, <1>s, <2>3, TwoPlaces, OldRows DEF ReportInv
    <2>4. CASE i \notin Rows /\ j \notin Rows
      <3>1. cycles' = cycles + 1 /\ cycles' = cycles /\ cycles \in Nat
        BY <1>2, <1>s, <2>4, TwoPlaces DEF ReportInv, ReviewInv, TypeOK
      <3> QED
        BY <3>1
    <2> QED
      BY <2>1, <2>2, <2>3, <2>4
  <1>3. ASSUME NEW i \in Rows', NEW j \in Rows', trail'[i].kind \in Decisions,
               trail'[j].kind = "review_interrupted", trail'[i].cycle = trail'[j].cycle
        PROVE  i < j
    <2>1. CASE i \in Rows /\ j \in Rows
      BY <1>3, <2>1, TwoPlaces DEF ReportInv, DecisionsComeFirst
    <2>2. CASE i \in Rows /\ j \notin Rows
      BY <2>2, TwoPlaces DEF ReportInv
    <2>3. CASE i \notin Rows /\ j \in Rows
      BY <1>3, <1>s, <1>d, <2>3, TwoPlaces, OldRows DEF ReportInv
    <2>4. CASE i \notin Rows /\ j \notin Rows
      <3>1. trail'[i] \in history' \ history /\ trail'[j] \in history' \ history
        BY <2>4, TwoPlaces DEF ReportInv
      <3>2. trail'[i].kind = "revision_requested"
        BY <1>3, <1>p, <3>1
      <3>3. WrittenBefore(trail'[i], trail'[j])
        BY <1>3, <3>2 DEF WrittenBefore, KindRank
      <3> QED
        BY <2>4, <3>3, TwoPlaces DEF ReportInv
    <2> QED
      BY <2>1, <2>2, <2>3, <2>4
  <1>4. ASSUME NEW i \in Rows', NEW j \in Rows', trail'[i].kind = "revision_requested",
               trail'[j].kind = "submitted", trail'[i].video = trail'[j].video,
               trail'[i].version < trail'[j].version
        PROVE  i < j
    <2>1. CASE i \in Rows /\ j \in Rows
      BY <1>4, <2>1, TwoPlaces DEF ReportInv, ChangesComeFirst
    <2>2. CASE i \in Rows /\ j \notin Rows
      BY <2>2, TwoPlaces DEF ReportInv
    <2>3. CASE i \notin Rows /\ j \in Rows
      <3>1. trail'[i].version = video[trail'[i].video].version
        BY <1>4, <1>s, <1>d, <2>3, TwoPlaces DEF ReportInv
      <3>2. /\ trail'[j].version <= video[trail'[j].video].version
            /\ trail'[j].version \in Nat /\ video[trail'[j].video].version \in Nat
        BY <1>4, <2>3, TwoPlaces, OldRows DEF ReportInv
      <3> QED
        BY <1>4, <3>1, <3>2
    <2>4. CASE i \notin Rows /\ j \notin Rows
      BY <1>4, <1>s, <1>d, <2>4, TwoPlaces DEF ReportInv
    <2> QED
      BY <2>1, <2>2, <2>3, <2>4
  <1>5. ASSUME NEW i \in Rows', NEW j \in Rows', trail'[i].kind = "revision_requested",
               trail'[j].kind \in Decisions, trail'[i].video = trail'[j].video,
               trail'[i].version = video'[trail'[i].video].version
        PROVE  j <= i
    <2>n. i \in Nat /\ j \in Nat
      BY TwoPlaces DEF ReportInv
    <2>o. ASSUME i \in Rows
          PROVE  /\ trail'[i] = trail[i] /\ trail[i] \in history
                 /\ trail[i].version = video[trail[i].video].version
                 /\ status # "delivered"
      <3>1. trail'[i] = trail[i] /\ trail[i] \in history
        BY <2>o, TwoPlaces DEF ReportInv
      <3>2. /\ trail[i].version <= video[trail[i].video].version
            /\ video[trail[i].video].version <= video'[trail[i].video].version
            /\ trail[i].video \in Slot /\ trail[i].version \in Nat
            /\ video[trail[i].video].version \in Nat
        BY <3>1, OldRows DEF ReportInv, ChangesAreTold, StepAdds
      <3>3. trail[i].version = video[trail[i].video].version
        BY <1>5, <3>1, <3>2
      <3> QED
        BY <1>5, <3>1, <3>2, <3>3, OldRows
    <2>1. CASE i \in Rows /\ j \in Rows
      BY <1>5, <2>1, <2>o, TwoPlaces DEF ReportInv, ChangesAreLast
    <2>2. CASE i \in Rows /\ j \notin Rows
      BY <1>5, <1>s, <1>d, <2>2, <2>o, TwoPlaces DEF ReportInv
    <2>3. CASE i \notin Rows /\ j \in Rows
      BY <2>n, <2>3, TwoPlaces DEF ReportInv
    <2>4. CASE i \notin Rows /\ j \notin Rows
      <3>1. trail'[i] \in history' \ history /\ trail'[j] \in history' \ history
        BY <2>4, TwoPlaces DEF ReportInv
      <3>2. trail'[i] = trail'[j]
        BY <1>5, <1>p, <3>1
      <3>3. i = j
        BY <2>4, <3>2, TwoPlaces DEF ReportInv
      <3> QED
        BY <2>n, <3>3
    <2> QED
      BY <2>1, <2>2, <2>3, <2>4
  <1>6. ReviewsInTurn'
    BY <1>1 DEF ReviewsInTurn
  <1>7. ReviewsComeFirst'
    BY <1>2 DEF ReviewsComeFirst
  <1>8. DecisionsComeFirst'
    BY <1>3 DEF DecisionsComeFirst
  <1>9. ChangesComeFirst'
    BY <1>4 DEF ChangesComeFirst
  <1>10. ChangesAreLast'
    BY <1>5 DEF ChangesAreLast
  <1> QED
    BY <1>6, <1>7, <1>8, <1>9, <1>10

\* Every cycle goes on to be told as it ended.
LEMMA CyclesStayTold ==
  ASSUME ReviewInv, ReviewInv', HistoryFits, EndsAreFinal, EndsAreFinal', WalkFits, WalkFits',
         CyclesAreTold, StepAdds, StatusMoves
  PROVE  CyclesAreTold'
  <1>t. status \in Statuses /\ cycles \in Nat /\ history \subseteq history' /\ 1 \in Slot
    BY VideoCountIsPositive DEF ReviewInv, TypeOK, StepAdds, Slot
  <1> SUFFICES ASSUME NEW c \in 1..cycles'
               PROVE  /\ \E e \in history' : e.kind = "review_ready" /\ e.cycle = c
                      /\ WasDecided(c)' => \E e \in history' : e.kind \in Decisions /\ e.cycle = c
                      /\ ~WasDecided(c)' /\ status' = "refunded" =>
                           /\ \E e \in history' : e.kind = "review_interrupted" /\ e.cycle = c
                           /\ \A e \in history' : e.kind \in Decisions => e.cycle # c
    BY DEF CyclesAreTold
  <1>o. ASSUME c \in 1..cycles
        PROVE  /\ \E e \in history' : e.kind = "review_ready" /\ e.cycle = c
               /\ WasDecided(c) => \E e \in history' : e.kind \in Decisions /\ e.cycle = c
    BY <1>t, <1>o DEF CyclesAreTold
  <1>1. CASE status' = status /\ cycles' = cycles
    <2>1. status = "funded" => cycles = 0
      BY DEF WalkFits
    <2>2. CASE status \in {"delivered", "completed", "revision_requested"}
      <3>1. status = "delivered" => Rejected = {} /\ Rejected' = {}
        BY <1>1 DEF ReviewInv, RowsFit
      <3>2. WasDecided(c)' = WasDecided(c)
        BY <1>1, <2>2, <3>1 DEF WasDecided
      <3> QED
        BY <1>1, <1>o, <2>2, <3>2
    <2>3. CASE status = "refunded"
      <3>1. /\ \A e \in history' \ history : e.kind \notin Decisions
            /\ Rejected' = Rejected
        BY <1>1, <2>3 DEF StepAdds
      <3>2. WasDecided(c)' = WasDecided(c) /\ c \in 1..cycles
        BY <1>1, <3>1 DEF WasDecided
      <3>3. ASSUME ~WasDecided(c)
            PROVE  /\ \E e \in history' : e.kind = "review_interrupted" /\ e.cycle = c
                   /\ \A e \in history' : e.kind \in Decisions => e.cycle # c
        <4>1. /\ \E e \in history : e.kind = "review_interrupted" /\ e.cycle = c
              /\ \A e \in history : e.kind \in Decisions => e.cycle # c
          BY <2>3, <3>2, <3>3 DEF CyclesAreTold
        <4> QED
          BY <1>t, <3>1, <4>1
      <3> QED
        BY <1>o, <3>2, <3>3
    <2> QED
      BY <1>1, <1>t, <2>1, <2>2, <2>3 DEF Statuses
  <1>2. CASE CanDeliver(status) /\ status' = "delivered" /\ cycles' = cycles + 1
    <2>1. status = "revision_requested" \/ (status = "funded" /\ cycles = 0)
      <3>1. status \in {"funded", "revision_requested"}
        BY <1>2, <1>t DEF CanDeliver, CanTransition, LegalTransitions, Statuses
      <3>2. status = "funded" => cycles = 0
        BY DEF WalkFits
      <3> QED
        BY <3>1, <3>2
    <2>2. Rejected' = {}
      BY <1>2 DEF ReviewInv, RowsFit
    <2>3. CASE c = cycles + 1
      <3>1. ~WasDecided(c)'
        BY <1>2, <1>t, <2>2, <2>3 DEF WasDecided
      <3>2. \E e \in history' : e.kind = "review_ready" /\ e.cycle = c
        BY <1>2, <1>t, <2>3 DEF EndsAreFinal
      <3> QED
        BY <1>2, <3>1, <3>2
    <2>4. CASE c # cycles + 1
      <3>1. c \in 1..cycles /\ status = "revision_requested"
        BY <1>2, <1>t, <2>1, <2>4
      <3>2. WasDecided(c)
        BY <3>1 DEF WasDecided
      <3> QED
        BY <1>2, <1>o, <3>1, <3>2
    <2> QED
      BY <2>3, <2>4
  <1>3. CASE status = "delivered" /\ status' \in {"completed", "revision_requested"} /\ cycles' = cycles
    <2>1. CASE c = cycles
      BY <1>3, <1>o, <2>1 DEF StepAdds
    <2>2. CASE c # cycles
      <3>1. WasDecided(c)
        BY <1>3, <1>t, <2>2 DEF WasDecided
      <3> QED
        BY <1>3, <1>o, <3>1
    <2> QED
      BY <2>1, <2>2
  <1>4. CASE status \in RefundableFrom /\ status' = "refunded" /\ cycles' = cycles
    <2>1. Rejected' = Rejected /\ status \in {"funded", "delivered", "revision_requested"}
      BY <1>4 DEF StepAdds, RefundableFrom
    <2>2. CASE status = "funded"
      BY <1>4, <2>2 DEF WalkFits
    <2>3. CASE status = "revision_requested"
      <3>1. Rejected # {} /\ WasDecided(c) /\ WasDecided(c)'
        BY <2>1, <2>3 DEF ReviewInv, RowsFit, WasDecided
      <3> QED
        BY <1>4, <1>o, <3>1
    <2>4. CASE status = "delivered"
      <3>1. Rejected = {} /\ Rejected' = {}
        BY <2>1, <2>4 DEF ReviewInv, RowsFit
      <3>2. CASE c = cycles
        <4>1. ~WasDecided(c)'
          BY <1>4, <1>t, <3>1, <3>2 DEF WasDecided
        <4>2. \E e \in history' : e.kind = "review_interrupted" /\ e.cycle = c
          BY <1>4, <2>4, <3>2 DEF StepAdds
        <4>3. \A e \in history : e.kind \in Decisions => e.cycle # c
          BY <2>4, <3>2, OldRows DEF Decisions, Endings
        <4>4. \A e \in history' \ history : e.kind \notin Decisions
          BY <1>4 DEF StepAdds
        <4>5. \A e \in history' : e.kind \in Decisions => e.cycle # c
          BY <4>3, <4>4
        <4> QED
          BY <1>4, <1>o, <4>1, <4>2, <4>5
      <3>3. CASE c # cycles
        <4>1. WasDecided(c) /\ WasDecided(c)'
          BY <1>4, <1>t, <3>3 DEF WasDecided
        <4> QED
          BY <1>4, <1>o, <4>1
      <3> QED
        BY <3>2, <3>3
    <2> QED
      BY <2>1, <2>2, <2>3, <2>4
  <1> QED
    BY <1>1, <1>2, <1>3, <1>4 DEF StatusMoves

LEMMA ChangesStayTold ==
  ASSUME ReviewInv, ReviewInv', HistoryFits, HistoryFits', EndsAreFinal, ChangesAreTold, StepAdds,
         Past' = Past \cup {status'}
  PROVE  ChangesAreTold'
  <1>s. /\ history \subseteq history'
        /\ \A v \in Slot : video[v].version <= video'[v].version
        /\ \A e \in history' \ history :
             /\ e.version <= video'[e.video].version
             /\ e.kind \in Endings => status = "delivered" /\ e.cycle = cycles
                                      /\ e.version = video[e.video].version
        /\ \A e, f \in history' \ history : e.kind = f.kind /\ e.video = f.video => e = f
    BY DEF StepAdds
  <1>1. ASSUME NEW e \in history', NEW h \in history', e.kind = "revision_requested",
               h.kind = "revision_requested", e.video = h.video, e.version = h.version
        PROVE  e = h
    <2>1. CASE e \in history /\ h \in history
      BY <1>1, <2>1 DEF ChangesAreTold
    <2>2. CASE e \notin history /\ h \notin history
      BY <1>1, <1>s, <2>2
    <2>3. ASSUME NEW new \in history' \ history, NEW old \in history,
                 new.kind = "revision_requested", old.kind = "revision_requested",
                 new.video = old.video
          PROVE  new.version # old.version
      <3>1. status = "delivered" /\ new.version = video[old.video].version
        BY <1>s, <2>3 DEF Endings
      <3>2. old.version < video[old.video].version /\ old.version \in Nat
            /\ video[old.video].version \in Nat
        BY <2>3, <3>1, OldRows
      <3> QED
        BY <3>1, <3>2
    <2> QED
      BY <1>1, <2>1, <2>2, <2>3
  <1>2. ASSUME NEW e \in history'
        PROVE  /\ e.version <= video'[e.video].version
               /\ e.kind \in Endings => e.cycle > 0
    <2>1. CASE e \in history
      <3>1. /\ e.version <= video[e.video].version
            /\ e.kind \in Endings => e.cycle > 0
        BY <2>1 DEF ChangesAreTold
      <3>2. /\ e.video \in Slot /\ e.version \in Nat /\ video[e.video].version \in Nat
        BY <2>1, OldRows
      <3>3. video'[e.video].version \in Nat /\ video[e.video].version <= video'[e.video].version
        BY <1>s, <3>2, SlotsAreVideos DEF ReviewInv, TypeOK, Video
      <3> QED
        BY <3>1, <3>2, <3>3
    <2>2. CASE e \notin history
      BY <1>s, <2>2, DeliveredCycles
    <2> QED
      BY <2>1, <2>2
  <1>3. ASSUME "revision_requested" \in Past' PROVE \E e \in history' : e.kind = "revision_requested"
    <2>1. CASE "revision_requested" \in Past
      BY <1>s, <2>1 DEF ChangesAreTold
    <2>2. CASE status' = "revision_requested"
      <3>1. PICK v \in Slot : v \in Rejected'
        BY <2>2 DEF ReviewInv, RowsFit
      <3>2. /\ v \in Videos' /\ video'[v].review = "rejected" /\ VersionsOnRecord(v)'
            /\ video'[v].version \in Nat /\ video'[v].version > 0
        BY <3>1 DEF Rejected, HistoryFits, ReviewInv, TypeOK, Video
      <3>3. 1 \in OnRecord(v, "revision_requested")'
        BY <3>2 DEF VersionsOnRecord
      <3> QED
        BY <3>3 DEF OnRecord
    <2> QED
      BY <1>3, <2>1, <2>2
  <1> QED
    BY <1>1, <1>2, <1>3 DEF ChangesAreTold

LEMMA RecordKeepsReport ==
  ASSUME ReviewInv, ReviewInv', HistoryFits, HistoryFits', EndsAreFinal, EndsAreFinal',
         WalkFits, WalkFits', ReportInv, [HistoryNext]_historyVars
  PROVE  ReportInv'
  <1>1. CASE UNCHANGED historyVars
    BY <1>1 DEF historyVars, vars, ReportInv, TrailTells, ReviewsInTurn, ReviewsComeFirst,
       DecisionsComeFirst, ChangesComeFirst, ChangesAreLast, CyclesAreTold, WasDecided,
       ChangesAreTold, Rows, Rejected, Videos, Past
  <1>2. CASE HistoryNext
    <2>1. /\ [Next]_vars
          /\ trail' = trail \o InOrder(history' \ history)
          /\ walk' = IF status' = status THEN walk ELSE Append(walk, status')
      BY <1>2 DEF HistoryNext, Record
    <2>2. StepAdds /\ StatusMoves
      BY <2>1, NextAdds, StatusWalks
    <2>3. TrailTells' /\ Follows(trail, trail', history' \ history)
      <3>1. history \subseteq history' /\ history' \subseteq Event
        BY <2>2 DEF StepAdds, ReviewInv, TypeOK
      <3>2. IsFiniteSet(history' \ history) /\ AreApart(history' \ history)
        BY <2>2, NewRowsAreApart
      <3>3. TrailTells
        BY DEF ReportInv
      <3> QED
        BY <2>1, <3>1, <3>2, <3>3, TrailGrows, Zenon
    <2>4. /\ ReviewsInTurn' /\ ReviewsComeFirst' /\ DecisionsComeFirst'
          /\ ChangesComeFirst' /\ ChangesAreLast'
      BY <2>2, <2>3, OrderKept
    <2>5. CyclesAreTold'
      BY <2>2, CyclesStayTold DEF ReportInv
    <2>6. ChangesAreTold'
      <3>1. Past' = Past \cup {status'}
        BY <2>1, PastGrows DEF WalkFits
      <3> QED
        BY <2>2, <3>1, ChangesStayTold DEF ReportInv
    <2> QED
      BY <2>3, <2>4, <2>5, <2>6 DEF ReportInv
  <1> QED
    BY <1>1, <1>2

----------------------------------------------------------------------------
\* The report, read off the rows

\* The first row of those that all come before others is before the first of the others.
LEMMA FirstOf ==
  ASSUME NEW S, S \subseteq Nat, S # {}
  PROVE  Min(S) \in S /\ Min(S) \in Nat /\ \A i \in S : Min(S) <= i
  <1>1. \E m \in S : \A n \in S : m <= n
    BY LeastNumber
  <1> QED
    BY <1>1 DEF Min

LEMMA FirstsInOrder ==
  ASSUME NEW S, NEW T, S \subseteq Nat, T \subseteq Nat, S # {}, T # {},
         \A i \in S, j \in T : i < j
  PROVE  Min(S) < Min(T) /\ ~(Min(T) < Min(S))
  <1>1. Min(S) \in S /\ Min(T) \in T /\ Min(S) \in Nat /\ Min(T) \in Nat
    BY FirstOf
  <1> QED
    BY <1>1

LEMMA RowsAreNumbers ==
  ASSUME ReportInv
  PROVE  Rows \subseteq Nat
  <1>1. trail \in Seq(Event)
    BY DEF ReportInv, TrailTells
  <1>2. DOMAIN trail = 1..Len(trail)
    BY <1>1
  <1> QED
    BY <1>2 DEF Rows

\* The rows of a cycle, of its start, its decisions and its interruptions.
LEMMA RowsOfCycle ==
  ASSUME ReportInv, NEW c, NEW kinds
  PROVE  /\ OfCycle(c, kinds) \subseteq Rows /\ OfCycle(c, kinds) \subseteq Nat
         /\ \A i \in OfCycle(c, kinds) :
              trail[i].cycle = c /\ trail[i].kind \in kinds /\ trail[i] \in history
         /\ (\E e \in history : e.kind \in kinds /\ e.cycle = c) => OfCycle(c, kinds) # {}
  <1>1. TrailTells
    BY DEF ReportInv
  <1>2. Rows \subseteq Nat
    BY RowsAreNumbers
  <1> QED
    BY <1>1, <1>2 DEF TrailTells, OfCycle

\* A review that came to a decision is told so.
LEMMA DecidedReviews ==
  ASSUME ReviewInv, ReportInv, NEW c \in 1..cycles, WasDecided(c)
  PROVE  ReviewTiming(c) = "sample"
  <1> PICK start, decision, interruption :
        /\ start = OfCycle(c, {"review_ready"})
        /\ decision = OfCycle(c, Decisions)
        /\ interruption = OfCycle(c, {"review_interrupted"})
    OBVIOUS
  <1>1. /\ start \subseteq Nat /\ decision \subseteq Nat /\ interruption \subseteq Nat
        /\ start \subseteq Rows /\ decision \subseteq Rows /\ interruption \subseteq Rows
    BY RowsOfCycle
  <1>2. start # {} /\ decision # {}
    <2>1. \E e \in history : e.kind = "review_ready" /\ e.cycle = c
      BY DEF ReportInv, CyclesAreTold
    <2>2. \E e \in history : e.kind \in Decisions /\ e.cycle = c
      BY DEF ReportInv, CyclesAreTold
    <2> QED
      BY <2>1, <2>2, RowsOfCycle
  <1>3. \A i \in start, j \in decision : i < j
    <2> SUFFICES ASSUME NEW i \in start, NEW j \in decision PROVE i < j
      OBVIOUS
    <2>1. /\ trail[i].kind = "review_ready" /\ trail[i].cycle = c
          /\ trail[j].kind \in Endings /\ trail[j].cycle = c
      BY DEF OfCycle, Decisions, Endings
    <2> QED
      BY <1>1, <2>1 DEF ReportInv, ReviewsComeFirst
  <1>4. \A i \in decision, j \in interruption : i < j
    <2> SUFFICES ASSUME NEW i \in decision, NEW j \in interruption PROVE i < j
      OBVIOUS
    <2>1. /\ trail[i].kind \in Decisions /\ trail[i].cycle = c
          /\ trail[j].kind = "review_interrupted" /\ trail[j].cycle = c
      BY DEF OfCycle
    <2> QED
      BY <1>1, <2>1 DEF ReportInv, DecisionsComeFirst
  <1>5. ~(Min(decision) < Min(start))
    BY <1>1, <1>2, <1>3, FirstsInOrder
  <1>6. Decided(decision, interruption)
    <2>1. interruption # {} => Min(decision) < Min(interruption)
      BY <1>1, <1>2, <1>4, FirstsInOrder
    <2> QED
      BY <1>2, <2>1 DEF Decided
  <1>7. Interval(start, decision, "sample") = "sample"
    BY <1>5 DEF Interval
  <1> QED
    BY <1>2, <1>6, <1>7 DEF ReviewTiming

\* So is the review of a delivered deal, and one that only a refund ended.
LEMMA OpenReviews ==
  ASSUME ReviewInv, HistoryFits, EndsAreFinal, ReportInv, status = "delivered"
  PROVE  ReviewTiming(cycles) = "waiting"
  <1> PICK start, decision, interruption :
        /\ start = OfCycle(cycles, {"review_ready"})
        /\ decision = OfCycle(cycles, Decisions)
        /\ interruption = OfCycle(cycles, {"review_interrupted"})
    OBVIOUS
  <1>1. start \subseteq Nat /\ start \subseteq Rows
    BY RowsOfCycle
  <1>2. cycles \in Nat /\ cycles > 0
    BY DeliveredCycles
  <1>3. start # {}
    <2>1. \E e \in history : e.kind = "review_ready" /\ e.cycle = cycles
      BY <1>2 DEF ReportInv, CyclesAreTold
    <2> QED
      BY <2>1, RowsOfCycle
  <1>4. decision = {} /\ interruption = {}
    <2>1. \A i \in Rows : trail[i] \in history
      BY DEF ReportInv, TrailTells
    <2>2. \A h \in history : h.kind \in Endings => h.cycle # cycles
      BY OldRows
    <2> QED
      BY <2>1, <2>2 DEF OfCycle, Decisions, Endings
  <1>5. ~Decided(decision, interruption)
    BY <1>4 DEF Decided
  <1>6. IsLatestReview(start)
    <2> PICK first : first = Min(start)
      OBVIOUS
    <2>1. first \in start
      BY <1>1, <1>3, FirstOf
    <2>2. first \in Rows /\ trail[first].cycle = cycles /\ trail[first].kind = "review_ready"
      BY <2>1 DEF OfCycle
    <2>3. ASSUME NEW i \in Rows, trail[i].kind = "review_ready", trail[i].cycle # cycles, i > first
          PROVE  FALSE
      <3>1. trail[i] \in history
        BY DEF ReportInv, TrailTells
      <3>2. trail[i].cycle <= cycles /\ trail[i].cycle \in Nat
        BY <3>1, OldRows
      <3>3. i \in Nat /\ first \in Nat
        BY <2>1, <1>1, RowsAreNumbers
      <3>4. first < i
        BY <2>3, <3>3
      <3>5. trail[first].cycle <= trail[i].cycle
        BY <2>2, <2>3, <3>4 DEF ReportInv, ReviewsInTurn
      <3> QED
        BY <1>2, <2>2, <2>3, <3>2, <3>5
    <2> QED
      BY <2>2, <2>3 DEF IsLatestReview
  <1> QED
    BY <1>3, <1>4, <1>5, <1>6 DEF ReviewTiming

LEMMA InterruptedReviews ==
  ASSUME ReviewInv, ReportInv, status = "refunded", cycles > 0, ~WasDecided(cycles)
  PROVE  ReviewTiming(cycles) = "interrupted"
  <1> PICK start, decision, interruption :
        /\ start = OfCycle(cycles, {"review_ready"})
        /\ decision = OfCycle(cycles, Decisions)
        /\ interruption = OfCycle(cycles, {"review_interrupted"})
    OBVIOUS
  <1>1. /\ start \subseteq Nat /\ interruption \subseteq Nat
        /\ start \subseteq Rows /\ interruption \subseteq Rows
    BY RowsOfCycle
  <1>2. cycles \in 1..cycles
    BY DEF ReviewInv, TypeOK
  <1>3. start # {} /\ interruption # {}
    <2>1. \E e \in history : e.kind = "review_ready" /\ e.cycle = cycles
      BY <1>2 DEF ReportInv, CyclesAreTold
    <2>2. \E e \in history : e.kind = "review_interrupted" /\ e.cycle = cycles
      BY <1>2 DEF ReportInv, CyclesAreTold
    <2> QED
      BY <2>1, <2>2, RowsOfCycle
  <1>4. decision = {}
    <2>1. \A e \in history : e.kind \in Decisions => e.cycle # cycles
      BY <1>2 DEF ReportInv, CyclesAreTold
    <2> QED
      BY <2>1, RowsOfCycle
  <1>5. \A i \in start, j \in interruption : i < j
    <2> SUFFICES ASSUME NEW i \in start, NEW j \in interruption PROVE i < j
      OBVIOUS
    <2>1. /\ trail[i].kind = "review_ready" /\ trail[i].cycle = cycles
          /\ trail[j].kind \in Endings /\ trail[j].cycle = cycles
      BY DEF OfCycle, Endings
    <2> QED
      BY <1>1, <2>1 DEF ReportInv, ReviewsComeFirst
  <1>6. ~(Min(interruption) < Min(start))
    BY <1>1, <1>3, <1>5, FirstsInOrder
  <1>7. Interval(start, interruption, "interrupted") = "interrupted"
    BY <1>6 DEF Interval
  <1>8. ~Decided(decision, interruption)
    BY <1>4 DEF Decided
  <1> QED
    BY <1>3, <1>4, <1>7, <1>8 DEF ReviewTiming

LEMMA ReviewsAreTold ==
  ASSUME ReviewInv, HistoryFits, EndsAreFinal, WalkFits, ReportInv, NEW c \in 1..cycles
  PROVE  ReviewTiming(c) = TrueOutcome(c)
  <1>1. /\ cycles \in Nat /\ c \in Nat /\ c <= cycles /\ cycles > 0 /\ status \in Statuses
        /\ status # "funded"
        /\ status = "delivered" => Rejected = {}
    BY DEF ReviewInv, TypeOK, WalkFits, RowsFit
  <1>2. CASE WasDecided(c)
    <2>1. c < cycles \/ (c = cycles /\ status # "delivered" /\ (status # "refunded" \/ Rejected # {}))
      BY <1>1, <1>2 DEF WasDecided
    <2>2. TrueOutcome(c) = "sample"
      BY <1>1, <2>1 DEF TrueOutcome
    <2> QED
      BY <1>2, <2>2, DecidedReviews
  <1>3. CASE ~WasDecided(c)
    <2>1. c = cycles /\ Rejected = {} /\ (status = "delivered" \/ status = "refunded")
      BY <1>1, <1>3 DEF WasDecided, Statuses
    <2>2. CASE status = "delivered"
      <3>1. TrueOutcome(c) = "waiting"
        BY <1>1, <2>1, <2>2 DEF TrueOutcome
      <3> QED
        BY <2>1, <2>2, <3>1, OpenReviews
    <2>3. CASE status = "refunded"
      <3>1. TrueOutcome(c) = "interrupted"
        BY <1>1, <2>1, <2>3 DEF TrueOutcome
      <3> QED
        BY <1>1, <1>3, <2>1, <2>3, <3>1, InterruptedReviews
    <2> QED
      BY <2>1, <2>2, <2>3
  <1> QED
    BY <1>2, <1>3

\* A change request is answered once the version after the one it sends back is on record,
\* and until then nothing overtakes it.
LEMMA ChangesAreAnswered ==
  ASSUME ReviewInv, HistoryFits, ReportInv, NEW i \in Rows, trail[i].kind = "revision_requested"
  PROVE  ReplacementTiming(i) =
           IF trail[i].version < video[trail[i].video].version THEN "sample"
           ELSE IF status = "revision_requested" THEN "waiting" ELSE "excluded"
  <1> PICK v, n, now : v = trail[i].video /\ n = trail[i].version /\ now = video[v].version
    OBVIOUS
  <1> DEFINE replacement == { j \in OfVideo(v, {"submitted"}) : trail[j].version = n + 1 }
             overtaken == \E j \in Rows : /\ trail[j].video = v
                                          /\ \/ trail[j].version > n
                                             \/ trail[j].kind \in Decisions /\ j > i
  <1>1. ReplacementTiming(i) =
          CASE replacement # {} -> Interval({i}, replacement, "sample")
            [] replacement = {} ->
                 IF status = "revision_requested" /\ ~overtaken THEN "waiting" ELSE "excluded"
    BY DEF ReplacementTiming
  <1>2. /\ \A j \in Rows : j \in Nat /\ trail[j] \in history
        /\ \A e \in history : \E j \in Rows : trail[j] = e
    BY RowsAreNumbers DEF ReportInv, TrailTells
  <1>3. v \in Videos /\ v \in Slot /\ n \in Nat /\ now \in Nat /\ n <= now
    <2>1. trail[i] \in history /\ trail[i] \in Event
      BY <1>2 DEF ReviewInv, TypeOK
    <2>2. v \in Videos /\ n <= now /\ n \in Nat /\ v \in Slot
      BY <2>1 DEF HistoryFits, EvidenceIsPast, ReportInv, ChangesAreTold, Event
    <2> QED
      BY <2>2, SlotsAreVideos DEF ReviewInv
  <1>4. replacement \subseteq Rows /\ replacement \subseteq Nat
    BY <1>2 DEF OfVideo
  <1>5. CASE n < now
    <2>1. \E e \in history : e.video = v /\ e.kind = "submitted" /\ e.version = n + 1
      <3>1. n + 1 \in OnRecord(v, "submitted")
        BY <1>3, <1>5 DEF HistoryFits, VersionsOnRecord
      <3> QED
        BY <3>1 DEF OnRecord
    <2>2. replacement # {}
      BY <1>2, <2>1 DEF OfVideo
    <2>3. \A j \in replacement : i < j
      <3> SUFFICES ASSUME NEW j \in replacement PROVE i < j
        OBVIOUS
      <3>1. j \in Rows /\ trail[j].kind = "submitted" /\ trail[j].video = v /\ trail[j].version = n + 1
        BY DEF OfVideo
      <3>2. n < trail[j].version
        BY <1>3, <3>1
      <3> QED
        BY <3>1, <3>2 DEF ReportInv, ChangesComeFirst
    <2> HIDE DEF replacement
    <2>4. ~(Min(replacement) < Min({i}))
      <3>1. {i} \subseteq Nat /\ {i} # {} /\ \A k \in {i}, j \in replacement : k < j
        BY <1>2, <2>3
      <3> QED
        BY <1>4, <2>2, <3>1, FirstsInOrder
    <2>5. Interval({i}, replacement, "sample") = "sample"
      BY <2>4 DEF Interval
    <2> QED
      BY <1>1, <1>5, <2>2, <2>5
  <1>6. CASE n = now
    <2>1. ASSUME NEW j \in Rows, trail[j].video = v PROVE ~(trail[j].version > n)
      <3>1. trail[j] \in history /\ trail[j].version <= video[v].version
        BY <1>2, <2>1 DEF ReportInv, ChangesAreTold
      <3>2. trail[j].version \in Nat
        BY <3>1 DEF ReviewInv, TypeOK, Event
      <3> QED
        BY <1>3, <1>6, <3>1, <3>2
    <2>2. ASSUME NEW j \in Rows, trail[j].video = v, trail[j].kind \in Decisions PROVE ~(j > i)
      <3>1. j <= i
        BY <1>6, <2>2 DEF ReportInv, ChangesAreLast
      <3> QED
        BY <1>2, <3>1
    <2>3. replacement = {}
      <3> SUFFICES ASSUME NEW j \in replacement PROVE FALSE
        OBVIOUS
      <3>1. j \in Rows /\ trail[j].video = v /\ trail[j].version = n + 1
        BY DEF OfVideo
      <3> QED
        BY <1>3, <2>1, <3>1
    <2>4. ~overtaken
      BY <2>1, <2>2
    <2>5. ~(n < now)
      BY <1>3, <1>6
    <2> HIDE DEF replacement, overtaken
    <2> QED
      BY <1>1, <2>3, <2>4, <2>5
  <1> QED
    BY <1>3, <1>5, <1>6

\* The rows of a video show what is on record of it.
LEMMA RowsShowTheRecord ==
  ASSUME ReportInv, NEW v, NEW kind
  PROVE  { trail[i].version : i \in OfVideo(v, {kind}) } = OnRecord(v, kind)
  <1>1. /\ \A i \in Rows : trail[i] \in history
        /\ \A e \in history : \E i \in Rows : trail[i] = e
    BY DEF ReportInv, TrailTells
  <1>2. ASSUME NEW i \in OfVideo(v, {kind}) PROVE trail[i].version \in OnRecord(v, kind)
    BY <1>1 DEF OfVideo, OnRecord
  <1>3. ASSUME NEW n \in OnRecord(v, kind) PROVE \E i \in OfVideo(v, {kind}) : n = trail[i].version
    BY <1>1 DEF OfVideo, OnRecord
  <1> QED
    BY <1>2, <1>3

LEMMA CountTo ==
  ASSUME NEW n, n \in Nat
  PROVE  IsFiniteSet(1..n) /\ Cardinality(1..n) = n
  <1>1. ASSUME NEW m \in Nat
        PROVE  IsFiniteSet(1..m) /\ Cardinality(1..m) = IF 1 > m THEN 0 ELSE m - 1 + 1
    BY FS_Interval
  <1>2. IsFiniteSet(1..n) /\ Cardinality(1..n) = IF 1 > n THEN 0 ELSE n - 1 + 1
    BY <1>1
  <1>3. (IF 1 > n THEN 0 ELSE n - 1 + 1) = n
    OBVIOUS
  <1> QED
    BY <1>2, <1>3

LEMMA RecordIsWhole ==
  ASSUME ReviewInv, HistoryFits, ReportInv, NEW v \in Videos
  PROVE  FullyCaptured(v)
  <1> DEFINE versions(kinds) == { trail[i].version : i \in OfVideo(v, kinds) }
  <1> PICK now : now = video[v].version
    OBVIOUS
  <1>1. v \in Slot /\ now \in Nat /\ now > 0
    BY SlotsAreVideos DEF ReviewInv
  <1>2. versions({"submitted"}) = 1..now
    <2>1. OnRecord(v, "submitted") = 1..now
      BY DEF HistoryFits, VersionsOnRecord
    <2> QED
      BY <2>1, RowsShowTheRecord
  <1>3. now \in versions(Kind)
    <2>1. now \in versions({"submitted"})
      BY <1>1, <1>2
    <2> QED
      BY <2>1 DEF OfVideo, Kind
  <1>4. \A n \in versions(Kind) : n \in Nat /\ n <= now
    <2> SUFFICES ASSUME NEW i \in OfVideo(v, Kind) PROVE trail[i].version \in Nat /\ trail[i].version <= now
      OBVIOUS
    <2>1. trail[i] \in history /\ trail[i].video = v
      BY DEF OfVideo, ReportInv, TrailTells
    <2> QED
      BY <2>1 DEF ReportInv, ChangesAreTold, ReviewInv, TypeOK, Event
  <1>5. Cardinality(versions({"submitted"})) = now
    BY <1>1, <1>2, CountTo
  <1>d. FullyCaptured(v) = (/\ versions(Kind) # {}
                            /\ Cardinality(versions({"submitted"})) = Max(versions(Kind)))
    BY DEF FullyCaptured
  <1> HIDE DEF versions
  <1>6. Max(versions(Kind)) = now
    <2>1. \E x \in versions(Kind) : \A y \in versions(Kind) : x >= y
      BY <1>1, <1>3, <1>4
    <2>2. Max(versions(Kind)) \in versions(Kind) /\ \A y \in versions(Kind) : Max(versions(Kind)) >= y
      BY <2>1 DEF Max
    <2> PICK m : m = Max(versions(Kind))
      OBVIOUS
    <2>3. m \in Nat /\ m <= now /\ m >= now
      BY <1>3, <1>4, <2>2
    <2> QED
      BY <1>1, <2>3
  <1> QED
    BY <1>d, <1>3, <1>5, <1>6

\* The rounds of a video are the versions that were sent back.
LEMMA RoundsAreReplacements ==
  ASSUME ReviewInv, HistoryFits, ReportInv, NEW v \in Videos
  PROVE  Rounds(v) = video[v].version - (IF v \in Rejected THEN 0 ELSE 1)
  <1> PICK n, S : /\ n = video[v].version - (IF v \in Rejected THEN 0 ELSE 1)
                  /\ S = OfVideo(v, {"revision_requested"})
    OBVIOUS
  <1>1. v \in Slot /\ video[v].version \in Nat /\ video[v].version > 0 /\ n \in Nat
    BY SlotsAreVideos DEF ReviewInv
  <1>2. { trail[i].version : i \in S } = 1..n
    <2>1. OnRecord(v, "revision_requested") = 1..n
      BY <1>1 DEF HistoryFits, VersionsOnRecord, Rejected
    <2> QED
      BY <2>1, RowsShowTheRecord
  <1>3. ASSUME NEW i \in S, NEW j \in S, trail[i].version = trail[j].version PROVE i = j
    <2>1. /\ i \in Rows /\ trail[i].video = v /\ trail[i].kind = "revision_requested"
          /\ j \in Rows /\ trail[j].video = v /\ trail[j].kind = "revision_requested"
      BY DEF OfVideo
    <2>2. trail[i] \in history /\ trail[j] \in history
      BY <2>1 DEF ReportInv, TrailTells
    <2>3. trail[i] = trail[j]
      BY <1>3, <2>1, <2>2 DEF ReportInv, ChangesAreTold
    <2> QED
      BY <2>1, <2>3 DEF ReportInv, TrailTells
  <1> DEFINE sentBack == [i \in S |-> trail[i].version]
  <1>4. sentBack \in Injection(S, 1..n)
    <2>1. sentBack \in [S -> 1..n]
      BY <1>2
    <2> QED
      BY <1>3, <2>1 DEF Injection, IsInjective
  <1>5. sentBack \in Surjection(S, 1..n)
    BY <1>2, <1>4 DEF Surjection, Injection
  <1> HIDE DEF sentBack
  <1>6. IsFiniteSet(1..n) /\ Cardinality(1..n) = n
    BY <1>1, CountTo
  <1>7. Cardinality(S) = n
    BY <1>4, <1>5, <1>6, FS_Injection
  <1> QED
    BY <1>7 DEF Rounds

LEMMA VideosAreCaptured ==
  ASSUME ReviewInv, HistoryFits, EndsAreFinal, ReportInv, NEW v \in Videos
  PROVE  /\ FullyCaptured(v)
         /\ Rounds(v) = video[v].version - (IF v \in Rejected THEN 0 ELSE 1)
         /\ WithoutRevision(v) => video[v].version = 1 /\ status = "completed"
  <1>1. FullyCaptured(v)
    BY RecordIsWhole
  <1>2. Rounds(v) = video[v].version - (IF v \in Rejected THEN 0 ELSE 1)
    BY RoundsAreReplacements
  <1>3. ASSUME WithoutRevision(v) PROVE video[v].version = 1 /\ status = "completed"
    <2>1. OfVideo(v, {"batch_approved"}) # {} /\ Rounds(v) = 0
      BY <1>3 DEF WithoutRevision, Approved
    <2>2. \E e \in history : e.kind = "batch_approved"
      BY <2>1 DEF OfVideo, ReportInv, TrailTells
    <2>3. status = "completed"
      BY <2>2 DEF EndsAreFinal
    <2>4. v \notin Rejected
      BY <2>3 DEF ReviewInv, RowsFit
    <2>5. video[v].version \in Nat
      BY SlotsAreVideos DEF ReviewInv
    <2> QED
      BY <1>2, <2>1, <2>3, <2>4, <2>5
  <1> QED
    BY <1>1, <1>2, <1>3

\* The first delivery is the first review, and is told as it went.
LEMMA FirstDeliveryIsTold ==
  ASSUME WalkFits, cycles \in Nat
  PROVE  FirstDelivery = IF cycles > 0 THEN "sample"
                         ELSE IF status = "funded" THEN "waiting" ELSE "excluded"
  <1>1. Ever({"delivered"}) <=> cycles > 0
    BY DEF WalkFits, Past, Ever
  <1> QED
    BY <1>1 DEF FirstDelivery

\* What the report counts among the revised and among the reviewed.
LEMMA RevisedAndReviewed ==
  ASSUME ReviewInv, HistoryFits, WalkFits, ReportInv
  PROVE  /\ Revised <=> \E v \in Videos : video[v].version > 1 \/ v \in Rejected
         /\ Reviewed <=> cycles > 0
  <1>1. /\ Videos \subseteq Slot /\ cycles \in Nat
        /\ \A v \in Videos : video[v].version \in Nat /\ video[v].version > 0
    BY SlotsAreVideos DEF ReviewInv, TypeOK
  <1>2. \A v \in Videos : Rounds(v) = video[v].version - (IF v \in Rejected THEN 0 ELSE 1)
    BY RoundsAreReplacements
  <1>3. /\ \A i \in Rows : trail[i] \in history
        /\ \A e \in history : \E i \in Rows : trail[i] = e
    BY DEF ReportInv, TrailTells
  <1>4. \A e \in history : /\ e.video \in Videos /\ e.cycle \in Nat /\ e.cycle <= cycles
                           /\ e.kind = "review_ready" \/ e.kind \in Endings => e.cycle > 0
    BY DEF HistoryFits, EvidenceIsPast, ReviewInv, TypeOK, Event, ReportInv, ChangesAreTold
  <1>5. Ever({"revision_requested"}) <=> "revision_requested" \in Past
    BY DEF Ever, Past
  <1>6. ASSUME NEW e \in history, e.kind = "revision_requested"
        PROVE  e.video \in Videos /\ Rounds(e.video) > 0
    <2> PICK v, n : v = e.video /\ n = video[v].version - (IF v \in Rejected THEN 0 ELSE 1)
      OBVIOUS
    <2>1. v \in Videos /\ n \in Nat /\ Rounds(v) = n
      BY <1>1, <1>2, <1>4
    <2>2. e.version \in OnRecord(v, "revision_requested")
      BY <1>6 DEF OnRecord
    <2>3. OnRecord(v, "revision_requested") = 1..n
      BY <1>1, <2>1 DEF HistoryFits, VersionsOnRecord, Rejected
    <2>4. n > 0
      BY <2>1, <2>2, <2>3
    <2> QED
      BY <2>1, <2>4
  <1>7. ASSUME NEW v \in Slot, Rounds(v) > 0
        PROVE  v \in Videos /\ \E e \in history : e.kind = "revision_requested" /\ e.video = v
    <2>1. OfVideo(v, {"revision_requested"}) # {}
      <3>1. ASSUME OfVideo(v, {"revision_requested"}) = {} PROVE Rounds(v) = 0
        BY <3>1, FS_EmptySet DEF Rounds
      <3> QED
        BY <1>7, <3>1
    <2>2. \E e \in history : e.kind = "revision_requested" /\ e.video = v
      BY <1>3, <2>1 DEF OfVideo
    <2> QED
      BY <1>4, <2>2
  <1>8. Revised <=> \E v \in Videos : Rounds(v) > 0
    <2>1. Revised => \E v \in Videos : Rounds(v) > 0
      <3>1. ASSUME Ever({"revision_requested"}) PROVE \E v \in Videos : Rounds(v) > 0
        <4>1. \E e \in history : e.kind = "revision_requested"
          BY <1>5, <3>1 DEF ReportInv, ChangesAreTold
        <4> QED
          BY <1>6, <4>1
      <3> QED
        BY <1>7, <3>1 DEF Revised
    <2> QED
      BY <1>1, <2>1 DEF Revised
  <1>9. \A v \in Videos : Rounds(v) > 0 <=> video[v].version > 1 \/ v \in Rejected
    <2> SUFFICES ASSUME NEW v \in Videos
                 PROVE  Rounds(v) > 0 <=> video[v].version > 1 \/ v \in Rejected
      OBVIOUS
    <2> PICK k : k = video[v].version
      OBVIOUS
    <2>1. k \in Nat /\ k > 0 /\ Rounds(v) = k - (IF v \in Rejected THEN 0 ELSE 1)
      BY <1>1, <1>2
    <2> QED
      BY <2>1
  <1>10. cycles > 0 => Reviewed
    BY DEF Reviewed, Ever, WalkFits, Past
  <1>11. ASSUME Reviewed PROVE cycles > 0
    <2>1. CASE Revised
      <3>1. \E e \in history : e.kind = "revision_requested"
        BY <1>1, <1>7, <1>8, <2>1
      <3> QED
        BY <1>1, <1>4, <3>1 DEF Endings
    <2>2. CASE Ever({"delivered", "revision_requested", "completed"})
      BY <2>2 DEF Ever, WalkFits, Past
    <2>3. CASE \E i \in Rows : trail[i].kind \in Decisions \cup {"review_ready"}
      <3>1. \E e \in history : e.kind \in Endings \/ e.kind = "review_ready"
        BY <1>3, <2>3 DEF Decisions, Endings
      <3> QED
        BY <1>1, <1>4, <3>1
    <2> QED
      BY <1>11, <2>1, <2>2, <2>3 DEF Reviewed
  <1> QED
    BY <1>8, <1>9, <1>10, <1>11

LEMMA ReportIsRight ==
  ASSUME ReviewInv, HistoryFits, EndsAreFinal, WalkFits, ReportInv
  PROVE  TheReportAddsUp
  <1>1. cycles \in Nat
    BY DEF ReviewInv, TypeOK
  <1>2. FirstDelivery = IF cycles > 0 THEN "sample"
                        ELSE IF status = "funded" THEN "waiting" ELSE "excluded"
    BY <1>1, FirstDeliveryIsTold
  <1>3. \A c \in 1..cycles : ReviewTiming(c) = TrueOutcome(c)
    BY ReviewsAreTold
  <1>4. \A i \in { j \in Rows : trail[j].kind = "revision_requested" } :
          ReplacementTiming(i) =
            IF trail[i].version < video[trail[i].video].version THEN "sample"
            ELSE IF status = "revision_requested" THEN "waiting" ELSE "excluded"
    BY ChangesAreAnswered
  <1>5. \A v \in Videos :
          /\ FullyCaptured(v)
          /\ Rounds(v) = video[v].version - (IF v \in Rejected THEN 0 ELSE 1)
          /\ WithoutRevision(v) => video[v].version = 1 /\ status = "completed"
    BY VideosAreCaptured
  <1>6. /\ Revised <=> \E v \in Videos : video[v].version > 1 \/ v \in Rejected
        /\ Reviewed <=> cycles > 0
    BY RevisedAndReviewed
  <1> QED
    BY <1>2, <1>3, <1>4, <1>5, <1>6 DEF TheReportAddsUp

LEMMA ReportInvInit == HistoryInit => ReportInv
  <1> SUFFICES ASSUME HistoryInit PROVE ReportInv
    OBVIOUS
  <1>1. Init /\ trail = << >> /\ walk = << "pending", "accepted", "funded" >>
    BY DEF HistoryInit
  <1>2. trail \in Seq(Event) /\ Rows = {} /\ history = {} /\ cycles = 0
    BY <1>1 DEF Rows, Init
  <1>3. "revision_requested" \notin Past
    <2>1. DOMAIN walk = 1..3 /\ walk[1] = "pending" /\ walk[2] = "accepted" /\ walk[3] = "funded"
      BY <1>1
    <2>2. 1..3 = {1, 2, 3}
      OBVIOUS
    <2> QED
      BY <2>1, <2>2 DEF Past
  <1>4. TrailTells
    BY <1>2 DEF TrailTells
  <1>5. ReviewsInTurn /\ ReviewsComeFirst /\ DecisionsComeFirst /\ ChangesComeFirst /\ ChangesAreLast
    BY <1>2 DEF ReviewsInTurn, ReviewsComeFirst, DecisionsComeFirst, ChangesComeFirst, ChangesAreLast
  <1>6. CyclesAreTold /\ ChangesAreTold
    BY <1>2, <1>3 DEF CyclesAreTold, ChangesAreTold
  <1> QED
    BY <1>4, <1>5, <1>6 DEF ReportInv

\* The report adds up (insight-history.ts), for any number of videos, forms and pages: in
\* whatever order videos are submitted, sent back, approved and refunded, every review,
\* every change request and the first delivery is counted once, under what became of it.
THEOREM TheReportIsRight == HistorySpec => []TheReportAddsUp
  <1>1. HistoryInit => ReviewInv /\ EndsAreFinal /\ WalkFits /\ ReportInv
    <2> SUFFICES ASSUME HistoryInit PROVE EndsAreFinal
      BY ReportInvInit, PagesInvInit DEF PagesInv
    <2>1. history = {} /\ status = "funded"
      BY DEF HistoryInit, Init
    <2> QED
      BY <2>1 DEF EndsAreFinal
  <1>2. ReviewInv /\ ReviewInv' /\ EndsAreFinal /\ WalkFits /\ [HistoryNext]_historyVars
          => EndsAreFinal' /\ WalkFits'
    BY HistoryKeepsPages, NextKeepsEnds DEF HistoryNext, historyVars
  <1>3. ReviewInv /\ ReviewInv' /\ HistoryFits /\ HistoryFits' /\ EndsAreFinal /\ EndsAreFinal'
          /\ WalkFits /\ WalkFits' /\ ReportInv /\ [HistoryNext]_historyVars => ReportInv'
    BY RecordKeepsReport
  <1>4. ReviewInv /\ HistoryFits /\ EndsAreFinal /\ WalkFits /\ ReportInv => TheReportAddsUp
    BY ReportIsRight
  <1> QED
    BY <1>1, <1>2, <1>3, <1>4, SpecInv, SpecHistory, HistoryIsReview, PTL DEF HistorySpec
=============================================================================
