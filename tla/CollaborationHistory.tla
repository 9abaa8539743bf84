-------------------------- MODULE CollaborationHistory --------------------------
(***************************************************************************)
(* What the insight screens tell of a deal's past: insight-history.ts      *)
(* reads the deal's status events and its videos' evidence, in the order   *)
(* they were written, and sorts every review, every change request and the *)
(* first delivery into answered, awaited, interrupted and excluded.        *)
(*                                                                         *)
(* The evidence is that of DeliverableReview, here with its order.  Times  *)
(* are left out: a later row is never stamped earlier than an older one.   *)
(***************************************************************************)
EXTENDS DeliverableReview, Sequences, SequencesExt, FiniteSetsExt

VARIABLES
  trail,   \* deliverable_event rows by seq
  walk     \* what the deal_event rows lead to, oldest first

historyVars == << vars, trail, walk >>

----------------------------------------------------------------------------
\* In what order one transaction writes its evidence: the target of a rejection before its
\* siblings, the interruptions of a refund before the refund, a video before the review it
\* completes.
KindRank(kind) ==
  CASE kind = "superseded"         -> 1
    [] kind = "submitted"          -> 2
    [] kind = "review_ready"       -> 3
    [] kind = "revision_requested" -> 4
    [] kind = "review_interrupted" -> 5
    [] kind \in {"batch_approved", "admin_release", "refunded"} -> 6

WrittenBefore(e, f) ==
  \/ KindRank(e.kind) < KindRank(f.kind)
  \/ e.kind = f.kind /\ e.video < f.video

\* The rows of one transaction, in the order it writes them.
InOrder(events) ==
  CHOOSE rows \in [1..Cardinality(events) -> events] :
    \A i, j \in DOMAIN rows : i < j => WrittenBefore(rows[i], rows[j])

HistoryInit ==
  /\ Init
  /\ trail = << >>
  /\ walk = << "pending", "accepted", "funded" >>

Record ==
  /\ trail' = trail \o InOrder(history' \ history)
  /\ walk'  = IF status' = status THEN walk ELSE Append(walk, status')

HistoryNext == Next /\ Record

HistorySpec == HistoryInit /\ [][HistoryNext]_historyVars

----------------------------------------------------------------------------
\* The report

Decisions == { "revision_requested", "batch_approved", "admin_release" }

Rows == DOMAIN trail

OfVideo(v, kinds) == { i \in Rows : trail[i].video = v /\ trail[i].kind \in kinds }

OfCycle(c, kinds) == { i \in Rows : trail[i].cycle = c /\ trail[i].kind \in kinds }

\* ever
Ever(statuses) == \E i \in DOMAIN walk : walk[i] \in statuses

\* firstDelivery, of a deal that was funded
FirstDelivery ==
  CASE Ever({"delivered"})                          -> "sample"
    [] ~Ever({"delivered"}) /\ status = "funded"    -> "waiting"
    [] ~Ever({"delivered"}) /\ status # "funded"    -> "excluded"

\* An interval is dropped when its end is on record before its start.
Interval(start, end, kind) == IF Min(end) < Min(start) THEN "excluded" ELSE kind

\* Mutant: an interruption in the same review outweighs the decision.
NeverInterrupted(decision, interruption) == decision # {} /\ interruption = {}

\* The interruptions of its siblings follow a decision and do not erase it.
Decided(decision, interruption) ==
  decision # {} /\ (interruption = {} \/ Min(decision) < Min(interruption))

IsLatestReview(start) ==
  ~\E i \in Rows : trail[i].kind = "review_ready" /\ trail[i].cycle # trail[Min(start)].cycle
                   /\ i > Min(start)

\* reviewTiming, of one review cycle of the deal
ReviewTiming(c) ==
  LET start        == OfCycle(c, {"review_ready"})
      decision     == OfCycle(c, Decisions)
      interruption == OfCycle(c, {"review_interrupted"})
      decided      == Decided(decision, interruption)
  IN CASE start = {}                           -> "excluded"
       [] start # {} /\ decided                -> Interval(start, decision, "sample")
       [] start # {} /\ ~decided /\ interruption # {} ->
            Interval(start, interruption, "interrupted")
       [] start # {} /\ decision \cup interruption = {} ->
            IF status = "delivered" /\ IsLatestReview(start) THEN "waiting" ELSE "excluded"

\* replacementTiming, of one change request
ReplacementTiming(i) ==
  LET v == trail[i].video
      version == trail[i].version
      replacement == { j \in OfVideo(v, {"submitted"}) : trail[j].version = version + 1 }
      overtaken == \E j \in Rows : /\ trail[j].video = v
                                   /\ \/ trail[j].version > version
                                      \/ trail[j].kind \in Decisions /\ j > i
  IN CASE replacement # {} -> Interval({i}, replacement, "sample")
       [] replacement = {} ->
            IF status = "revision_requested" /\ ~overtaken THEN "waiting" ELSE "excluded"

\* fullyCaptured
FullyCaptured(v) ==
  LET versions(kinds) == { trail[i].version : i \in OfVideo(v, kinds) } IN
    /\ versions(Kind) # {}
    /\ Cardinality(versions({"submitted"})) = Max(versions(Kind))

Rounds(v) == Cardinality(OfVideo(v, {"revision_requested"}))

Revised == Ever({"revision_requested"}) \/ \E v \in Slot : Rounds(v) > 0

Reviewed ==
  \/ Revised \/ Ever({"delivered", "revision_requested", "completed"})
  \/ \E i \in Rows : trail[i].kind \in Decisions \cup {"review_ready"}

\* Counted among the videos the brand approved, and there without a change
Approved(v) == FullyCaptured(v) /\ OfVideo(v, {"batch_approved"}) # {}
                                /\ OfVideo(v, {"admin_release"}) = {}
WithoutRevision(v) == Approved(v) /\ Rounds(v) = 0

----------------------------------------------------------------------------
\* Properties

\* What became of a review, told from the rows as they are now: only the last one can be
\* waiting, and only a refund interrupts one.
TrueOutcome(c) ==
  CASE c < cycles -> "sample"
    [] c = cycles -> CASE status = "delivered" -> "waiting"
                       [] status = "refunded" /\ Rejected = {} -> "interrupted"
                       [] status \notin {"delivered", "refunded"} \/ Rejected # {} -> "sample"

\* The report adds up (insight-history.ts): whatever the order of submissions, revisions,
\* approvals and refunds, every review, every change request and the first delivery is
\* counted once, under what really became of it; every video's record is whole, and the
\* rounds are the replacements the row has been through.
TheReportAddsUp ==
  /\ FirstDelivery = IF cycles > 0 THEN "sample"
                     ELSE IF status = "funded" THEN "waiting" ELSE "excluded"
  /\ \A c \in 1..cycles : ReviewTiming(c) = TrueOutcome(c)
  /\ \A i \in { j \in Rows : trail[j].kind = "revision_requested" } :
       ReplacementTiming(i) =
         IF trail[i].version < video[trail[i].video].version THEN "sample"
         ELSE IF status = "revision_requested" THEN "waiting" ELSE "excluded"
  /\ \A v \in Videos :
       /\ FullyCaptured(v)
       /\ Rounds(v) = video[v].version - (IF v \in Rejected THEN 0 ELSE 1)
       /\ WithoutRevision(v) => video[v].version = 1 /\ status = "completed"
  /\ Revised <=> \E v \in Videos : video[v].version > 1 \/ v \in Rejected
  /\ Reviewed <=> cycles > 0
=============================================================================
