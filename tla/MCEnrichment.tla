------------------------------ MODULE MCEnrichment ------------------------------
(***************************************************************************)
(* What happens around the deals, on a small instance.  The five machines  *)
(* of Enrichment share no row, so a behaviour is one of them, and the      *)
(* others stand still: the state space is the sum and not the product.     *)
(***************************************************************************)
EXTENDS Enrichment, TLC

CONSTANTS p1, p2, x, y, k1, k2, c1, c2, v1, v2, v3

----------------------------------------------------------------------------
NumberOf(f, e) == [followers |-> f, engagement |-> e]
TierOf(f, e, price) == [followers |-> f, engagement |-> e, price |-> price, active |-> TRUE]

\* Two steps of a ladder, the upper one with an engagement floor, and a dear one of its height
\* that is closed.
Ladder == { TierOf(1, NoFloor, 1), TierOf(2, 1, 2), [TierOf(2, NoFloor, 3) EXCEPT !.active = FALSE] }

\* None at all, below the ladder, on either step, and high without engagement
SomeNumbers ==
  { NumberOf(Missing, Missing), NumberOf(0, 1), NumberOf(1, 1), NumberOf(2, 1), NumberOf(2, 0) }

----------------------------------------------------------------------------
CountsOf(v, l, o) == [views |-> v, likes |-> l, comments |-> o, shares |-> o]
VideoOf(id, link, counts) == [id |-> id, link |-> link, counts |-> counts]

\* Not submitted; measured; the same post by its link alone, half measured; without any
\* success; and one whose link tells no post
SomeVideos ==
  { Null,
    VideoOf(p1, p1, CountsOf(1, 1, 1)), VideoOf(NoPost, p1, CountsOf(2, Null, 1)),
    VideoOf(p2, p2, CountsOf(0, 0, 0)), VideoOf(NoPost, NoPost, CountsOf(Null, 2, 0)) }

RowOf(k, c, s, vs) ==
  [campaign |-> k, creator |-> c, status |-> s, price |-> IF c = x THEN 2 ELSE 3, videos |-> vs]

\* Two campaigns, two creators, one video, or two in a completed deal
SomeRows ==
  LET Statuses == {"completed", "delivered", "refunded"} IN
  { RowOf(k, c, s, <<v>>) : k \in {k1, k2}, c \in {x, y}, s \in Statuses, v \in SomeVideos }
    \cup { RowOf(k, c, "completed", <<v, w>>) :
             k \in {k1, k2}, c \in {x, y}, v \in SomeVideos, w \in SomeVideos }

----------------------------------------------------------------------------
\* Three videos await their numbers, two of them one creator's.
MCOverdue == << v1, v2, v3 >>
MCOwner == [v \in {v1, v2, v3} |-> IF v = v1 THEN c1 ELSE c2]
MCJobs == << "expire-offers", "metric-reminders" >>

----------------------------------------------------------------------------
tierVars   == << profile, told, run, missed >>
emailVars  == << email, handle, codes, inbox, minted, call >>
remindVars == << measured, muted, mailed, served, cron, faults, uncertain >>
allVars    == << vars, tierVars, emailVars, remindVars, books >>

All == Init /\ T!Init /\ A!Init /\ R!Init /\ I!Init

CoverAtStart   == Init /\ UNCHANGED vars
TierAtStart    == T!Init /\ UNCHANGED tierVars
AccountAtStart == A!Init /\ UNCHANGED emailVars
CronAtStart    == R!Init /\ UNCHANGED remindVars
BooksAtStart   == I!Init /\ UNCHANGED books

NextOfOne ==
  \/ TierAtStart  /\ AccountAtStart /\ CronAtStart    /\ BooksAtStart /\ Next
  \/ CoverAtStart /\ AccountAtStart /\ CronAtStart    /\ BooksAtStart /\ T!Next
  \/ CoverAtStart /\ TierAtStart    /\ CronAtStart    /\ BooksAtStart /\ A!Next
  \/ CoverAtStart /\ TierAtStart    /\ AccountAtStart /\ BooksAtStart /\ R!Next
  \/ CoverAtStart /\ TierAtStart    /\ AccountAtStart /\ CronAtStart  /\ I!Next

EnrichmentSpec == All /\ [][NextOfOne]_allVars

Symmetries == Permutations(Task) \cup Permutations(Blob)
=============================================================================
