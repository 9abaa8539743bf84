------------------------------ MODULE CreatorTiers ------------------------------
(***************************************************************************)
(* The tier of one creator: create-profile.ts, refresh-stats.ts with its   *)
(* button and its job, and the three admin routes that assign a tier,      *)
(* correct the numbers it is chosen by, and dismiss a review.              *)
(*                                                                         *)
(* A refresh reads the profile, asks TikTok, and writes without looking    *)
(* again; the admin routes lock the row.  An admin's notice is a write of  *)
(* its own behind the decision.  Creators share no row, so one is enough.  *)
(***************************************************************************)
EXTENDS Integers, TierRules

CONSTANT Worker   \* requests that may run at the same time

VARIABLES
  profile,  \* the creator_profile row: exists, linked to TikTok, numbers, tier, review, stamp
  told,     \* the tier behind the last notice of one
  run,      \* what each request is doing
  mishap    \* a notice was lost, or came after that of a later decision

vars == << profile, told, run, mishap >>

----------------------------------------------------------------------------
\* assignTier: no match leaves the tier alone.
Assigned(n, tier) == IF SelectTier(n) = NoTier THEN tier ELSE SelectTier(n)

----------------------------------------------------------------------------
\* How long ago the numbers were pulled from TikTok
Stamp == { "never", "today", "day", "week" }

Idle == [pc |-> "idle", tier |-> NoTier]

Unread == [followers |-> Missing, engagement |-> Missing]

Init ==
  /\ profile = [exists |-> FALSE, linked |-> FALSE, numbers |-> Unread,
                tier |-> NoTier, review |-> FALSE, stamp |-> "never"]
  /\ told = NoTier
  /\ run = [w \in Worker |-> Idle]
  /\ mishap = FALSE

\* createCreatorProfile: one insert, whose unique constraints refuse the second of two.  A
\* linked creator's numbers are what TikTok answered (pulled), another's are typed in.
CreateProfile(n, linked, pulled) ==
  /\ ~profile.exists
  /\ pulled => linked
  /\ (linked /\ ~pulled) => n = Unread
  /\ profile' = [exists |-> TRUE, linked |-> linked, numbers |-> n, tier |-> Assigned(n, NoTier),
                 review |-> FALSE, stamp |-> IF pulled THEN "today" ELSE "never"]
  /\ told' = Assigned(n, NoTier)
  /\ UNCHANGED << run, mishap >>

GrowOld ==
  /\ \/ profile.stamp = "today" /\ profile' = [profile EXCEPT !.stamp = "day"]
     \/ profile.stamp = "day" /\ profile' = [profile EXCEPT !.stamp = "week"]
  /\ UNCHANGED << told, run, mishap >>

----------------------------------------------------------------------------
\* A refresh

\* listDue: stale by REFRESH_STALE_MS when the job's list is read
ListDue(w) ==
  /\ run[w] = Idle
  /\ profile.exists /\ profile.linked
  /\ profile.stamp \in {"never", "week"}
  /\ run' = [run EXCEPT ![w].pc = "listed"]
  /\ UNCHANGED << profile, told, mishap >>

\* loadProfile, before TikTok is asked: the button waits REFRESH_MIN_INTERVAL_MS, the job
\* does not look at the stamp again.
StartRefresh(w) ==
  /\ profile.exists /\ profile.linked
  /\ run[w].pc = "listed" \/ (run[w] = Idle /\ profile.stamp # "today")
  /\ run' = [run EXCEPT ![w] = [pc |-> "refresh", tier |-> profile.tier]]
  /\ UNCHANGED << profile, told, mishap >>

\* TikTok does not answer: nothing is stamped.
FetchFails(w) ==
  /\ run[w].pc = "refresh"
  /\ run' = [run EXCEPT ![w] = Idle]
  /\ UNCHANGED << profile, told, mishap >>

\* Mutant: any other tier is assigned.
IsAnother(new, old) == new # NoTier /\ new # old

\* isHigher: against the tier that was loaded
IsUpgrade(new, old) == new # NoTier /\ new # old /\ (old = NoTier \/ Higher(new, old))

\* An earlier notice may still be on its way when this decision is announced.
Overtaken(w) == \E v \in Worker \ {w} : run[v].pc = "notify"

\* One transaction: the numbers, the flag, the upgrade and its notice.
SaveRefresh(w, n) ==
  LET old == run[w].tier
      new == SelectTier(n)
      up == IsUpgrade(new, old) IN
  /\ run[w].pc = "refresh"
  /\ profile' = [profile EXCEPT !.numbers = n, !.stamp = "today",
                                !.review = ~up /\ old # NoTier /\ new # old,
                                !.tier = IF up THEN new ELSE @]
  /\ told' = IF up THEN new ELSE told
  /\ mishap' = (mishap \/ (up /\ Overtaken(w)))
  /\ run' = [run EXCEPT ![w] = Idle]

----------------------------------------------------------------------------
\* The admin's decisions, on the locked row

\* The decision is announced behind its transaction, if it changed the tier.
Decide(w, next) ==
  /\ run[w] = Idle
  /\ profile' = next
  /\ run' = IF next.tier = profile.tier THEN run
            ELSE [run EXCEPT ![w] = [pc |-> "notify", tier |-> next.tier]]
  /\ mishap' = (mishap \/ (next.tier # profile.tier /\ Overtaken(w)))
  /\ UNCHANGED told

\* handleAssignTier
AssignTier(w) ==
  /\ profile.exists
  /\ Decide(w, [profile EXCEPT !.tier = Assigned(profile.numbers, @), !.review = FALSE])

\* An omitted field keeps its stored value.
Merged(n) ==
  [followers |-> IF n.followers = Missing THEN profile.numbers.followers ELSE n.followers,
   engagement |-> IF n.engagement = Missing THEN profile.numbers.engagement ELSE n.engagement]

\* handleUpdateCreatorNumbers: the flag stays as it is.
EditNumbers(w, n) ==
  /\ profile.exists
  /\ n.followers # Missing \/ n.engagement # Missing
  /\ Decide(w, [profile EXCEPT !.numbers = Merged(n), !.tier = Assigned(Merged(n), @)])

\* handleDismissReview
DismissReview(w) ==
  /\ profile.review
  /\ Decide(w, [profile EXCEPT !.review = FALSE])

\* Mutant: a decision is announced only to those who had no tier yet.
FirstTierOnly(w) == IF told = NoTier THEN run[w].tier ELSE told

Announced(w) == run[w].tier

Notify(w) ==
  /\ run[w].pc = "notify"
  /\ told' = Announced(w)
  /\ run' = [run EXCEPT ![w] = Idle]
  /\ UNCHANGED << profile, mishap >>

\* The notice is not written: logged, and the decision stands.
NotifyFails(w) ==
  /\ run[w].pc = "notify"
  /\ mishap' = TRUE
  /\ run' = [run EXCEPT ![w] = Idle]
  /\ UNCHANGED << profile, told >>

----------------------------------------------------------------------------
Next ==
  \/ GrowOld
  \/ \E n \in Numbers, linked, pulled \in BOOLEAN : CreateProfile(n, linked, pulled)
  \/ \E w \in Worker :
       \/ ListDue(w) \/ StartRefresh(w) \/ FetchFails(w)
       \/ AssignTier(w) \/ DismissReview(w) \/ Notify(w) \/ NotifyFails(w)
       \/ \E n \in Numbers : SaveRefresh(w, n) \/ EditNumbers(w, n)

Spec == Init /\ [][Next]_vars

----------------------------------------------------------------------------
\* Properties

TypeOK ==
  /\ profile.tier \in Tier \cup {NoTier}
  /\ profile.review \in BOOLEAN /\ profile.exists \in BOOLEAN
  /\ profile.stamp \in Stamp
  /\ told \in Tier \cup {NoTier}
  /\ run \in [Worker -> [pc : {"idle", "listed", "refresh", "notify"}, tier : Tier \cup {NoTier}]]
  /\ mishap \in BOOLEAN

\* "Downgrades only flag" (refresh-stats.ts): a creator who has a tier keeps one for good,
\* and a refresh lowers it only if it judged by a tier that was changed meanwhile.
NoRefreshLowersATier ==
  [][profile.tier # NoTier =>
       /\ profile'.tier # NoTier
       /\ \A w \in Worker :
            run[w].pc = "refresh" /\ run[w].tier = profile.tier /\ run'[w] = Idle =>
              ~Higher(profile.tier, profile'.tier)]_vars

\* Once all is announced, the tier a creator was last told of is the one brands are priced
\* by, unless a notice was lost or an earlier one came late.
ToldTheTier ==
  mishap \/ (\E w \in Worker : run[w].pc = "notify") \/ told = profile.tier
=============================================================================
