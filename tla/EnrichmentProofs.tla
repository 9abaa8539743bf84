---------------------------- MODULE EnrichmentProofs ----------------------------
(***************************************************************************)
(* What holds of the machines around the deals, each for itself:           *)
(* - no row is left with a deleted image and no image without a row, for   *)
(*   any number of runs and resubmissions;                                 *)
(* - a creator was last told the tier of the profile, and no refresh       *)
(*   lowers it;                                                            *)
(* - the address on an account is one its owner reads;                     *)
(* - a creator gets one reminder an interval, and none is believed sent    *)
(*   that was not;                                                         *)
(* - groups of deals share out the figures of the whole, and no post       *)
(*   counts twice.                                                         *)
(***************************************************************************)
EXTENDS Enrichment, SumFacts

----------------------------------------------------------------------------
\* Covers
\*
\* A deletion is two calls, the look at the row and the deletion, and what keeps the row from
\* being pointed at the image in between is that a URL is saved by its own run only, and only
\* once (Unspent): an image that is about to be deleted has had its chance.  And until
\* something fails, an image that is not the current one has a run that minds it (Minded).

Known == used \cup {NoBlob}

\* Every URL the runs and the row know of was handed out.
URLsAreKnown ==
  /\ store \subseteq used
  /\ used \subseteq Blob
  /\ thumb \in Known
  /\ \A t \in Task : {task[t].owned, task[t].previous, task[t].doomed} \subseteq Known
  /\ \A s \in late : s.owned \in used

\* A copy that is still to be saved is in the store, and known to its own run alone.
Unspent(t) ==
  task[t].pc = "save" =>
    /\ task[t].owned \in store
    /\ task[t].owned # thumb
    /\ \A u \in Task : task[u].doomed # task[t].owned /\ task[u].previous # task[t].owned
    /\ \A u \in Task \ {t} : task[u].owned # task[t].owned
    /\ \A s \in late : s.owned # task[t].owned

\* What was looked up is still true when the image is deleted.
LookedUp(t) ==
  task[t].pc \in {"cleanup", "delete"} =>
    /\ task[t].doomed # NoBlob
    /\ task[t].pc = "delete" /\ "late" \notin mishap => task[t].doomed # thumb

CoverInv ==
  /\ TypeOK
  /\ URLsAreKnown
  /\ \A t \in Task : Unspent(t) /\ LookedUp(t)
  /\ NoBrokenImage

----------------------------------------------------------------------------
\* Nothing is copied yet.
LEMMA CoverInit == Init => CoverInv
BY NoBlobIsNoBlob
   DEF Init, CoverInv, TypeOK, Pointer, Run, Save, NotStarted, URLsAreKnown, Known,
       Unspent, LookedUp, NoBrokenImage

\* What is common to the steps after which a run goes on with a clean-up or without one.
LEMMA CleanUpRun ==
  ASSUME NEW mine \in Run, NEW blob \in Pointer, NEW next \in {"load", "over"}
  PROVE  /\ CleanUp(mine, blob, next) \in Run
         /\ CleanUp(mine, blob, next).pc \in {"cleanup", next}
         /\ CleanUp(mine, blob, next).pc = "cleanup" => blob # NoBlob
                                                  /\ CleanUp(mine, blob, next).doomed = blob
         /\ CleanUp(mine, blob, next).doomed \in {blob, mine.doomed}
         /\ CleanUp(mine, blob, next).owned = mine.owned
         /\ CleanUp(mine, blob, next).previous = mine.previous
BY DEF CleanUp, Run

----------------------------------------------------------------------------
\* No step of a run or a resubmission breaks it.
LEMMA CoverStep == CoverInv /\ [Next]_vars => CoverInv'
<1> SUFFICES ASSUME CoverInv, [Next]_vars PROVE CoverInv'
  OBVIOUS
<1> USE NoBlobIsNoBlob DEF CoverInv
<1>1. ASSUME NEW t \in Task, NEW v \in 1..MaxVersion, Schedule(t, v) PROVE CoverInv'
  <2> DEFINE fresh == [NotStarted EXCEPT !.want = v]
             mine == CleanUp(fresh, NoBlob, "load")
  <2>0. fresh \in Run /\ fresh.owned = NoBlob /\ fresh.previous = NoBlob /\ fresh.doomed = NoBlob
    BY <1>1 DEF Schedule, TypeOK, NotStarted, Run, Pointer
  <2> HIDE DEF fresh
  <2>1. mine \in Run /\ mine.pc = "load" /\ mine.owned = NoBlob /\ mine.previous = NoBlob
                    /\ mine.doomed = NoBlob
    BY <2>0, CleanUpRun DEF Pointer
  <2>2. task' = [task EXCEPT ![t] = mine] /\ UNCHANGED << version, thumb, store, used, late, mishap >>
    BY <1>1 DEF Schedule, fresh
  <2> HIDE DEF mine
  <2>3. TypeOK' /\ URLsAreKnown' /\ NoBrokenImage'
    BY <2>1, <2>2 DEF TypeOK, URLsAreKnown, Known, NoBrokenImage
  <2>4. \A u \in Task : Unspent(u)' /\ LookedUp(u)'
    BY <2>1, <2>2 DEF TypeOK, URLsAreKnown, Known, Unspent, LookedUp
  <2> QED BY <2>3, <2>4
<1>2. ASSUME NEW t \in Task, Resubmit(t) PROVE CoverInv'
  <2> DEFINE fresh == [NotStarted EXCEPT !.want = version']
             mine == CleanUp(fresh, thumb, "load")
  <2>1. /\ task' = [task EXCEPT ![t] = mine] /\ thumb' = NoBlob /\ version' = version + 1
        /\ UNCHANGED << store, used, late, mishap >>
    BY <1>2 DEF Resubmit
  <2>0. fresh \in Run /\ fresh.owned = NoBlob /\ fresh.previous = NoBlob /\ fresh.doomed = NoBlob
    BY <2>1 DEF TypeOK, NotStarted, Run, Pointer
  <2> HIDE DEF fresh
  <2>2. /\ mine \in Run /\ mine.pc \in {"load", "cleanup"} /\ mine.owned = NoBlob
        /\ mine.previous = NoBlob /\ mine.doomed \in {thumb, NoBlob}
        /\ mine.pc = "cleanup" => mine.doomed # NoBlob
    BY <2>0, CleanUpRun DEF TypeOK
  <2> HIDE DEF mine
  <2>3. TypeOK' /\ URLsAreKnown' /\ NoBrokenImage'
    BY <2>1, <2>2 DEF TypeOK, URLsAreKnown, Known, NoBrokenImage, Pointer
  <2>4. \A u \in Task : Unspent(u)' /\ LookedUp(u)'
    BY <2>1, <2>2 DEF TypeOK, URLsAreKnown, Known, Unspent, LookedUp
  <2> QED BY <2>3, <2>4
<1>3. ASSUME ResubmitAlone PROVE CoverInv'
  BY <1>3 DEF ResubmitAlone, TypeOK, URLsAreKnown, Known, Unspent, LookedUp, NoBrokenImage, Pointer
<1>4. ASSUME NEW t \in Task, Referenced(t) PROVE CoverInv'
  <2>1. /\ task[t].pc = "cleanup"
        /\ \E pc \in {task[t].next, "delete"} :
             /\ task' = [task EXCEPT ![t].pc = pc]
             /\ pc = "delete" => thumb # task[t].doomed
        /\ mishap' \in {mishap, mishap \cup {"lost"}}
        /\ UNCHANGED << version, thumb, store, used, late >>
    BY <1>4 DEF Referenced, IsReferenced, TypeOK, Run
  <2>2. PICK pc \in {task[t].next, "delete"} :
             /\ task' = [task EXCEPT ![t].pc = pc]
             /\ pc = "delete" => thumb # task[t].doomed
    BY <2>1
  <2>3. TypeOK' /\ URLsAreKnown' /\ NoBrokenImage'
    BY <2>1, <2>2 DEF TypeOK, Run, URLsAreKnown, Known, NoBrokenImage
  <2>4. \A u \in Task : Unspent(u)' /\ LookedUp(u)'
    BY <2>1, <2>2 DEF TypeOK, Run, URLsAreKnown, Known, Unspent, LookedUp
  <2> QED BY <2>3, <2>4
<1>5. ASSUME NEW t \in Task, Delete(t) PROVE CoverInv'
  <2>1. /\ task[t].pc = "delete" /\ task' = [task EXCEPT ![t].pc = task[t].next]
        /\ store' \in {store, store \ {task[t].doomed}}
        /\ mishap' \in {mishap, mishap \cup {"lost"}}
        /\ UNCHANGED << version, thumb, used, late >>
    BY <1>5 DEF Delete, Del
  <2>2. TypeOK' /\ URLsAreKnown' /\ NoBrokenImage'
    BY <2>1 DEF TypeOK, Run, URLsAreKnown, Known, LookedUp, NoBrokenImage
  <2>3. \A u \in Task : Unspent(u)' /\ LookedUp(u)'
    BY <2>1 DEF TypeOK, Run, URLsAreKnown, Known, Unspent, LookedUp
  <2> QED BY <2>2, <2>3
<1>6. ASSUME NEW t \in Task, Load(t) PROVE CoverInv'
  <2>1. /\ UNCHANGED << version, thumb, store, used, late, mishap >>
        /\ \/ task' = [task EXCEPT ![t].pc = "copy", ![t].previous = thumb]
           \/ task' = [task EXCEPT ![t].pc = "over"]
    BY <1>6 DEF Load
  <2>2. TypeOK' /\ URLsAreKnown' /\ NoBrokenImage'
    BY <2>1 DEF TypeOK, Run, URLsAreKnown, Known, NoBrokenImage
  <2>3. \A u \in Task : Unspent(u)' /\ LookedUp(u)'
    BY <2>1 DEF TypeOK, Run, URLsAreKnown, Known, Unspent, LookedUp
  <2> QED BY <2>2, <2>3
<1>7. ASSUME NEW t \in Task, Copy(t) PROVE CoverInv'
  <2>1. PICK b \in Blob \ used :
          /\ store' = store \cup {b} /\ used' = used \cup {b}
          /\ task' = [task EXCEPT ![t].pc = "save", ![t].owned = b]
    BY <1>7 DEF Copy, Put
  <2>2. UNCHANGED << version, thumb, late, mishap >>
    BY <1>7 DEF Copy
  <2>3. TypeOK' /\ URLsAreKnown' /\ NoBrokenImage'
    BY <2>1, <2>2 DEF TypeOK, Run, Pointer, URLsAreKnown, Known, NoBrokenImage
  <2>4. \A u \in Task : Unspent(u)' /\ LookedUp(u)'
    BY <2>1, <2>2 DEF TypeOK, Run, Pointer, URLsAreKnown, Known, Unspent, LookedUp
  <2> QED BY <2>3, <2>4
<1>8. ASSUME NEW t \in Task, NoImage(t) \/ CopyLost(t) \/ Crash(t) PROVE CoverInv'
  <2>1. /\ task' = [task EXCEPT ![t].pc = "over"]
        /\ store \subseteq store' /\ store' \subseteq used' /\ used \subseteq used' /\ used' \subseteq Blob
        /\ mishap' \in {mishap, mishap \cup {"lost"}}
        /\ UNCHANGED << version, thumb, late >>
    BY <1>8 DEF NoImage, CopyLost, Crash, Put, URLsAreKnown
  <2>2. TypeOK' /\ URLsAreKnown' /\ NoBrokenImage'
    BY <2>1 DEF TypeOK, Run, URLsAreKnown, Known, NoBrokenImage
  <2>3. \A u \in Task : Unspent(u)' /\ LookedUp(u)'
    BY <2>1 DEF TypeOK, Run, URLsAreKnown, Known, Unspent, LookedUp
  <2> QED BY <2>2, <2>3
<1>9. ASSUME NEW t \in Task, SaveCover(t) \/ SaveThrows(t) PROVE CoverInv'
  <2>1. PICK blob \in {task[t].owned, task[t].previous} :
          task' = [task EXCEPT ![t] = CleanUp(task[t], blob, "over")]
    BY <1>9 DEF SaveCover, SaveThrows, AfterSave, AfterRefusedSave
  <2>2. /\ task[t].pc = "save"
        /\ thumb' \in {thumb, task[t].owned}
        /\ late' \in {late, late \cup {SaveOf(t)}}
        /\ mishap' \in {mishap, mishap \cup {"lost"}}
        /\ UNCHANGED << version, store, used >>
    BY <1>9 DEF SaveCover, SaveThrows
  <2>3. task[t] \in Run /\ blob \in Pointer
    BY <2>1 DEF TypeOK, Run
  <2> DEFINE mine == CleanUp(task[t], blob, "over")
  <2>4. /\ mine \in Run /\ mine.pc \in {"over", "cleanup"}
        /\ mine.owned = task[t].owned /\ mine.previous = task[t].previous
        /\ mine.doomed \in {task[t].owned, task[t].previous, task[t].doomed}
        /\ mine.pc = "cleanup" => mine.doomed # NoBlob
    BY <2>1, <2>3, CleanUpRun
  <2>5. task' = [task EXCEPT ![t] = mine]
    BY <2>1
  <2> HIDE DEF mine
  <2>6. task[t].owned \in store
    BY <2>2 DEF Unspent
  <2>7. TypeOK' /\ URLsAreKnown' /\ NoBrokenImage'
    BY <2>2, <2>3, <2>4, <2>5, <2>6
       DEF TypeOK, Run, Save, SaveOf, URLsAreKnown, Known, NoBrokenImage
  <2>8. \A u \in Task : LookedUp(u)'
    BY <2>2, <2>4, <2>5 DEF TypeOK, LookedUp, Unspent
  <2>9. \A u \in Task : Unspent(u)'
    BY <2>2, <2>4, <2>5 DEF TypeOK, SaveOf, Unspent
  <2> QED BY <2>7, <2>8, <2>9
<1>10. ASSUME NEW s \in late, LateSave(s) PROVE CoverInv'
  <2>1. /\ late' = late \ {s} /\ thumb' \in {thumb, s.owned} /\ "late" \in mishap'
        /\ mishap' = mishap \cup {"late"}
        /\ UNCHANGED << version, store, used, task >>
    BY <1>10 DEF LateSave
  <2>2. TypeOK' /\ URLsAreKnown' /\ NoBrokenImage'
    BY <2>1 DEF TypeOK, Pointer, Save, URLsAreKnown, Known, NoBrokenImage
  <2>3. \A u \in Task : Unspent(u)' /\ LookedUp(u)'
    BY <2>1 DEF Unspent, LookedUp
  <2> QED BY <2>2, <2>3
<1>11. ASSUME UNCHANGED vars PROVE CoverInv'
  BY <1>11 DEF vars, TypeOK, URLsAreKnown, Known, Unspent, LookedUp, NoBrokenImage
<1> QED
  BY <1>1, <1>2, <1>3, <1>4, <1>5, <1>6, <1>7, <1>8, <1>9, <1>10, <1>11 DEF Next

\* However the runs behind the submissions of a video interleave, fail or die, its row never
\* shows an image that is gone (thumbnail.ts: "never a dangling reference"), but for an
\* update that runs after its caller has given it up.
THEOREM NeverABrokenImage == Spec => []NoBrokenImage
<1>1. CoverInv => NoBrokenImage
  BY DEF CoverInv
<1> QED
  BY <1>1, CoverInit, CoverStep, PTL DEF Spec

----------------------------------------------------------------------------
\* A run that has still to save or to delete the image b.
Minds(t, b) == \/ task[t].pc = "save" /\ task[t].owned = b
               \/ task[t].pc \in {"cleanup", "delete"} /\ task[t].doomed = b

\* Until something fails, every image in the store is the current one or minded by a run.
Minded ==
  mishap = {} => \A b \in store : b = thumb \/ \E t \in Task : Minds(t, b)

\* A run that moves on to a clean-up minds the image it cleans up.
LEMMA CleanUpMinds ==
  ASSUME NEW mine \in Run, NEW blob \in Pointer, NEW next
  PROVE  blob # NoBlob => /\ CleanUp(mine, blob, next).pc = "cleanup"
                          /\ CleanUp(mine, blob, next).doomed = blob
BY DEF CleanUp, Run

\* No step without a failure lets an image slip.
LEMMA MindedStep == CoverInv /\ Minded /\ [Next]_vars => Minded'
<1> SUFFICES ASSUME CoverInv, Minded, [Next]_vars, mishap' = {}, NEW b \in store', b # thumb'
             PROVE  \E t \in Task : Minds(t, b)'
  BY DEF Minded
<1>t. /\ task \in [Task -> Run] /\ thumb \in Pointer
      /\ store \subseteq used /\ used \subseteq Blob /\ NoBlob \notin Blob
      /\ \A t \in Task : {task[t].owned, task[t].previous} \subseteq Pointer
  BY NoBlobIsNoBlob DEF CoverInv, TypeOK, Run
<1>o. ASSUME NEW t \in Task, NEW u \in Task, u # t, \A v \in Task \ {t} : task'[v] = task[v],
             Minds(u, b)
      PROVE  Minds(u, b)'
  BY <1>o DEF Minds
<1>m. mishap = {} /\ b \in store => b = thumb \/ \E t \in Task : Minds(t, b)
  BY DEF Minded
<1>1. ASSUME NEW t \in Task, task[t].pc \notin {"save", "cleanup", "delete"},
             \A v \in Task \ {t} : task'[v] = task[v],
             UNCHANGED << thumb, store, mishap >>
      PROVE  \E u \in Task : Minds(u, b)'
  <2>1. PICK u \in Task : Minds(u, b)
    BY <1>1, <1>m
  <2> QED
    BY <1>1, <1>o, <2>1 DEF Minds
<1>2. ASSUME NEW t \in Task, (\E v \in 1..MaxVersion : Schedule(t, v)) \/ Load(t) \/ NoImage(t)
      PROVE  \E u \in Task : Minds(u, b)'
  <2>1. /\ task[t].pc \in {"new", "load", "copy"}
        /\ UNCHANGED << thumb, store, mishap >>
        /\ \A v \in Task \ {t} : task'[v] = task[v]
    <3>1. ASSUME NEW v \in 1..MaxVersion, Schedule(t, v)
          PROVE  /\ task[t].pc = "new" /\ UNCHANGED << thumb, store, mishap >>
                 /\ \E mine : task' = [task EXCEPT ![t] = mine]
      BY <3>1 DEF Schedule
    <3> QED
      BY <1>t, <1>2, <3>1 DEF Load, NoImage
  <2> QED
    BY <1>1, <2>1
<1>3. ASSUME NEW t \in Task, Resubmit(t) PROVE \E u \in Task : Minds(u, b)'
  <2> DEFINE mine == CleanUp([NotStarted EXCEPT !.want = version'], thumb, "load")
  <2>1. /\ task' = [task EXCEPT ![t] = mine] /\ task[t].pc = "new"
        /\ UNCHANGED << store, mishap >>
        /\ version' = version + 1
    BY <1>3 DEF Resubmit
  <2>2. [NotStarted EXCEPT !.want = version'] \in Run
    BY <2>1 DEF CoverInv, TypeOK, NotStarted, Run, Pointer
  <2>3. thumb # NoBlob => mine.pc = "cleanup" /\ mine.doomed = thumb
    BY <1>t, <2>2, CleanUpMinds
  <2> HIDE DEF mine
  <2>4. CASE b = thumb
    <3>1. task'[t] = mine /\ thumb # NoBlob
      BY <1>t, <2>1, <2>4
    <3> QED
      BY <2>3, <2>4, <3>1 DEF Minds
  <2>5. ASSUME NEW u \in Task, Minds(u, b) PROVE Minds(u, b)'
    <3>1. u # t
      BY <2>1, <2>5 DEF Minds
    <3> QED
      BY <1>t, <1>o, <2>1, <2>5, <3>1
  <2> QED
    BY <1>m, <2>1, <2>4, <2>5
<1>4. ASSUME NEW t \in Task, Referenced(t) PROVE \E u \in Task : Minds(u, b)'
  <2>1. /\ task[t].pc = "cleanup"
        /\ task' = [task EXCEPT ![t].pc = IF IsReferenced(t) THEN task[t].next ELSE "delete"]
        /\ UNCHANGED << thumb, store, mishap >>
    BY <1>4 DEF Referenced
  <2>2. PICK u \in Task : Minds(u, b)
    BY <1>m, <2>1
  <2>3. CASE u = t
    <3>1. task[t].doomed = b /\ ~IsReferenced(t)
      BY <2>1, <2>2, <2>3 DEF Minds, IsReferenced
    <3>2. task'[t].pc = "delete" /\ task'[t].doomed = b
      BY <1>t, <2>1, <3>1 DEF Run
    <3> QED
      BY <3>2 DEF Minds
  <2>4. CASE u # t
    BY <1>t, <1>o, <2>1, <2>2, <2>4
  <2> QED
    BY <2>3, <2>4
<1>5. ASSUME NEW t \in Task, Delete(t) PROVE \E u \in Task : Minds(u, b)'
  <2>1. /\ task[t].pc = "delete" /\ store' = store \ {task[t].doomed}
        /\ \A v \in Task \ {t} : task'[v] = task[v]
        /\ UNCHANGED << thumb, mishap >>
    BY <1>5 DEF Delete, Del
  <2>2. PICK u \in Task : Minds(u, b)
    BY <1>m, <2>1
  <2>3. u # t
    BY <2>1, <2>2 DEF Minds
  <2> QED
    BY <1>o, <2>1, <2>2, <2>3
<1>6. ASSUME NEW t \in Task, Copy(t) PROVE \E u \in Task : Minds(u, b)'
  <2>1. PICK c \in Blob \ used :
          /\ store' = store \cup {c} /\ task[t].pc = "copy"
          /\ task' = [task EXCEPT ![t].pc = "save", ![t].owned = c]
          /\ UNCHANGED << thumb, mishap >>
    BY <1>6 DEF Copy, Put
  <2>2. CASE b = c
    <3>1. task'[t].pc = "save" /\ task'[t].owned = c
      BY <1>t, <2>1 DEF Run
    <3> QED
      BY <2>2, <3>1 DEF Minds
  <2>3. CASE b # c
    <3>1. PICK u \in Task : Minds(u, b)
      BY <1>m, <2>1, <2>3
    <3>2. u # t
      BY <2>1, <3>1 DEF Minds
    <3> QED
      BY <1>t, <1>o, <2>1, <3>1, <3>2
  <2> QED
    BY <2>2, <2>3
<1>7. ASSUME NEW t \in Task, SaveCover(t) PROVE \E u \in Task : Minds(u, b)'
  <2> DEFINE blob == IF StillHolds(SaveOf(t)) THEN task[t].previous ELSE task[t].owned
             mine == CleanUp(task[t], blob, "over")
  <2>1. /\ task[t].pc = "save" /\ UNCHANGED << store, mishap >>
        /\ task' = [task EXCEPT ![t] = mine]
        /\ thumb' = IF StillHolds(SaveOf(t)) THEN task[t].owned ELSE thumb
    BY <1>7 DEF SaveCover, AfterSave, AfterRefusedSave
  <2>2. StillHolds(SaveOf(t)) => thumb = task[t].previous
    BY DEF StillHolds, SaveOf
  <2>3. blob # NoBlob => mine.pc = "cleanup" /\ mine.doomed = blob
    BY <1>t, CleanUpMinds
  <2> HIDE DEF mine
  <2>4. CASE b = blob
    <3>1. task'[t] = mine /\ b # NoBlob
      BY <1>t, <2>1
    <3> QED
      BY <2>3, <2>4, <3>1 DEF Minds
  <2>5. CASE b # blob
    <3>1. b # thumb
      BY <2>1, <2>2, <2>5
    <3>2. PICK u \in Task : Minds(u, b)
      BY <1>m, <2>1, <3>1
    <3>3. u # t
      BY <2>1, <2>5, <3>2 DEF Minds
    <3> QED
      BY <1>o, <2>1, <3>2, <3>3
  <2> QED
    BY <2>4, <2>5
<1>8. CASE ResubmitAlone \/ (\E s \in late : LateSave(s))
           \/ \E t \in Task : CopyLost(t) \/ SaveThrows(t) \/ Crash(t)
  BY <1>8 DEF ResubmitAlone, LateSave, CopyLost, SaveThrows, Crash
<1>9. CASE UNCHANGED vars
  BY <1>9, <1>m DEF vars, Minds
<1> QED
  BY <1>2, <1>3, <1>4, <1>5, <1>6, <1>7, <1>8, <1>9 DEF Next

\* When all the runs behind a video's submissions are over and nothing failed, the store
\* holds its current image and no other (thumbnail.ts: "unreferenced blobs are reclaimed").
THEOREM NoImageIsOrphaned == Spec => []NoOrphan
<1>1. Init => Minded
  BY DEF Init, Minded
<1>2. CoverInv /\ Minded => NoOrphan
  BY DEF Minded, Minds, NoOrphan, Done
<1> QED
  BY <1>1, <1>2, CoverInit, CoverStep, MindedStep, PTL DEF Spec

----------------------------------------------------------------------------
\* Tiers

\* Which of two tiers is the higher is never said both ways.
LEMMA HigherIsStrict ==
  ASSUME NEW s \in Tier, NEW t \in Tier, T!Higher(s, t) PROVE ~T!Higher(t, s)
<1>1. s.followers \in Nat /\ t.followers \in Nat /\ s.price \in Nat /\ t.price \in Nat
  BY TiersAreTiers
<1> QED
  BY <1>1 DEF T!Higher

\* And it can be followed from step to step.
LEMMA HigherIsTransitive ==
  ASSUME NEW s \in Tier, NEW t \in Tier, NEW u \in Tier, T!Higher(s, t), T!Higher(t, u)
  PROVE  T!Higher(s, u)
<1>1. /\ s.followers \in Nat /\ t.followers \in Nat /\ u.followers \in Nat
      /\ s.price \in Nat /\ t.price \in Nat /\ u.price \in Nat
  BY TiersAreTiers
<1> QED
  BY <1>1 DEF T!Higher

\* Of some tiers one has no higher beside it.
LEMMA HighestExists ==
  ASSUME NEW S \in SUBSET Tier, S # {}
  PROVE  \E t \in S : \A s \in S : ~T!Higher(s, t)
<1> DEFINE Above(t) == { s \in S : T!Higher(s, t) }
           All == { Above(t) : t \in S }
<1>1. \A h \in All : IsFiniteSet(h)
  <2>1. IsFiniteSet(S)
    BY TiersAreFew, FS_Subset
  <2> QED
    BY <2>1, FS_Subset
<1>2. All # {}
  OBVIOUS
<1>3. PICK h \in All : \A k \in All : Cardinality(h) <= Cardinality(k)
  <2> HIDE DEF All
  <2> QED
    BY <1>1, <1>2, SmallestSet
<1>4. PICK t \in S : h = Above(t)
  BY <1>3
<1>5. ASSUME NEW s \in S, T!Higher(s, t) PROVE FALSE
  <2>1. Above(s) \subseteq Above(t) \ {s}
    BY <1>5, HigherIsTransitive, HigherIsStrict
  <2>2. s \in Above(t) /\ IsFiniteSet(Above(t))
    BY <1>1, <1>4, <1>5
  <2>3. Cardinality(Above(t) \ {s}) = Cardinality(Above(t)) - 1 /\ Cardinality(Above(t)) \in Nat
    BY <2>2, FS_RemoveElement, FS_CardinalityType
  <2>4. IsFiniteSet(Above(t) \ {s})
    BY <2>2, FS_Subset
  <2> HIDE DEF Above
  <2>5. Cardinality(Above(s)) <= Cardinality(Above(t) \ {s}) /\ Cardinality(Above(s)) \in Nat
    BY <2>1, <2>4, FS_Subset, FS_CardinalityType
  <2>6. Cardinality(Above(t)) <= Cardinality(Above(s))
    BY <1>3, <1>4
  <2> QED
    BY <2>3, <2>5, <2>6
<1> QED
  BY <1>5

\* Numbers select a tier that they match and that no other they match is above, or none.
LEMMA SelectedTier ==
  ASSUME NEW n
  PROVE  \/ T!SelectTier(n) = NoTier
         \/ /\ T!SelectTier(n) \in T!Eligible(n) /\ T!SelectTier(n) \in Tier
            /\ \A s \in T!Eligible(n) : ~T!Higher(s, T!SelectTier(n))
<1>1. CASE T!Eligible(n) = {}
  BY <1>1 DEF T!SelectTier
<1>2. CASE T!Eligible(n) # {}
  <2>1. T!Eligible(n) \in SUBSET Tier
    BY DEF T!Eligible
  <2>2. PICK t \in T!Eligible(n) : \A s \in T!Eligible(n) : ~T!Higher(s, t)
    BY <1>2, <2>1, HighestExists
  <2>3. T!SelectTier(n) = CHOOSE u \in T!Eligible(n) : \A s \in T!Eligible(n) : ~T!Higher(s, u)
    BY <1>2, Zenon DEF T!SelectTier
  <2>4. /\ T!SelectTier(n) \in T!Eligible(n)
        /\ \A s \in T!Eligible(n) : ~T!Higher(s, T!SelectTier(n))
    BY <2>2, <2>3, Zenon
  <2> QED
    BY <2>1, <2>4
<1> QED
  BY <1>1, <1>2

----------------------------------------------------------------------------
TierOrNone == Tier \cup {NoTier}

RunAt == [pc : {"idle", "listed", "refresh", "notify"}, tier : TierOrNone]

Profile ==
  [exists : BOOLEAN, linked : BOOLEAN,
   numbers : [followers : Nat \cup {Missing}, engagement : Nat \cup {Missing}],
   tier : TierOrNone, review : BOOLEAN, stamp : T!Stamp]

\* A request that has a notice to write
Notifies(w) == run[w].pc = "notify"

\* Without a mishap the last notice told the tier, or the one notice on its way will.
NoticeIsComing ==
  \/ missed
  \/ (\A w \in Worker : ~Notifies(w)) /\ told = profile.tier
  \/ \E w \in Worker : /\ Notifies(w) /\ run[w].tier = profile.tier
                       /\ \A v \in Worker \ {w} : ~Notifies(v)

TierInv ==
  /\ profile \in Profile
  /\ run \in [Worker -> RunAt]
  /\ told \in TierOrNone
  /\ missed \in BOOLEAN
  /\ ~profile.exists => profile.tier = NoTier /\ ~profile.review /\ \A w \in Worker : run[w] = T!Idle
  /\ NoticeIsComing

\* What is assigned is a tier, or none.
LEMMA AssignedType ==
  ASSUME NEW n, NEW t \in TierOrNone PROVE T!Assigned(n, t) \in TierOrNone
  BY SelectedTier DEF T!Assigned, TierOrNone

\* A new creator, before the onboarding
LEMMA TierInit == T!Init => TierInv
<1> SUFFICES ASSUME T!Init PROVE TierInv
  OBVIOUS
<1>1. /\ profile \in Profile /\ ~profile.exists /\ profile.tier = NoTier /\ told = NoTier /\ ~profile.review
      /\ missed = FALSE
  BY DEF T!Init, Profile, TierOrNone, T!Unread, T!Stamp
<1>2. run \in [Worker -> RunAt] /\ \A w \in Worker : run[w] = T!Idle /\ ~Notifies(w)
  BY DEF T!Init, RunAt, TierOrNone, T!Idle, Notifies
<1> QED
  BY <1>1, <1>2 DEF TierInv, NoticeIsComing, TierOrNone

\* A decision that changes the tier has its notice before it.
LEMMA DecideStep ==
  ASSUME TierInv, NEW w \in Worker, NEW next \in Profile, profile.exists, next.exists, T!Decide(w, next)
  PROVE  TierInv'
<1>1. profile' = next /\ told' = told /\ run[w] = T!Idle /\ run \in [Worker -> RunAt]
  BY DEF T!Decide, TierInv
<1>2. ~Notifies(w)
  BY <1>1 DEF Notifies, T!Idle
<1>3. CASE next.tier = profile.tier
  <2>1. run' = run /\ missed' = missed
    BY <1>3 DEF T!Decide, TierInv
  <2> QED
    BY <1>1, <1>3, <2>1 DEF TierInv, NoticeIsComing, Notifies
<1>4. CASE next.tier # profile.tier
  <2>1. /\ run' = [run EXCEPT ![w] = [pc |-> "notify", tier |-> next.tier]]
        /\ missed' = (missed \/ T!Overtaken(w))
    BY <1>4 DEF T!Decide
  <2>2. [pc |-> "notify", tier |-> next.tier] \in RunAt
    BY DEF RunAt, Profile
  <2>3. /\ run'[w] = [pc |-> "notify", tier |-> next.tier]
        /\ \A v \in Worker \ {w} : run'[v] = run[v]
        /\ run' \in [Worker -> RunAt]
    BY <1>1, <2>1, <2>2
  <2>4. NoticeIsComing'
    <3>1. CASE missed \/ T!Overtaken(w)
      BY <2>1, <3>1 DEF NoticeIsComing
    <3>2. CASE ~T!Overtaken(w)
      BY <1>1, <2>3, <3>2 DEF T!Overtaken, NoticeIsComing, Notifies
    <3> QED
      BY <3>1, <3>2
  <2>5. missed' \in BOOLEAN
    BY <2>1 DEF TierInv, T!Overtaken
  <2> QED
    BY <1>1, <2>3, <2>4, <2>5 DEF TierInv
<1> QED
  BY <1>3, <1>4

\* A refresh writes what its numbers select, and announces an upgrade in the same step.
LEMMA SaveRefreshStep ==
  ASSUME TierInv, NEW w \in Worker, NEW n \in Numbers, T!SaveRefresh(w, n)
  PROVE  TierInv'
<1> PICK new : new = T!SelectTier(n)
  OBVIOUS
<1> PICK up \in BOOLEAN : up = T!IsUpgrade(new, run[w].tier)
  BY Zenon DEF T!IsUpgrade
<1> PICK flag \in BOOLEAN : flag = (~up /\ run[w].tier # NoTier /\ new # run[w].tier)
  BY Zenon
<1>1. /\ run[w].pc = "refresh" /\ run' = [run EXCEPT ![w] = T!Idle]
      /\ told' = IF up THEN new ELSE told
      /\ missed' = (missed \/ (up /\ T!Overtaken(w)))
      /\ profile' = [profile EXCEPT !.numbers = n, !.stamp = "today", !.review = flag,
                                    !.tier = IF up THEN new ELSE profile.tier]
  BY Zenon DEF T!SaveRefresh
<1>2. new \in TierOrNone /\ run \in [Worker -> RunAt] /\ profile \in Profile /\ missed \in BOOLEAN
  BY SelectedTier DEF TierOrNone, TierInv
<1>0. n \in [followers : Nat \cup {Missing}, engagement : Nat \cup {Missing}]
  BY NumbersAreNumbers
<1>3. profile' \in Profile /\ profile'.tier = (IF up THEN new ELSE profile.tier) /\ profile'.exists = profile.exists
  BY <1>0, <1>1, <1>2 DEF Profile, T!Stamp
<1>4. /\ run'[w] = T!Idle /\ \A v \in Worker \ {w} : run'[v] = run[v]
      /\ run' \in [Worker -> RunAt]
  BY <1>1, <1>2 DEF RunAt, TierOrNone, T!Idle
<1>5. ~Notifies(w) /\ ~Notifies(w)'
  BY <1>1, <1>4 DEF Notifies, T!Idle
<1>6. NoticeIsComing'
  <2>1. CASE up
    BY <1>1, <1>3, <1>4, <1>5, <2>1 DEF TierInv, NoticeIsComing, Notifies, T!Overtaken
  <2>2. CASE ~up
    BY <1>1, <1>3, <1>4, <1>5, <2>2 DEF TierInv, NoticeIsComing, Notifies
  <2> QED
    BY <2>1, <2>2
<1>7. told' \in TierOrNone /\ missed' \in BOOLEAN
  BY <1>1, <1>2 DEF TierInv, T!Overtaken
<1>8. profile'.exists
  BY <1>1, <1>3 DEF TierInv, T!Idle
<1> QED
  BY <1>3, <1>4, <1>6, <1>7, <1>8 DEF TierInv

\* No step of a request breaks it.
LEMMA TierStep == TierInv /\ [T!Next]_(T!vars) => TierInv'
<1> SUFFICES ASSUME TierInv, [T!Next]_(T!vars) PROVE TierInv'
  OBVIOUS
<1>t. /\ profile \in Profile /\ run \in [Worker -> RunAt] /\ told \in TierOrNone
      /\ missed \in BOOLEAN
  BY DEF TierInv
<1>1. ASSUME T!GrowOld PROVE TierInv'
  <2>1. PICK stamp \in T!Stamp : profile' = [profile EXCEPT !.stamp = stamp]
    BY <1>1 DEF T!GrowOld, T!Stamp
  <2>2. UNCHANGED << told, run, missed >>
    BY <1>1 DEF T!GrowOld
  <2>3. /\ profile' \in Profile /\ profile'.tier = profile.tier
        /\ profile'.exists = profile.exists /\ profile'.review = profile.review
    BY <1>t, <2>1 DEF Profile
  <2> QED
    BY <2>2, <2>3 DEF TierInv, NoticeIsComing, Notifies
<1>2. ASSUME NEW n \in Numbers, NEW linked \in BOOLEAN, NEW pulled \in BOOLEAN,
             T!CreateProfile(n, linked, pulled)
      PROVE  TierInv'
  <2> PICK tier \in TierOrNone : tier = T!Assigned(n, NoTier)
    BY AssignedType DEF TierOrNone
  <2>1. /\ profile' = [exists |-> TRUE, linked |-> linked, numbers |-> n, tier |-> tier,
                       review |-> FALSE, stamp |-> IF pulled THEN "today" ELSE "never"]
        /\ told' = tier /\ UNCHANGED << run, missed >> /\ ~profile.exists
    BY <1>2, Zenon DEF T!CreateProfile
  <2>2. profile' \in Profile /\ profile'.tier = tier /\ profile'.exists
    BY <2>1, NumbersAreNumbers DEF Profile, T!Stamp
  <2>3. \A w \in Worker : ~Notifies(w)'
    BY <2>1 DEF TierInv, Notifies, T!Idle
  <2> QED
    BY <1>t, <2>1, <2>2, <2>3 DEF TierInv, NoticeIsComing
<1>3. ASSUME NEW w \in Worker, T!ListDue(w) \/ T!StartRefresh(w) \/ T!FetchFails(w) PROVE TierInv'
  <2>1. PICK at \in RunAt : run' = [run EXCEPT ![w] = at] /\ at.pc # "notify"
    <3>1. CASE T!ListDue(w)
      <4>1. run' = [run EXCEPT ![w] = [run[w] EXCEPT !.pc = "listed"]]
        BY <3>1 DEF T!ListDue
      <4>2. [run[w] EXCEPT !.pc = "listed"] \in RunAt
            /\ [run[w] EXCEPT !.pc = "listed"].pc # "notify"
        BY <1>t DEF RunAt
      <4> QED
        BY <4>1, <4>2
    <3>2. CASE T!StartRefresh(w)
      <4>1. run' = [run EXCEPT ![w] = [pc |-> "refresh", tier |-> profile.tier]]
        BY <3>2 DEF T!StartRefresh
      <4>2. [pc |-> "refresh", tier |-> profile.tier] \in RunAt
        BY <1>t DEF RunAt, Profile
      <4> QED
        BY <4>1, <4>2
    <3>3. CASE T!FetchFails(w)
      <4>1. run' = [run EXCEPT ![w] = T!Idle]
        BY <3>3 DEF T!FetchFails
      <4>2. T!Idle \in RunAt /\ T!Idle.pc # "notify"
        BY DEF RunAt, T!Idle, TierOrNone
      <4> QED
        BY <4>1, <4>2
    <3> QED
      BY <1>3, <3>1, <3>2, <3>3
  <2>2. /\ UNCHANGED << profile, told, missed >> /\ profile.exists /\ ~Notifies(w)
    BY <1>3 DEF T!ListDue, T!StartRefresh, T!FetchFails, TierInv, Notifies, T!Idle
  <2>3. run' \in [Worker -> RunAt] /\ \A v \in Worker : Notifies(v)' = Notifies(v)
    BY <1>t, <2>1, <2>2 DEF Notifies
  <2>4. \A v \in Worker : Notifies(v) => run'[v] = run[v]
    BY <1>t, <2>1, <2>2
  <2> QED
    BY <2>2, <2>3, <2>4 DEF TierInv, NoticeIsComing
<1>4. ASSUME NEW w \in Worker, T!AssignTier(w) PROVE TierInv'
  <2> PICK tier \in TierOrNone : tier = T!Assigned(profile.numbers, profile.tier)
    BY <1>t, AssignedType DEF Profile
  <2> DEFINE next == [profile EXCEPT !.tier = tier, !.review = FALSE]
  <2>1. profile.exists /\ T!Decide(w, next)
    BY <1>4, Zenon DEF T!AssignTier
  <2>2. next \in Profile /\ next.exists
    BY <1>t, <2>1 DEF Profile
  <2> QED
    BY <2>1, <2>2, DecideStep
<1>5. ASSUME NEW w \in Worker, NEW n \in Numbers, T!EditNumbers(w, n) PROVE TierInv'
  <2> PICK tier \in TierOrNone : tier = T!Assigned(T!Merged(n), profile.tier)
    BY <1>t, AssignedType DEF Profile
  <2> PICK m : m = T!Merged(n)
    OBVIOUS
  <2> DEFINE next == [profile EXCEPT !.numbers = m, !.tier = tier]
  <2>1. profile.exists /\ T!Decide(w, next)
    BY <1>5, Zenon DEF T!EditNumbers
  <2>2. m \in [followers : Nat \cup {Missing}, engagement : Nat \cup {Missing}]
    BY <1>t, NumbersAreNumbers DEF T!Merged, Profile
  <2>3. next \in Profile /\ next.exists
    BY <1>t, <2>1, <2>2 DEF Profile
  <2> QED
    BY <2>1, <2>3, DecideStep
<1>6. ASSUME NEW w \in Worker, T!DismissReview(w) PROVE TierInv'
  <2> DEFINE next == [profile EXCEPT !.review = FALSE]
  <2>1. T!Decide(w, next) /\ profile.review
    BY <1>6 DEF T!DismissReview
  <2>2. next \in Profile /\ next.exists = profile.exists
    BY <1>t DEF Profile
  <2>3. profile.exists
    BY <2>1 DEF TierInv
  <2> QED
    BY <2>1, <2>2, <2>3, DecideStep
<1>7. ASSUME NEW w \in Worker, T!Notify(w) \/ T!NotifyFails(w) PROVE TierInv'
  <2>1. /\ Notifies(w) /\ run' = [run EXCEPT ![w] = T!Idle] /\ UNCHANGED profile
        /\ \/ told' = run[w].tier /\ UNCHANGED missed
           \/ missed' = TRUE /\ UNCHANGED told
    BY <1>7 DEF T!Notify, T!NotifyFails, T!Announced, Notifies
  <2>2. /\ run' \in [Worker -> RunAt] /\ run'[w] = T!Idle
        /\ \A v \in Worker \ {w} : run'[v] = run[v]
    BY <1>t, <2>1 DEF RunAt, T!Idle, TierOrNone
  <2>3. ~Notifies(w)' /\ profile.exists
    BY <2>1, <2>2 DEF Notifies, TierInv, T!Idle
  <2>4. NoticeIsComing'
    BY <2>1, <2>2, <2>3 DEF TierInv, NoticeIsComing, Notifies
  <2>5. told' \in TierOrNone /\ missed' \in BOOLEAN
    BY <1>t, <2>1 DEF RunAt
  <2> QED
    BY <1>t, <2>1, <2>2, <2>3, <2>4, <2>5 DEF TierInv
<1>8. ASSUME NEW w \in Worker, NEW n \in Numbers, T!SaveRefresh(w, n) PROVE TierInv'
  BY <1>8, SaveRefreshStep
<1>9. ASSUME UNCHANGED T!vars PROVE TierInv'
  BY <1>9 DEF T!vars, TierInv, NoticeIsComing, Notifies
<1> QED
  BY <1>1, <1>2, <1>3, <1>4, <1>5, <1>6, <1>7, <1>8, <1>9 DEF T!Next

\* However an admin's decisions and the refreshes interleave: once all notices are out, the
\* creator was last told the tier brands are priced by, unless one was lost or overtaken.
THEOREM TheTierIsTold == T!Spec => []ToldTheTier
<1>1. TierInv => ToldTheTier
  BY DEF TierInv, NoticeIsComing, Notifies, ToldTheTier, T!ToldTheTier
<1> QED
  BY <1>1, TierInit, TierStep, PTL DEF T!Spec

\* A creator who has a tier keeps one, and a refresh lowers it only if it judged by a tier
\* that was changed meanwhile (refresh-stats.ts: "Downgrades only flag").
THEOREM TiersAreKept == T!Spec => NoRefreshLowersATier
<1> DEFINE Kept ==
      profile.tier # NoTier =>
        /\ profile'.tier # NoTier
        /\ \A w \in Worker :
             run[w].pc = "refresh" /\ run[w].tier = profile.tier /\ run'[w] = T!Idle =>
               ~T!Higher(profile.tier, profile'.tier)
<1>1. ASSUME TierInv, [T!Next]_(T!vars) PROVE [Kept]_(T!vars)
  <2> SUFFICES ASSUME T!Next, profile.tier # NoTier
               PROVE  /\ profile'.tier # NoTier
                      /\ \A w \in Worker :
                           run[w].pc = "refresh" /\ run[w].tier = profile.tier /\ run'[w] = T!Idle =>
                             ~T!Higher(profile.tier, profile'.tier)
    BY <1>1
  <2>t. /\ profile \in Profile /\ run \in [Worker -> RunAt] /\ profile.tier \in Tier
        /\ profile.exists
    BY <1>1 DEF TierInv, Profile, TierOrNone
  <2>h. ~T!Higher(profile.tier, profile.tier)
    BY <2>t, HigherIsStrict
  <2>1. CASE profile'.tier = profile.tier
    BY <2>1, <2>h
  <2>2. ASSUME NEW w \in Worker, NEW tier \in TierOrNone, tier # NoTier, run[w].pc # "refresh",
               profile'.tier = tier, \A v \in Worker \ {w} : run'[v] = run[v]
        PROVE  /\ profile'.tier # NoTier
               /\ \A v \in Worker : ~(run[v].pc = "refresh" /\ run'[v] = T!Idle)
    BY <2>2 DEF T!Idle
  <2>3. ASSUME NEW w \in Worker, NEW next, T!Decide(w, next)
        PROVE  /\ profile' = next /\ run[w].pc # "refresh" /\ \A v \in Worker \ {w} : run'[v] = run[v]
    BY <2>3, <2>t DEF T!Decide, T!Idle
  <2>4. ASSUME NEW n PROVE T!Assigned(n, profile.tier) \in TierOrNone \ {NoTier}
    BY <2>t, AssignedType DEF T!Assigned, TierOrNone
  <2>5. ASSUME NEW w \in Worker, T!AssignTier(w)
        PROVE  \A v \in Worker : ~(run[v].pc = "refresh" /\ run'[v] = T!Idle) /\ profile'.tier # NoTier
    <3> PICK tier \in TierOrNone \ {NoTier} : tier = T!Assigned(profile.numbers, profile.tier)
      BY <2>4
    <3>1. T!Decide(w, [profile EXCEPT !.tier = tier, !.review = FALSE])
      BY <2>5, Zenon DEF T!AssignTier
    <3>2. profile' = [profile EXCEPT !.tier = tier, !.review = FALSE]
      BY <2>3, <3>1
    <3>3. profile'.tier = tier
      BY <2>t, <3>2 DEF Profile
    <3> QED
      BY <2>2, <2>3, <3>1, <3>3
  <2>6. ASSUME NEW w \in Worker, NEW n \in Numbers, T!EditNumbers(w, n)
        PROVE  \A v \in Worker : ~(run[v].pc = "refresh" /\ run'[v] = T!Idle) /\ profile'.tier # NoTier
    <3> PICK tier \in TierOrNone \ {NoTier} : tier = T!Assigned(T!Merged(n), profile.tier)
      BY <2>4
    <3> PICK m : m = T!Merged(n)
      OBVIOUS
    <3>1. T!Decide(w, [profile EXCEPT !.numbers = m, !.tier = tier])
      BY <2>6, Zenon DEF T!EditNumbers
    <3>2. profile' = [profile EXCEPT !.numbers = m, !.tier = tier]
      BY <2>3, <3>1
    <3>3. profile'.tier = tier
      BY <2>t, <3>2 DEF Profile
    <3> QED
      BY <2>2, <2>3, <3>1, <3>3
  <2>7. ASSUME NEW w \in Worker, NEW n \in Numbers, T!SaveRefresh(w, n)
        PROVE  /\ profile'.tier # NoTier
               /\ \A v \in Worker :
                    run[v].pc = "refresh" /\ run[v].tier = profile.tier /\ run'[v] = T!Idle =>
                      ~T!Higher(profile.tier, profile'.tier)
    <3> PICK new : new = T!SelectTier(n)
      OBVIOUS
    <3> PICK up \in BOOLEAN : up = T!IsUpgrade(new, run[w].tier)
      BY Zenon DEF T!IsUpgrade
    <3> PICK flag : flag = (~up /\ run[w].tier # NoTier /\ new # run[w].tier)
      OBVIOUS
    <3>1. /\ profile' = [profile EXCEPT !.numbers = n, !.stamp = "today", !.review = flag,
                                        !.tier = IF up THEN new ELSE profile.tier]
          /\ run' = [run EXCEPT ![w] = T!Idle]
      BY <2>7, Zenon DEF T!SaveRefresh
    <3>2. profile'.tier = IF up THEN new ELSE profile.tier
      BY <2>t, <3>1 DEF Profile
    <3>3. CASE ~up
      BY <2>1, <3>2, <3>3
    <3>4. CASE up
      <4>1. profile'.tier = new /\ new # NoTier /\ new \in Tier
        BY <3>2, <3>4, SelectedTier DEF T!IsUpgrade
      <4>2. \A v \in Worker \ {w} : run[v].pc = "refresh" => run'[v] # T!Idle
        BY <2>t, <3>1 DEF T!Idle
      <4>3. run[w].tier = profile.tier => ~T!Higher(profile.tier, new)
        BY <2>t, <3>4, <4>1, HigherIsStrict, NoTierIsNoTier DEF T!IsUpgrade
      <4> QED
        BY <4>1, <4>2, <4>3
    <3> QED
      BY <3>3, <3>4
  <2>8. ASSUME NEW w \in Worker,
               \/ T!ListDue(w) \/ T!StartRefresh(w) \/ T!FetchFails(w)
               \/ T!DismissReview(w) \/ T!Notify(w) \/ T!NotifyFails(w)
        PROVE  profile'.tier = profile.tier
    <3>1. profile' = profile \/ profile' = [profile EXCEPT !.review = FALSE]
      BY <2>8 DEF T!ListDue, T!StartRefresh, T!FetchFails, T!DismissReview, T!Notify, T!NotifyFails, T!Decide
    <3> QED
      BY <2>t, <3>1 DEF Profile
  <2>9. ASSUME T!GrowOld PROVE profile'.tier = profile.tier
    BY <2>9, <2>t DEF T!GrowOld, Profile
  <2>10. \A n \in Numbers, linked, pulled \in BOOLEAN : ~T!CreateProfile(n, linked, pulled)
    BY <2>t DEF T!CreateProfile
  <2> QED
    BY <2>1, <2>5, <2>6, <2>7, <2>8, <2>9, <2>10 DEF T!Next
<1> HIDE DEF Kept
<1>2. T!Spec => [][Kept]_(T!vars)
  BY <1>1, TierInit, TierStep, PTL DEF T!Spec
<1> QED
  BY <1>2 DEF Kept, NoRefreshLowersATier, T!NoRefreshLowersATier

----------------------------------------------------------------------------
\* Addresses

\* A row that lets the next code be typed
LiveRow == { r \in A!Row : r.attempts < MaxAttempts }

SendCall  == [pc : {"send"}, address : Address, code : 1..MaxCodes]
NextCall  == {A!Idle} \cup SendCall
LoadCall  == [pc : {"load"}, op : {"ask", "peek", "set"}, address : Address,
              typed : 0..MaxCodes, needsEmail : BOOLEAN]
SaveCall  == [pc : {"save"}, row : LiveRow, next : NextCall]
CommitCall == [pc : {"commit"}, row : LiveRow, next : NextCall, seen : SUBSET A!Row]
WriteCall == [pc : {"consume", "write"}, address : Own, needsEmail : BOOLEAN]

\* The code of a row or of a mail is one of the first m, and was made up for the address f says.
MadeFor(p, f, m) == p.code \in 1..m /\ p.address = f[p.code]

\* What a request at each place carries, when m codes were made up, for the addresses f, and
\* those in S came to the user.  A code that is written back or mailed is for its address; one
\* that was typed came to the user; an address about to be written is the user's own.
CarriesRight(c, f, m, S) ==
  \/ c \in {A!Idle, A!Remove}
  \/ c \in LoadCall /\ (c.op # "ask" => c.typed \in S \cup {A!Wrong})
  \/ /\ c \in SaveCall \cup CommitCall /\ MadeFor(c.row, f, m)
     /\ c.next # A!Idle => MadeFor(c.next, f, m)
  \/ c \in SendCall /\ MadeFor(c, f, m)
  \/ c \in WriteCall

\* Each code was made up once, for the address f says, and only those for an address of the
\* user's own reached the inbox.
CodesAreFor(f) ==
  /\ \A r \in codes : MadeFor(r, f, minted)
  /\ \A k \in inbox : k \in 1..minted /\ f[k] \in Own
  /\ \A w \in Caller : CarriesRight(call[w], f, minted, inbox)

OtpInv ==
  /\ minted \in 0..MaxCodes
  /\ codes \subseteq LiveRow
  /\ call \in [Caller -> {A!Idle, A!Remove} \cup LoadCall \cup SaveCall \cup CommitCall
                           \cup SendCall \cup WriteCall]
  /\ email # A!Placeholder => email \in Own /\ handle
  /\ \E f : CodesAreFor(f)

\* No code was made up yet.
LEMMA OtpInit == A!Init => OtpInv
<1> SUFFICES ASSUME A!Init PROVE OtpInv
  OBVIOUS
<1>1. /\ minted = 0 /\ codes = {} /\ inbox = {} /\ email = A!Placeholder
      /\ call = [w \in Caller |-> A!Idle]
  BY DEF A!Init
<1>2. \A f : CodesAreFor(f)
  BY <1>1 DEF CodesAreFor, CarriesRight
<1> QED
  BY <1>1, <1>2, CodesMayBeTyped DEF OtpInv

\* What a request carries stays right when a code is made up or reaches the inbox.
LEMMA StillRight ==
  ASSUME NEW c, NEW f, NEW g, NEW m \in Nat, NEW n \in Nat, NEW S, NEW U,
         CarriesRight(c, f, m, S), m <= n, S \subseteq U, \A k \in 1..m : g[k] = f[k]
  PROVE  CarriesRight(c, g, n, U)
<1>1. ASSUME NEW p, MadeFor(p, f, m) PROVE MadeFor(p, g, n)
  BY <1>1 DEF MadeFor
<1>2. CASE c \in {A!Idle, A!Remove} \/ c \in WriteCall
  BY <1>2 DEF CarriesRight
<1>3. CASE c \in LoadCall /\ (c.op # "ask" => c.typed \in S \cup {A!Wrong})
  BY <1>3 DEF CarriesRight
<1>4. CASE /\ c \in SaveCall \cup CommitCall /\ MadeFor(c.row, f, m)
           /\ c.next # A!Idle => MadeFor(c.next, f, m)
  BY <1>1, <1>4 DEF CarriesRight
<1>5. CASE c \in SendCall /\ MadeFor(c, f, m)
  BY <1>1, <1>5 DEF CarriesRight
<1> QED
  BY <1>2, <1>3, <1>4, <1>5 DEF CarriesRight

\* A step of one request, seen from what it leaves behind.
LEMMA OneCallMoves ==
  ASSUME OtpInv, NEW w \in Caller, NEW c, call' = [call EXCEPT ![w] = c],
         minted' \in 0..MaxCodes, minted <= minted', codes' \subseteq LiveRow,
         inbox \subseteq inbox',
         NEW f, NEW g, CodesAreFor(f), \A k \in 1..minted : g[k] = f[k],
         \A r \in codes' : MadeFor(r, g, minted'),
         \A k \in inbox' : k \in 1..minted' /\ g[k] \in Own,
         CarriesRight(c, g, minted', inbox'),
         email' # A!Placeholder => email' \in Own /\ handle'
  PROVE  OtpInv'
<1>1. c \in {A!Idle, A!Remove} \cup LoadCall \cup SaveCall \cup CommitCall \cup SendCall \cup WriteCall
  BY DEF CarriesRight
<1>2. call' \in [Caller -> {A!Idle, A!Remove} \cup LoadCall \cup SaveCall \cup CommitCall
                             \cup SendCall \cup WriteCall]
  BY <1>1 DEF OtpInv
<1>3. \A v \in Caller : CarriesRight(call'[v], g, minted', inbox')
  <2> SUFFICES ASSUME NEW v \in Caller PROVE CarriesRight(call'[v], g, minted', inbox')
    OBVIOUS
  <2>1. CASE v = w
    BY <2>1 DEF OtpInv
  <2>2. CASE v # w
    <3>1. call'[v] = call[v] /\ CarriesRight(call[v], f, minted, inbox)
      BY <2>2 DEF OtpInv, CodesAreFor
    <3>2. minted \in Nat /\ minted' \in Nat
      BY CodesMayBeTyped DEF OtpInv
    <3> QED
      BY <3>1, <3>2, StillRight
  <2> QED
    BY <2>1, <2>2
<1>4. CodesAreFor(g)'
  BY <1>3 DEF CodesAreFor
<1> QED
  BY <1>2, <1>4 DEF OtpInv

\* Rows age and stay what they are.
LEMMA OlderRow ==
  ASSUME NEW r \in LiveRow
  PROVE  /\ A!Older(r) \in LiveRow
         /\ A!Older(r).code = r.code /\ A!Older(r).address = r.address
  BY DEF LiveRow, A!Row, A!Older

\* Where a request is tells what it carries.
LEMMA CarriesAt ==
  ASSUME NEW c, NEW f, NEW m, NEW S, CarriesRight(c, f, m, S)
  PROVE  /\ c.pc = "load" => c \in LoadCall /\ (c.op # "ask" => c.typed \in S \cup {A!Wrong})
         /\ c.pc \in {"save", "commit"} =>
              MadeFor(c.row, f, m) /\ (c.next # A!Idle => MadeFor(c.next, f, m))
         /\ c.pc = "save" => c \in SaveCall
         /\ c.pc = "commit" => c \in CommitCall
         /\ c.pc = "send" => c \in SendCall /\ MadeFor(c, f, m)
         /\ c.pc \in {"consume", "write"} => c \in WriteCall
  BY DEF CarriesRight, A!Idle, A!Remove, LoadCall, SaveCall, CommitCall, SendCall, WriteCall

\* A request that ends or removes rows carries nothing.
LEMMA EndsRight ==
  ASSUME OtpInv, NEW w \in Caller, NEW c \in {A!Idle, A!Remove}, A!Goes(w, c),
         UNCHANGED << handle, email, inbox, minted >>, codes' \subseteq codes
  PROVE  OtpInv'
<1> PICK f : CodesAreFor(f)
  BY DEF OtpInv
<1>1. CarriesRight(c, f, minted', inbox')
  BY DEF CarriesRight
<1>2. /\ \A r \in codes' : MadeFor(r, f, minted')
      /\ \A k \in inbox' : k \in 1..minted' /\ f[k] \in Own
  BY DEF CodesAreFor
<1>3. /\ minted' \in 0..MaxCodes /\ minted <= minted' /\ codes' \subseteq LiveRow
      /\ email' # A!Placeholder => email' \in Own /\ handle'
  BY CodesMayBeTyped DEF OtpInv
<1>4. call' = [call EXCEPT ![w] = c]
  BY DEF A!Goes
<1> QED
  BY <1>1, <1>2, <1>3, <1>4, OneCallMoves

\* Of a request that moves on and changes nothing else, only what it carries matters.
LEMMA GoesRight ==
  ASSUME OtpInv, NEW w \in Caller, NEW c, A!Goes(w, c),
         UNCHANGED << handle, email, inbox, minted >>, codes' \subseteq codes,
         NEW f, CodesAreFor(f), CarriesRight(c, f, minted, inbox)
  PROVE  OtpInv'
<1>2. /\ \A r \in codes' : MadeFor(r, f, minted')
      /\ \A k \in inbox' : k \in 1..minted' /\ f[k] \in Own
  BY DEF CodesAreFor
<1>3. /\ minted' \in 0..MaxCodes /\ minted <= minted' /\ codes' \subseteq LiveRow
      /\ email' # A!Placeholder => email' \in Own /\ handle'
  BY CodesMayBeTyped DEF OtpInv
<1>4. call' = [call EXCEPT ![w] = c]
  BY DEF A!Goes
<1> QED
  BY <1>2, <1>3, <1>4, OneCallMoves

\* What an answer does with the row it found.
LEMMA MatchRight ==
  ASSUME OtpInv, NEW w \in Caller, NEW r \in codes, A!At(w, "load"), call[w].op \in {"peek", "set"},
         A!MatchWith(w, r), UNCHANGED << email, handle, codes, inbox, minted >>
  PROVE  OtpInv'
<1> PICK f : CodesAreFor(f)
  BY DEF OtpInv
<1>1. /\ r \in LiveRow /\ MadeFor(r, f, minted)
      /\ call[w] \in LoadCall /\ call[w].typed \in inbox \cup {A!Wrong}
  BY CarriesAt DEF OtpInv, CodesAreFor, A!At
<1>2. CASE A!Goes(w, A!Remove) \/ A!Ends(w)
  BY <1>2, EndsRight DEF A!Ends
<1>3. CASE /\ r.attempts + 1 < MaxAttempts
           /\ A!Goes(w, A!Saving([r EXCEPT !.attempts = r.attempts + 1], A!Idle))
  <2> DEFINE s == [r EXCEPT !.attempts = r.attempts + 1]
  <2>1. s \in LiveRow /\ s.code = r.code /\ s.address = r.address
    BY <1>1, <1>3, CodesMayBeTyped DEF LiveRow, A!Row
  <2>2. MadeFor(s, f, minted)
    BY <1>1, <2>1 DEF MadeFor
  <2> HIDE DEF s
  <2>3. A!Saving(s, A!Idle) \in SaveCall
    BY <2>1 DEF A!Saving, SaveCall, NextCall
  <2>4. CarriesRight(A!Saving(s, A!Idle), f, minted, inbox)
    BY <2>2, <2>3 DEF CarriesRight, A!Saving
  <2> QED
    BY <1>3, <2>4, GoesRight DEF s
<1>4. CASE /\ A!SameAddress(r, call[w].address) /\ r.code = call[w].typed
           /\ A!Goes(w, [pc |-> "consume", address |-> call[w].address,
                         needsEmail |-> call[w].needsEmail])
  <2>1. r.code \in 1..minted /\ r.address = f[r.code]
    BY <1>1 DEF MadeFor
  <2>2. r.code \in inbox
    BY <1>1, <1>4, <2>1 DEF A!Wrong
  <2>3. call[w].address \in Own
    BY <1>4, <2>1, <2>2 DEF CodesAreFor, A!SameAddress
  <2>4. [pc |-> "consume", address |-> call[w].address, needsEmail |-> call[w].needsEmail] \in WriteCall
    BY <1>1, <2>3 DEF WriteCall, LoadCall
  <2> QED
    BY <1>4, <2>4, GoesRight DEF CarriesRight
<1>5. \/ A!Goes(w, A!Remove) \/ A!Ends(w)
      \/ /\ r.attempts + 1 < MaxAttempts
         /\ A!Goes(w, A!Saving([r EXCEPT !.attempts = r.attempts + 1], A!Idle))
      \/ /\ A!SameAddress(r, call[w].address) /\ r.code = call[w].typed
         /\ A!Goes(w, [pc |-> "consume", address |-> call[w].address,
                       needsEmail |-> call[w].needsEmail])
  <2>1. r.attempts + 1 >= MaxAttempts \/ r.attempts + 1 < MaxAttempts
    BY <1>1, CodesMayBeTyped DEF LiveRow, A!Row
  <2> QED
    BY <2>1, Zenon DEF A!MatchWith
<1> QED
  BY <1>2, <1>3, <1>4, <1>5

\* No step of a request breaks it.
LEMMA OtpStep == OtpInv /\ [A!Next]_(A!vars) => OtpInv'
<1> SUFFICES ASSUME OtpInv, [A!Next]_(A!vars) PROVE OtpInv'
  OBVIOUS
<1> PICK f : CodesAreFor(f)
  BY DEF OtpInv
<1>c. ASSUME NEW w \in Caller PROVE CarriesRight(call[w], f, minted, inbox)
  BY <1>c DEF CodesAreFor
<1>1. ASSUME A!TimePasses PROVE OtpInv'
  <2>1. UNCHANGED << email, handle, inbox, minted >> /\ codes' = { A!Older(r) : r \in codes }
    BY <1>1 DEF A!TimePasses
  <2>2. codes' \subseteq LiveRow /\ \A r \in codes' : MadeFor(r, f, minted')
    BY <2>1, OlderRow DEF OtpInv, CodesAreFor, MadeFor
  <2>3. \A w \in Caller :
          /\ CarriesRight(call'[w], f, minted', inbox')
          /\ call'[w] \in {A!Idle, A!Remove} \cup LoadCall \cup SaveCall \cup CommitCall
                            \cup SendCall \cup WriteCall
    <3> SUFFICES ASSUME NEW w \in Caller
                 PROVE  /\ CarriesRight(call'[w], f, minted', inbox')
                        /\ call'[w] \in {A!Idle, A!Remove} \cup LoadCall \cup SaveCall \cup CommitCall
                                          \cup SendCall \cup WriteCall
      OBVIOUS
    <3>1. CASE A!At(w, "save")
      <4> PICK row : row = A!Older(call[w].row)
        OBVIOUS
      <4>1. call'[w] = [call[w] EXCEPT !.row = row]
        BY <1>1, <3>1 DEF A!TimePasses
      <4>2. call[w] \in SaveCall /\ MadeFor(call[w].row, f, minted)
            /\ (call[w].next # A!Idle => MadeFor(call[w].next, f, minted))
        BY <1>c, <3>1, CarriesAt DEF A!At
      <4>3. row \in LiveRow /\ row.code = call[w].row.code /\ row.address = call[w].row.address
        BY <4>2, OlderRow DEF SaveCall
      <4>4. MadeFor(row, f, minted)
        BY <4>2, <4>3 DEF MadeFor
      <4>5. call'[w] \in SaveCall /\ call'[w].row = row /\ call'[w].next = call[w].next
        BY <4>1, <4>2, <4>3 DEF SaveCall
      <4> QED
        BY <2>1, <4>2, <4>4, <4>5 DEF CarriesRight
    <3>2. CASE ~A!At(w, "save")
      <4>1. call'[w] = call[w]
        BY <1>1, <3>2 DEF A!TimePasses
      <4> QED
        BY <1>c, <2>1, <4>1 DEF OtpInv
    <3> QED
      BY <3>1, <3>2
  <2>4. call' \in [Caller -> {A!Idle, A!Remove} \cup LoadCall \cup SaveCall \cup CommitCall
                               \cup SendCall \cup WriteCall]
    BY <1>1, <2>3 DEF A!TimePasses
  <2>5. CodesAreFor(f)'
    BY <2>1, <2>2, <2>3 DEF CodesAreFor
  <2> QED
    BY <2>1, <2>2, <2>4, <2>5 DEF OtpInv
<1>2. ASSUME NEW w \in Caller, NEW op \in {"ask", "peek", "set"}, NEW a \in Address, NEW k \in 0..MaxCodes,
             op # "ask" => k \in inbox \cup {A!Wrong}, A!Begin(w, op, a, k)
      PROVE  OtpInv'
  <2> PICK needs \in BOOLEAN : needs = (email = A!Placeholder)
    BY Zenon
  <2> DEFINE c == [pc |-> "load", op |-> op, address |-> a, typed |-> k, needsEmail |-> needs]
  <2>1. A!Goes(w, c) /\ UNCHANGED << email, handle, codes, inbox, minted >>
    BY <1>2 DEF A!Begin
  <2>2. c \in LoadCall /\ c.op = op /\ c.typed = k
    BY DEF LoadCall
  <2>3. CarriesRight(c, f, minted, inbox)
    BY <1>2, <2>2 DEF CarriesRight
  <2> HIDE DEF c
  <2> QED
    BY <2>1, <2>3, GoesRight
<1>3. ASSUME NEW w \in Caller, A!LoadForAsking(w) PROVE OtpInv'
  <2>1. CASE A!Ends(w) /\ UNCHANGED << email, handle, codes, inbox, minted >>
    BY <2>1, EndsRight DEF A!Ends
  <2>2. ASSUME ~(A!Ends(w) /\ UNCHANGED << email, handle, codes, inbox, minted >>) PROVE OtpInv'
    <3> PICK a : a = call[w].address
      OBVIOUS
    <3> PICK m : m = minted + 1
      OBVIOUS
    <3> PICK row : row = [address |-> a, code |-> m, attempts |-> 0, age |-> "cooling"]
      OBVIOUS
    <3> PICK next : next = [pc |-> "send", address |-> a, code |-> m]
      OBVIOUS
    <3>1. /\ minted < MaxCodes /\ minted' = m /\ A!Goes(w, A!Saving(row, next))
          /\ UNCHANGED << email, handle, codes, inbox >>
      BY <1>3, <2>2 DEF A!LoadForAsking
    <3>2. a \in Address
      BY <1>3, <1>c, CarriesAt DEF A!LoadForAsking, A!At, LoadCall
    <3>3. minted \in Nat /\ m \in 1..MaxCodes /\ minted <= m /\ m \in 0..MaxCodes
      BY <3>1, CodesMayBeTyped DEF OtpInv
    <3> PICK g : g = [k \in 1..m |-> IF k = m THEN a ELSE f[k]]
      OBVIOUS
    <3>4. \A k \in 1..minted : g[k] = f[k] /\ k \in 1..m
      BY <3>3
    <3>5. g[m] = a /\ m \in 1..m
      BY <3>3
    <3>6. row \in LiveRow /\ MadeFor(row, g, m)
      BY <3>2, <3>3, <3>5, CodesMayBeTyped DEF LiveRow, A!Row, MadeFor
    <3>7. next \in SendCall /\ MadeFor(next, g, m)
      BY <3>2, <3>3, <3>5 DEF SendCall, MadeFor
    <3>8. CarriesRight(A!Saving(row, next), g, m, inbox)
      <4>1. A!Saving(row, next) \in SaveCall
        BY <3>6, <3>7 DEF A!Saving, SaveCall, NextCall
      <4> QED
        BY <3>6, <3>7, <4>1 DEF CarriesRight, A!Saving
    <3>9. /\ \A r \in codes' : MadeFor(r, g, minted')
          /\ \A k \in inbox' : k \in 1..minted' /\ g[k] \in Own
      BY <3>1, <3>4 DEF CodesAreFor, MadeFor
    <3>10. /\ minted' \in 0..MaxCodes /\ minted <= minted' /\ codes' \subseteq LiveRow
           /\ inbox \subseteq inbox' /\ call' = [call EXCEPT ![w] = A!Saving(row, next)]
           /\ email' # A!Placeholder => email' \in Own /\ handle'
      BY <3>1, <3>3 DEF OtpInv, A!Goes
    <3>11. CarriesRight(A!Saving(row, next), g, minted', inbox')
      BY <3>1, <3>8
    <3> QED
      BY <3>4, <3>9, <3>10, <3>11, OneCallMoves
  <2> QED
    BY <2>1, <2>2
<1>4. ASSUME NEW w \in Caller, A!DeleteRows(w) PROVE OtpInv'
  <2> DEFINE c == [pc |-> "commit", row |-> call[w].row, next |-> call[w].next, seen |-> codes]
  <2>1. A!Goes(w, c) /\ UNCHANGED << email, handle, codes, inbox, minted >>
    BY <1>4 DEF A!DeleteRows
  <2>2. /\ call[w] \in SaveCall /\ MadeFor(call[w].row, f, minted)
        /\ call[w].next # A!Idle => MadeFor(call[w].next, f, minted)
    BY <1>4, <1>c, CarriesAt DEF A!DeleteRows, A!At
  <2>3. c \in CommitCall
    BY <2>2 DEF SaveCall, CommitCall, OtpInv, LiveRow
  <2>4. CarriesRight(c, f, minted, inbox)
    BY <2>2, <2>3 DEF CarriesRight
  <2> HIDE DEF c
  <2> QED
    BY <2>1, <2>4, GoesRight
<1>5. ASSUME NEW w \in Caller, A!CommitRow(w) PROVE OtpInv'
  <2>1. /\ codes' = (codes \ call[w].seen) \cup {call[w].row}
        /\ call' = [call EXCEPT ![w] = call[w].next]
        /\ UNCHANGED << email, handle, inbox, minted >>
    BY <1>5 DEF A!CommitRow, A!Goes
  <2>2. /\ call[w] \in CommitCall /\ MadeFor(call[w].row, f, minted)
        /\ call[w].next # A!Idle => MadeFor(call[w].next, f, minted)
    BY <1>5, <1>c, CarriesAt DEF A!CommitRow, A!At
  <2>3. CarriesRight(call[w].next, f, minted', inbox')
    BY <2>1, <2>2 DEF CarriesRight, CommitCall, NextCall
  <2>4. codes' \subseteq LiveRow /\ \A r \in codes' : MadeFor(r, f, minted')
    BY <2>1, <2>2 DEF CommitCall, OtpInv, CodesAreFor
  <2>5. /\ minted' \in 0..MaxCodes /\ minted <= minted' /\ inbox \subseteq inbox'
        /\ \A k \in inbox' : k \in 1..minted' /\ f[k] \in Own
        /\ email' # A!Placeholder => email' \in Own /\ handle'
    BY <2>1, CodesMayBeTyped DEF OtpInv, CodesAreFor
  <2> QED
    BY <2>1, <2>3, <2>4, <2>5, OneCallMoves
<1>6. ASSUME NEW w \in Caller, A!RemoveRows(w) \/ A!WriteRefused(w) \/ A!Dies(w) PROVE OtpInv'
  <2>1. A!Goes(w, A!Idle) /\ UNCHANGED << email, handle, inbox, minted >> /\ codes' \subseteq codes
    BY <1>6 DEF A!RemoveRows, A!WriteRefused, A!Dies, A!Ends
  <2> QED
    BY <2>1, EndsRight
<1>7. ASSUME NEW w \in Caller, NEW arrives \in BOOLEAN, A!SendCode(w, arrives) PROVE OtpInv'
  <2>1. /\ inbox' = IF arrives /\ call[w].address \in Own THEN inbox \cup {call[w].code} ELSE inbox
        /\ call' = [call EXCEPT ![w] = A!Idle]
        /\ UNCHANGED << email, handle, codes, minted >>
    BY <1>7 DEF A!SendCode, A!Ends, A!Goes
  <2>2. MadeFor(call[w], f, minted)
    BY <1>7, <1>c, CarriesAt DEF A!SendCode, A!At
  <2>3. inbox \subseteq inbox' /\ \A k \in inbox' : k \in 1..minted' /\ f[k] \in Own
    BY <2>1, <2>2 DEF CodesAreFor, MadeFor
  <2>4. CarriesRight(A!Idle, f, minted', inbox')
    BY DEF CarriesRight
  <2>5. /\ minted' \in 0..MaxCodes /\ minted <= minted' /\ codes' \subseteq LiveRow
        /\ \A r \in codes' : MadeFor(r, f, minted')
        /\ email' # A!Placeholder => email' \in Own /\ handle'
    BY <2>1, CodesMayBeTyped DEF OtpInv, CodesAreFor
  <2> QED
    BY <2>1, <2>3, <2>4, <2>5, OneCallMoves
<1>8. ASSUME NEW w \in Caller, A!Match(w) PROVE OtpInv'
  <2>1. CASE A!Ends(w) /\ UNCHANGED << email, handle, codes, inbox, minted >>
    BY <2>1, EndsRight DEF A!Ends
  <2>2. ASSUME NEW r \in codes, A!MatchWith(w, r) PROVE OtpInv'
    BY <1>8, <2>2, MatchRight DEF A!Match
  <2> QED
    BY <1>8, <2>1, <2>2 DEF A!Match
<1>9. ASSUME NEW w \in Caller, A!Consume(w) PROVE OtpInv'
  <2>1. /\ A!Goes(w, [call[w] EXCEPT !.pc = "write"]) /\ codes' = {}
        /\ UNCHANGED << email, handle, inbox, minted >>
    BY <1>9 DEF A!Consume
  <2>2. call[w] \in WriteCall
    BY <1>9, <1>c, CarriesAt DEF A!Consume, A!At
  <2>3. [call[w] EXCEPT !.pc = "write"] \in WriteCall
    BY <2>2 DEF WriteCall
  <2>4. CarriesRight([call[w] EXCEPT !.pc = "write"], f, minted, inbox)
    BY <2>3 DEF CarriesRight
  <2> QED
    BY <2>1, <2>4, GoesRight
<1>10. ASSUME NEW w \in Caller, A!WriteEmail(w) PROVE OtpInv'
  <2>1. /\ email' = call[w].address /\ handle' = TRUE
        /\ call' = [call EXCEPT ![w] = A!Idle] /\ UNCHANGED << codes, inbox, minted >>
    BY <1>10 DEF A!WriteEmail, A!Ends, A!Goes
  <2>2. call[w].address \in Own
    BY <1>10, <1>c, CarriesAt DEF A!WriteEmail, A!At, WriteCall
  <2>3. CarriesRight(A!Idle, f, minted', inbox')
    BY DEF CarriesRight
  <2>4. /\ minted' \in 0..MaxCodes /\ minted <= minted' /\ codes' \subseteq LiveRow
        /\ inbox \subseteq inbox'
        /\ \A r \in codes' : MadeFor(r, f, minted')
        /\ \A k \in inbox' : k \in 1..minted' /\ f[k] \in Own
        /\ email' # A!Placeholder => email' \in Own /\ handle'
    BY <2>1, <2>2, CodesMayBeTyped DEF OtpInv, CodesAreFor
  <2> QED
    BY <2>1, <2>3, <2>4, OneCallMoves
<1>11. ASSUME UNCHANGED A!vars PROVE OtpInv'
  BY <1>11 DEF A!vars, OtpInv, CodesAreFor
<1>12. ASSUME NEW w \in Caller, A!Step(w) PROVE OtpInv'
  <2>1. A!Wrong \in 0..MaxCodes
    BY CodesMayBeTyped DEF A!Wrong
  <2> QED
    BY <1>2, <1>3, <1>4, <1>5, <1>6, <1>7, <1>8, <1>9, <1>10, <1>12, <2>1
       DEF A!Step, A!AskForCode, A!TypeCode
<1> QED
  BY <1>1, <1>11, <1>12 DEF A!Next

\* However requests for codes, typed codes and saves overlap, the address on the account is
\* one whose mail its owner reads, the name it replaced is kept, and a stored code has tries left.
THEOREM TheAddressIsReadable == A!Spec => []AddressIsReadable
<1>1. OtpInv => AddressIsReadable
  BY DEF OtpInv, LiveRow, AddressIsReadable, A!AddressIsReadable
<1> QED
  BY <1>1, OtpInit, OtpStep, PTL DEF A!Spec

----------------------------------------------------------------------------
\* Reminders

Video == ToSet(Overdue)

\* What a run does, as far as its mails go
RunState == [job : Nat, pc : {"off", "next", "send", "stamp"}, list : Seq(Video), tries : Nat]

Sends(d) == d.pc \in {"send", "stamp"}
To(d) == Owner[Head(d.list)]

\* Of a creator who lost nothing: the one mail of the interval is recorded, or the run that
\* sent it is about to record it; and one run at most is at work on it.
OneMailFor(c) ==
  /\ mailed[c] <= 1
  /\ mailed[c] > 0 => c \in served \/ \E r \in Cron : cron[r].pc = "stamp" /\ To(cron[r]) = c
  /\ \A r \in Cron : cron[r].pc = "send" /\ To(cron[r]) = c => mailed[c] = 0
  /\ \A q, r \in Cron :
       Sends(cron[q]) /\ Sends(cron[r]) /\ To(cron[q]) = c /\ To(cron[r]) = c => q = r

RemindInv ==
  /\ cron \in [Cron -> RunState]
  /\ mailed \in [Creator -> 0..2]
  /\ \A r \in Cron : Sends(cron[r]) => cron[r].list # <<>>
  /\ \A r \in Cron : cron[r].pc = "stamp" => mailed[To(cron[r])] > 0
  /\ \A c \in served : c \in Creator /\ mailed[c] > 0
  /\ \A c \in Creator : c \notin uncertain => OneMailFor(c)

\* The list of a run, one overdue video after the other
TakenTo(g, n) ==
  IF n = 0 THEN <<>>
  ELSE IF Overdue[n] \notin measured /\ Len(g[n - 1]) < BatchLimit
  THEN Append(g[n - 1], Overdue[n])
  ELSE g[n - 1]

IsTaken(g, N) == g = [n \in 0..N |-> TakenTo(g, n)]

\* The recursion is that of a function, whatever the length.
LEMMA TakenExists ==
  ASSUME NEW N \in Nat PROVE \E g : IsTaken(g, N)
<1> DEFINE Good(n) == \E g : IsTaken(g, n)
           Bad == { n \in Nat : ~Good(n) }
<1>1. Good(0)
  <2>1. IsTaken([n \in 0..0 |-> <<>>], 0)
    BY DEF IsTaken, TakenTo
  <2> QED
    BY <2>1
<1>2. ASSUME NEW n \in Nat, Good(n) PROVE Good(n + 1)
  <2>1. PICK g : IsTaken(g, n)
    BY <1>2
  <2> DEFINE h == [k \in 0..(n + 1) |-> TakenTo(g, k)]
  <2>2. \A k \in 0..n : g[k] = TakenTo(g, k)
    BY <2>1 DEF IsTaken
  <2>3. \A k \in 0..n : h[k] = g[k]
    BY <2>2
  <2>4. ASSUME NEW k \in 0..(n + 1) PROVE TakenTo(h, k) = TakenTo(g, k)
    <3>1. CASE k = 0
      BY <3>1 DEF TakenTo
    <3>2. CASE k # 0
      <4>1. h[k - 1] = g[k - 1]
        BY <2>3, <3>2
      <4> HIDE DEF h
      <4> QED
        BY <3>2, <4>1 DEF TakenTo
    <3> QED
      BY <3>1, <3>2
  <2>5. h = [k \in 0..(n + 1) |-> TakenTo(h, k)]
    BY <2>4
  <2> QED
    BY <2>5, Zenon DEF IsTaken
<1> HIDE DEF Good
<1>3. Bad = {}
  <2> SUFFICES ASSUME Bad # {} PROVE FALSE
    OBVIOUS
  <2>1. PICK m \in Bad : \A n \in Bad : m <= n
    BY LeastNumber
  <2>2. m # 0
    BY <1>1
  <2>3. m - 1 \in Nat /\ m - 1 \notin Bad
    BY <2>1, <2>2
  <2>4. Good(m - 1)
    BY <2>3
  <2>5. Good((m - 1) + 1)
    BY <1>2, <2>3, <2>4
  <2> QED
    BY <2>1, <2>5
<1> QED
  BY <1>3 DEF Good

\* The list of a run is one of overdue videos.
LEMMA AwaitingType == R!Awaiting \in Seq(Video)
<1> DEFINE N == Len(Overdue)
           Mine == CHOOSE g : IsTaken(g, N)
<1>1. R!Awaiting = Mine[N]
  BY Zenon DEF R!Awaiting, IsTaken, TakenTo
<1>2. Overdue \in Seq(Video) /\ N \in Nat
  BY OverdueHaveOwners DEF Video
<1>3. IsTaken(Mine, N)
  BY <1>2, TakenExists
<1> HIDE DEF Mine
<1>4. \A n \in 0..N : Mine[n] = TakenTo(Mine, n)
  BY <1>3 DEF IsTaken
<1> DEFINE Bad == { n \in 0..N : Mine[n] \notin Seq(Video) }
<1>5. Bad = {}
  <2> SUFFICES ASSUME Bad # {} PROVE FALSE
    OBVIOUS
  <2>1. Bad \subseteq Nat
    OBVIOUS
  <2>2. PICK m \in Bad : \A n \in Bad : m <= n
    BY <2>1, LeastNumber
  <2>3. m \in 0..N /\ Mine[m] \notin Seq(Video) /\ Mine[m] = TakenTo(Mine, m)
    BY <1>4
  <2>4. m # 0
    <3>1. <<>> \in Seq(Video)
      OBVIOUS
    <3> QED
      BY <2>3, <3>1 DEF TakenTo
  <2>5. m - 1 \in 0..N /\ m - 1 \notin Bad
    BY <1>2, <2>2, <2>3, <2>4
  <2>6. Mine[m - 1] \in Seq(Video)
    BY <2>5
  <2>7. Overdue[m] \in Video
    BY <1>2, <2>3, <2>4
  <2>8. Append(Mine[m - 1], Overdue[m]) \in Seq(Video)
    BY <2>6, <2>7
  <2> QED
    BY <2>3, <2>4, <2>6, <2>8 DEF TakenTo
<1> QED
  BY <1>1, <1>2, <1>5

\* Nobody was mailed yet.
LEMMA RemindInit == R!Init => RemindInv
<1> SUFFICES ASSUME R!Init PROVE RemindInv
  OBVIOUS
<1>1. /\ mailed = [c \in Creator |-> 0] /\ served = {} /\ uncertain = {}
      /\ cron = [r \in Cron |-> R!Idle]
  BY DEF R!Init
<1>2. R!Idle \in RunState /\ R!Idle.pc = "off"
  BY DEF R!Idle, RunState
<1> QED
  BY <1>1, <1>2 DEF RemindInv, OneMailFor, Sends

\* A step of one run that begins no mail: what was mailed only grows, and a creator whose
\* mail is not counted, or not recorded, is among the uncertain.
LEMMA OneRunMoves ==
  ASSUME RemindInv, NEW r \in Cron, NEW d \in RunState, cron' = [cron EXCEPT ![r] = d],
         uncertain \subseteq uncertain', served \subseteq served', served' \subseteq Creator,
         mailed' \in [Creator -> 0..2], \A c \in Creator : mailed[c] <= mailed'[c],
         \A c \in Creator : c \notin uncertain' => mailed'[c] = mailed[c],
         \A c \in served' : mailed[c] > 0,
         Sends(d) => Sends(cron[r]) /\ d.pc = cron[r].pc /\ d.list # <<>>
                     /\ Head(d.list) = Head(cron[r].list),
         cron[r].pc = "stamp" /\ d.pc # "stamp" => To(cron[r]) \in served' \cup uncertain'
  PROVE  RemindInv'
<1>1. cron' \in [Cron -> RunState] /\ cron'[r] = d /\ \A q \in Cron : q # r => cron'[q] = cron[q]
  BY DEF RemindInv
<1>2. \A q \in Cron : Sends(cron'[q]) =>
        /\ Sends(cron[q]) /\ cron'[q].pc = cron[q].pc /\ cron'[q].list # <<>>
        /\ To(cron'[q]) = To(cron[q])
  BY <1>1 DEF RemindInv, To
<1>3. \A q \in Cron : Sends(cron[q]) => To(cron[q]) \in Creator
  <2> SUFFICES ASSUME NEW q \in Cron, Sends(cron[q]) PROVE To(cron[q]) \in Creator
    OBVIOUS
  <2>1. cron[q].list \in Seq(Video) /\ cron[q].list # <<>>
    BY DEF RemindInv, RunState
  <2>2. Head(cron[q].list) \in Video
    BY <2>1
  <2> QED
    BY <2>2, OverdueHaveOwners DEF To, Video
<1>4. \A q \in Cron : cron'[q].pc = "stamp" => mailed'[To(cron'[q])] > 0
  <2> SUFFICES ASSUME NEW q \in Cron, cron'[q].pc = "stamp" PROVE mailed'[To(cron'[q])] > 0
    OBVIOUS
  <2>1. cron[q].pc = "stamp" /\ To(cron'[q]) = To(cron[q]) /\ To(cron[q]) \in Creator
    BY <1>2, <1>3 DEF Sends
  <2>2. /\ mailed[To(cron[q])] > 0 /\ mailed[To(cron[q])] <= mailed'[To(cron[q])]
        /\ mailed[To(cron[q])] \in Int /\ mailed'[To(cron[q])] \in Int
    BY <2>1 DEF RemindInv
  <2> QED
    BY <2>1, <2>2
<1>5. \A c \in served' : c \in Creator /\ mailed'[c] > 0
  <2> SUFFICES ASSUME NEW c \in served' PROVE c \in Creator /\ mailed'[c] > 0
    OBVIOUS
  <2>1. c \in Creator /\ mailed[c] > 0 /\ mailed[c] \in Int /\ mailed'[c] \in Int /\ mailed[c] <= mailed'[c]
    BY DEF RemindInv
  <2> QED
    BY <2>1
<1>6. \A c \in Creator : c \notin uncertain' => OneMailFor(c)'
  <2> SUFFICES ASSUME NEW c \in Creator, c \notin uncertain' PROVE OneMailFor(c)'
    OBVIOUS
  <2>1. mailed'[c] = mailed[c] /\ OneMailFor(c)
    BY DEF RemindInv
  <2>2. mailed'[c] <= 1
    BY <2>1 DEF OneMailFor
  <2>3. mailed'[c] > 0 => c \in served' \/ \E q \in Cron : cron'[q].pc = "stamp" /\ To(cron'[q]) = c
    <3> SUFFICES ASSUME mailed[c] > 0, c \notin served'
                 PROVE  \E q \in Cron : cron'[q].pc = "stamp" /\ To(cron'[q]) = c
      BY <2>1
    <3>1. PICK q \in Cron : cron[q].pc = "stamp" /\ To(cron[q]) = c
      BY <2>1 DEF OneMailFor
    <3>2. CASE q = r
      <4>1. d.pc = "stamp"
        BY <3>1, <3>2
      <4>2. cron'[q].pc = "stamp"
        BY <1>1, <3>2, <4>1
      <4> QED
        BY <1>2, <3>1, <4>2 DEF Sends
    <3>3. CASE q # r
      BY <1>1, <3>1, <3>3
    <3> QED
      BY <3>2, <3>3
  <2>4. \A q \in Cron : cron'[q].pc = "send" /\ To(cron'[q]) = c => mailed'[c] = 0
    BY <1>2, <2>1 DEF OneMailFor, Sends
  <2>5. \A p, q \in Cron :
          Sends(cron'[p]) /\ Sends(cron'[q]) /\ To(cron'[p]) = c /\ To(cron'[q]) = c => p = q
    BY <1>2, <2>1 DEF OneMailFor
  <2> QED
    BY <2>2, <2>3, <2>4, <2>5 DEF OneMailFor, Sends, To
<1>7. \A q \in Cron : Sends(cron'[q]) => cron'[q].list # <<>>
  BY <1>2
<1> QED
  BY <1>1, <1>4, <1>5, <1>6, <1>7 DEF RemindInv, Sends, To

\* What a run has at hand is one of the videos, whose owner is a creator.
LEMMA ToIsCreator ==
  ASSUME RemindInv, NEW r \in Cron, cron[r].list # <<>>
  PROVE  To(cron[r]) \in Creator /\ R!Addressee(r) = To(cron[r])
<1>1. cron[r].list \in Seq(Video)
  BY DEF RemindInv, RunState
<1>2. Head(cron[r].list) \in Video
  BY <1>1
<1> QED
  BY <1>2, OverdueHaveOwners DEF To, Video, R!Addressee, R!Current

\* The end of a mail leaves the run without one.
LEMMA DoneType ==
  ASSUME RemindInv, NEW r \in Cron, cron[r].list # <<>>
  PROVE  R!Done(r) \in RunState /\ ~Sends(R!Done(r))
<1>1. cron[r] \in RunState /\ cron[r].list \in Seq(Video)
  BY DEF RemindInv, RunState
<1>2. Tail(cron[r].list) \in Seq(Video)
  BY <1>1
<1>3. <<>> \in Seq(Video)
  OBVIOUS
<1> QED
  BY <1>1, <1>2, <1>3 DEF R!Done, R!Idle, RunState, Sends

\* Nothing is mailed or recorded, and no mail is begun, continued, or left without a stamp.
LEMMA QuietMove ==
  ASSUME RemindInv, NEW r \in Cron, NEW d \in RunState, cron' = [cron EXCEPT ![r] = d],
         mailed' = mailed, served' = served, uncertain' = uncertain,
         cron[r].pc # "stamp", ~Sends(d)
  PROVE  RemindInv'
<1>1. \A c \in Creator : mailed[c] \in Int
  BY DEF RemindInv
<1>2. \A c \in Creator : mailed[c] <= mailed'[c]
  BY <1>1
<1> QED
  BY <1>2, OneRunMoves DEF RemindInv

\* A run begins.
LEMMA StartRunStep ==
  ASSUME RemindInv, NEW r \in Cron, R!StartRun(r) PROVE RemindInv'
<1>1. cron[r] = R!Idle /\ R!Idle.pc = "off" /\ R!Idle.list = <<>> /\ cron[r] \in RunState
  BY DEF R!StartRun, R!Idle, RemindInv
<1> DEFINE d == [cron[r] EXCEPT !.job = 1]
<1>2. cron' = [cron EXCEPT ![r] = d]
  BY DEF R!StartRun
<1>3. d \in RunState /\ d.pc = "off"
  BY <1>1 DEF RunState
<1> QED
  BY <1>1, <1>2, <1>3, QuietMove DEF R!StartRun, Sends

\* After a job comes a job, or the end.
LEMMA FollowingType ==
  ASSUME NEW job \in Nat PROVE R!Following(job) \in Nat /\ R!AfterFailedJob(job) \in Nat
  BY DEF R!Following, R!AfterFailedJob

\* A run goes on with the mail it has at hand.
LEMMA SameMail ==
  ASSUME RemindInv, NEW r \in Cron, NEW d \in RunState, cron' = [cron EXCEPT ![r] = d],
         mailed' = mailed, served' = served, uncertain' = uncertain,
         d.pc = cron[r].pc,
         Sends(d) => d.list # <<>> /\ Head(d.list) = Head(cron[r].list)
  PROVE  RemindInv'
<1>1. \A c \in Creator : mailed[c] <= mailed'[c]
  BY DEF RemindInv
<1>2. Sends(d) => Sends(cron[r])
  BY DEF Sends
<1> QED
  BY <1>1, <1>2, OneRunMoves DEF RemindInv

\* Another job has its turn.
LEMMA OtherJobStep ==
  ASSUME RemindInv, NEW r \in Cron, R!OtherJob(r) PROVE RemindInv'
<1>1. cron[r] \in RunState /\ (Sends(cron[r]) => cron[r].list # <<>>)
  BY DEF RemindInv
<1>2. PICK next \in { R!Following(cron[r].job), R!AfterFailedJob(cron[r].job) } :
        cron' = [cron EXCEPT ![r].job = next]
  BY DEF R!OtherJob
<1> DEFINE d == [cron[r] EXCEPT !.job = next]
<1>3. next \in Nat
  BY <1>1, FollowingType DEF RunState
<1>4. cron' = [cron EXCEPT ![r] = d]
  BY <1>2
<1>5. d \in RunState /\ d.pc = cron[r].pc /\ d.list = cron[r].list
  BY <1>1, <1>3 DEF RunState
<1>6. Sends(d) => d.list # <<>> /\ Head(d.list) = Head(cron[r].list)
  BY <1>1, <1>5 DEF Sends
<1> HIDE DEF d
<1> QED
  BY <1>4, <1>5, <1>6, SameMail DEF R!OtherJob

\* The list could not be read.
LEMMA ListFailsStep ==
  ASSUME RemindInv, NEW r \in Cron, R!ListFails(r) PROVE RemindInv'
<1>1. cron[r] \in RunState /\ cron[r].pc = "off"
  BY DEF RemindInv, R!ListFails
<1> DEFINE d == [cron[r] EXCEPT !.job = R!AfterFailedJob(@)]
<1>2. cron' = [cron EXCEPT ![r] = d]
  BY DEF R!ListFails
<1>3. R!AfterFailedJob(cron[r].job) \in Nat
  BY <1>1, FollowingType DEF RunState
<1>4. d \in RunState /\ d.pc = "off"
  BY <1>1, <1>3 DEF RunState
<1> HIDE DEF d
<1> QED
  BY <1>1, <1>2, <1>4, QuietMove DEF R!ListFails, Sends

\* A run that timed out still ends the mail it has at hand.
LEMMA TimesOutStep ==
  ASSUME RemindInv, NEW r \in Cron, R!TimesOut(r) PROVE RemindInv'
<1>1. cron[r] \in RunState /\ (Sends(cron[r]) => cron[r].list # <<>>)
  BY DEF RemindInv
<1>2. CASE Sends(cron[r])
  <2> DEFINE d == [cron[r] EXCEPT !.job = 0, !.list = << Head(cron[r].list) >>]
  <2>1. cron' = [cron EXCEPT ![r] = d]
    <3>1. cron' = [cron EXCEPT ![r] = IF cron[r].pc \in {"send", "stamp"} THEN d ELSE R!Idle]
      BY Zenon DEF R!TimesOut
    <3>2. cron[r].pc \in {"send", "stamp"}
      BY <1>2 DEF Sends
    <3> QED
      BY <3>1, <3>2, Zenon
  <2>2. Head(cron[r].list) \in Video
    BY <1>1, <1>2 DEF RunState
  <2>3. << Head(cron[r].list) >> \in Seq(Video)
    BY <2>2
  <2>4. /\ d \in RunState /\ d.pc = cron[r].pc /\ d.list = << Head(cron[r].list) >>
    BY <1>1, <2>3 DEF RunState
  <2>5. d.list # <<>> /\ Head(d.list) = Head(cron[r].list)
    BY <2>4
  <2> HIDE DEF d
  <2> QED
    BY <2>1, <2>4, <2>5, SameMail DEF R!TimesOut
<1>3. CASE ~Sends(cron[r])
  <2>1. cron' = [cron EXCEPT ![r] = R!Idle]
    BY <1>3 DEF R!TimesOut, Sends
  <2>2. R!Idle \in RunState /\ ~Sends(R!Idle)
    BY DEF R!Idle, RunState, Sends
  <2> QED
    BY <1>3, <2>1, <2>2, QuietMove DEF R!TimesOut, Sends
<1> QED
  BY <1>2, <1>3

\* The list is read.
LEMMA SelectAwaitingStep ==
  ASSUME RemindInv, NEW r \in Cron, R!SelectAwaiting(r) PROVE RemindInv'
<1>1. cron[r] \in RunState /\ cron[r].pc = "off"
  BY DEF RemindInv, R!SelectAwaiting
<1> DEFINE d == [cron[r] EXCEPT !.pc = "next", !.list = R!Awaiting]
<1>2. cron' = [cron EXCEPT ![r] = d]
  BY DEF R!SelectAwaiting
<1>3. d \in RunState /\ d.pc = "next"
  BY <1>1, AwaitingType DEF RunState
<1> HIDE DEF d
<1> QED
  BY <1>1, <1>2, <1>3, QuietMove DEF R!SelectAwaiting, Sends

\* The next video is passed over, or its transaction fails, or its mail is muted.
LEMMA PassesOver ==
  ASSUME RemindInv, NEW r \in Cron, R!Skip(r) \/ R!RemindFails(r) \/ R!MutedMail(r)
  PROVE  RemindInv'
<1>1. cron[r].list # <<>> /\ cron[r].pc # "stamp"
  BY DEF R!Skip, R!RemindFails, R!MutedMail, R!AtNext, RemindInv, Sends
<1>2. cron' = [cron EXCEPT ![r] = R!Done(r)]
  BY DEF R!Skip, R!RemindFails, R!MutedMail
<1>3. mailed' = mailed /\ served' = served /\ uncertain' = uncertain
  BY DEF R!Skip, R!RemindFails, R!MutedMail
<1> QED
  BY <1>1, <1>2, <1>3, DoneType, QuietMove

\* The list is done.
LEMMA FinishRemindersStep ==
  ASSUME RemindInv, NEW r \in Cron, R!FinishReminders(r) PROVE RemindInv'
<1>1. cron[r] \in RunState /\ cron[r].pc = "next"
  BY DEF RemindInv, R!FinishReminders
<1> DEFINE d == [R!Idle EXCEPT !.job = R!Following(cron[r].job)]
<1>2. cron' = [cron EXCEPT ![r] = d]
  BY DEF R!FinishReminders
<1>3. R!Following(cron[r].job) \in Nat
  BY <1>1, FollowingType DEF RunState
<1>4. d \in RunState /\ d.pc = "off"
  <2>1. d = [job |-> R!Following(cron[r].job), pc |-> "off", list |-> <<>>, tries |-> 0]
    BY DEF R!Idle
  <2>2. <<>> \in Seq(Video)
    OBVIOUS
  <2> HIDE DEF d
  <2> QED
    BY <1>3, <2>1, <2>2 DEF RunState
<1> HIDE DEF d
<1> QED
  BY <1>1, <1>2, <1>4, QuietMove DEF R!FinishReminders, Sends

\* A row is written for a creator without one: unless another run is at work on the same
\* creator, nothing was mailed to them yet.
LEMMA RemindOneStep ==
  ASSUME RemindInv, NEW r \in Cron, R!RemindOne(r) PROVE RemindInv'
<1> DEFINE d == [cron[r] EXCEPT !.pc = "send", !.tries = 1]
           met(c) == \E q \in Cron \ {r} : Sends(cron[q]) /\ To(cron[q]) = c
<1>1. cron[r] \in RunState /\ cron[r].pc = "next" /\ cron[r].list # <<>>
  BY DEF RemindInv, R!RemindOne, R!AtNext
<1>2. To(cron[r]) \in Creator /\ R!Addressee(r) = To(cron[r]) /\ To(cron[r]) \notin served
  BY <1>1, ToIsCreator DEF R!RemindOne, R!HasReminder
<1>3. cron' = [cron EXCEPT ![r] = d]
  BY DEF R!RemindOne
<1>4. mailed' = mailed /\ served' = served
  BY DEF R!RemindOne
<1>5. uncertain \subseteq uncertain' /\ (met(To(cron[r])) => To(cron[r]) \in uncertain')
  <2>1. \A q \in Cron : Sends(cron[q]) => R!Addressee(q) = To(cron[q])
    BY ToIsCreator DEF RemindInv
  <2>2. uncertain' = IF \E q \in Cron \ {r} : cron[q].pc \in {"send", "stamp"}
                                               /\ R!Addressee(q) = R!Addressee(r)
                     THEN uncertain \cup {R!Addressee(r)} ELSE uncertain
    BY DEF R!RemindOne
  <2> QED
    BY <1>2, <2>1, <2>2 DEF Sends
<1>6. d \in RunState /\ d.pc = "send" /\ d.list = cron[r].list /\ To(d) = To(cron[r])
  BY <1>1 DEF RunState, To
<1> HIDE DEF d
<1>7. cron' \in [Cron -> RunState] /\ cron'[r] = d /\ \A q \in Cron : q # r => cron'[q] = cron[q]
  BY <1>3, <1>6 DEF RemindInv
<1>8. \A c \in Creator : c \notin uncertain' => OneMailFor(c)'
  <2> SUFFICES ASSUME NEW c \in Creator, c \notin uncertain' PROVE OneMailFor(c)'
    OBVIOUS
  <2>1. OneMailFor(c) /\ mailed[c] \in 0..2
    BY <1>5 DEF RemindInv
  <2>2. To(cron[r]) = c => ~met(c)
    BY <1>5
  <2>3. To(cron[r]) = c => mailed[c] = 0
    <3> SUFFICES ASSUME To(cron[r]) = c PROVE ~(mailed[c] > 0)
      BY <2>1
    <3>1. \A q \in Cron : ~(cron[q].pc = "stamp" /\ To(cron[q]) = c)
      BY <1>1, <2>2 DEF Sends
    <3> QED
      BY <1>2, <2>1, <3>1 DEF OneMailFor
  <2>4. mailed[c] > 0 => c \in served \/ \E q \in Cron : cron'[q].pc = "stamp" /\ To(cron'[q]) = c
    BY <1>1, <1>7, <2>1 DEF OneMailFor
  <2>5. \A q \in Cron : cron'[q].pc = "send" /\ To(cron'[q]) = c => mailed[c] = 0
    BY <1>6, <1>7, <2>1, <2>3 DEF OneMailFor
  <2>6. ASSUME NEW p \in Cron, NEW q \in Cron, Sends(cron'[p]), Sends(cron'[q]),
               To(cron'[p]) = c, To(cron'[q]) = c
        PROVE  p = q
    <3>1. CASE p # r /\ q # r
      BY <1>7, <2>1, <2>6, <3>1 DEF OneMailFor
    <3>2. CASE p = r /\ q # r
      BY <1>6, <1>7, <2>2, <2>6, <3>2
    <3>3. CASE p # r /\ q = r
      BY <1>6, <1>7, <2>2, <2>6, <3>3
    <3> QED
      BY <3>1, <3>2, <3>3
  <2> QED
    BY <1>4, <2>1, <2>4, <2>5, <2>6 DEF OneMailFor, Sends, To
<1>9. \A q \in Cron : Sends(cron'[q]) => cron'[q].list # <<>>
  BY <1>1, <1>6, <1>7 DEF RemindInv
<1>10. \A q \in Cron : cron'[q].pc = "stamp" => mailed'[To(cron'[q])] > 0
  BY <1>4, <1>6, <1>7 DEF RemindInv
<1> QED
  BY <1>4, <1>7, <1>8, <1>9, <1>10 DEF RemindInv, Sends, To

\* The mail is sent: the first one to its creator, unless that creator is uncertain.
LEMMA SendMailStep ==
  ASSUME RemindInv, NEW r \in Cron, R!SendMail(r) PROVE RemindInv'
<1> DEFINE d == [cron[r] EXCEPT !.pc = "stamp"]
           a == To(cron[r])
<1>1. cron[r] \in RunState /\ cron[r].pc = "send" /\ cron[r].list # <<>>
  BY DEF RemindInv, R!SendMail, Sends
<1>2. a \in Creator /\ R!Addressee(r) = a
  BY <1>1, ToIsCreator
<1>3. cron' = [cron EXCEPT ![r] = d]
  BY DEF R!SendMail
<1>4. served' = served /\ uncertain' = uncertain
  BY DEF R!SendMail
<1>5. mailed' = [mailed EXCEPT ![a] = IF mailed[a] = 2 THEN 2 ELSE mailed[a] + 1]
  BY <1>2 DEF R!SendMail, R!OneMore
<1>6. d \in RunState /\ d.pc = "stamp" /\ d.list = cron[r].list /\ To(d) = a
  BY <1>1 DEF RunState, To
<1> HIDE DEF d, a
<1>7. cron' \in [Cron -> RunState] /\ cron'[r] = d /\ \A q \in Cron : q # r => cron'[q] = cron[q]
  BY <1>3, <1>6 DEF RemindInv
<1>8. /\ mailed' \in [Creator -> 0..2] /\ mailed'[a] > 0
      /\ \A c \in Creator : c # a => mailed'[c] = mailed[c]
  BY <1>2, <1>5 DEF RemindInv
<1>9. \A c \in Creator : c \notin uncertain' => OneMailFor(c)'
  <2> SUFFICES ASSUME NEW c \in Creator, c \notin uncertain' PROVE OneMailFor(c)'
    OBVIOUS
  <2>1. OneMailFor(c) /\ mailed[c] \in 0..2
    BY <1>4 DEF RemindInv
  <2>2. CASE c = a
    <3>1. mailed[c] = 0
      BY <1>1, <2>1, <2>2 DEF OneMailFor, a
    <3>2. mailed'[c] <= 1
      BY <1>5, <1>2, <2>2, <3>1 DEF RemindInv
    <3>3. \A q \in Cron : q # r => ~(Sends(cron[q]) /\ To(cron[q]) = c)
      BY <1>1, <2>1, <2>2 DEF OneMailFor, Sends, a
    <3>4. \A q \in Cron : Sends(cron'[q]) /\ To(cron'[q]) = c => q = r
      BY <1>7, <3>3
    <3>5. cron'[r].pc = "stamp" /\ To(cron'[r]) = c
      BY <1>6, <1>7, <2>2
    <3>6. \A q \in Cron : cron'[q].pc = "send" /\ To(cron'[q]) = c => mailed'[c] = 0
      BY <3>4, <3>5 DEF Sends
    <3> QED
      BY <3>2, <3>4, <3>5, <3>6 DEF OneMailFor, Sends, To
  <2>3. CASE c # a
    <3>1. mailed'[c] = mailed[c]
      BY <1>8, <2>3
    <3>2. \A q \in Cron : To(cron'[q]) = c => cron'[q] = cron[q]
      BY <1>6, <1>7, <2>3
    <3>3. \A q \in Cron : To(cron[q]) = c => cron'[q] = cron[q]
      BY <1>7, <2>3 DEF a
    <3>4. mailed'[c] > 0 => c \in served' \/ \E q \in Cron : cron'[q].pc = "stamp" /\ To(cron'[q]) = c
      BY <1>4, <2>1, <3>1, <3>3 DEF OneMailFor
    <3>5. \A q \in Cron : cron'[q].pc = "send" /\ To(cron'[q]) = c => mailed'[c] = 0
      BY <2>1, <3>1, <3>2 DEF OneMailFor
    <3>6. \A p, q \in Cron :
            Sends(cron'[p]) /\ Sends(cron'[q]) /\ To(cron'[p]) = c /\ To(cron'[q]) = c => p = q
      BY <2>1, <3>2 DEF OneMailFor
    <3>7. mailed'[c] <= 1
      BY <2>1, <3>1 DEF OneMailFor
    <3> QED
      BY <3>4, <3>5, <3>6, <3>7 DEF OneMailFor, Sends, To
  <2> QED
    BY <2>2, <2>3
<1>10. \A q \in Cron : Sends(cron'[q]) => cron'[q].list # <<>>
  BY <1>1, <1>6, <1>7 DEF RemindInv
<1>11. \A q \in Cron : cron'[q].pc = "stamp" => mailed'[To(cron'[q])] > 0
  <2> SUFFICES ASSUME NEW q \in Cron, cron'[q].pc = "stamp" PROVE mailed'[To(cron'[q])] > 0
    OBVIOUS
  <2>1. CASE To(cron'[q]) = a
    BY <1>8, <2>1
  <2>2. CASE To(cron'[q]) # a
    <3>1. cron'[q] = cron[q]
      BY <1>6, <1>7, <2>2
    <3>2. To(cron[q]) \in Creator /\ mailed[To(cron[q])] > 0
      BY <3>1, ToIsCreator DEF RemindInv, Sends
    <3> QED
      BY <1>8, <2>2, <3>1, <3>2
  <2> QED
    BY <2>1, <2>2
<1>12. \A c \in served' : c \in Creator /\ mailed'[c] > 0
  BY <1>4, <1>8 DEF RemindInv
<1> QED
  BY <1>7, <1>8, <1>9, <1>10, <1>11, <1>12 DEF RemindInv, Sends, To

\* Whether or not the mail went out after all, it is not recorded.
LEMMA SendFailsStep ==
  ASSUME RemindInv, NEW r \in Cron, NEW sent \in BOOLEAN, R!SendFails(r, sent) PROVE RemindInv'
<1> DEFINE a == To(cron[r])
           d == [cron[r] EXCEPT !.tries = @ + 1]
<1>1. cron[r] \in RunState /\ cron[r].pc = "send" /\ cron[r].list # <<>>
  BY DEF RemindInv, R!SendFails, Sends
<1>2. a \in Creator /\ R!Addressee(r) = a
  BY <1>1, ToIsCreator
<1>3. served' = served /\ served \subseteq Creator
  BY DEF R!SendFails, RemindInv
<1>4. \/ sent /\ mailed' = R!OneMore(a) /\ uncertain' = uncertain \cup {a}
      \/ mailed' = mailed /\ uncertain' = uncertain
  BY <1>2 DEF R!SendFails
<1>5. R!OneMore(a) = [mailed EXCEPT ![a] = IF mailed[a] = 2 THEN 2 ELSE mailed[a] + 1]
  BY DEF R!OneMore
<1>6. cron' = [cron EXCEPT ![r] = d] \/ cron' = [cron EXCEPT ![r] = R!Done(r)]
  BY DEF R!SendFails, R!GiveUp
<1>7. d \in RunState /\ d.pc = "send" /\ d.list = cron[r].list
  BY <1>1 DEF RunState
<1> HIDE DEF a, d
<1>8. /\ mailed' \in [Creator -> 0..2] /\ \A c \in Creator : mailed[c] <= mailed'[c]
      /\ \A c \in Creator : c \notin uncertain' => mailed'[c] = mailed[c]
      /\ uncertain \subseteq uncertain'
  <2>1. mailed \in [Creator -> 0..2]
    BY DEF RemindInv
  <2>2. CASE mailed' = mailed /\ uncertain' = uncertain
    BY <2>1, <2>2
  <2>3. CASE mailed' = R!OneMore(a) /\ uncertain' = uncertain \cup {a}
    BY <1>2, <1>5, <2>1, <2>3
  <2> QED
    BY <1>4, <2>2, <2>3
<1>9. PICK e \in {d, R!Done(r)} : cron' = [cron EXCEPT ![r] = e]
  BY <1>6
<1>10. e \in RunState /\ (Sends(e) => e = d)
  BY <1>1, <1>7, <1>9, DoneType
<1>11. Sends(e) => Sends(cron[r]) /\ e.pc = cron[r].pc /\ e.list # <<>>
                   /\ Head(e.list) = Head(cron[r].list)
  BY <1>1, <1>7, <1>10 DEF Sends
<1>12. \A c \in served' : mailed[c] > 0
  BY <1>3 DEF RemindInv
<1> QED
  BY <1>1, <1>3, <1>8, <1>9, <1>10, <1>11, <1>12, OneRunMoves

\* The stamp records a mail that was sent.
LEMMA StampStep ==
  ASSUME RemindInv, NEW r \in Cron, R!Stamp(r) \/ R!StampFails(r) PROVE RemindInv'
<1>1. cron[r] \in RunState /\ cron[r].pc = "stamp" /\ cron[r].list # <<>>
  BY DEF RemindInv, R!Stamp, R!StampFails, Sends
<1>2. /\ To(cron[r]) \in Creator /\ R!Addressee(r) = To(cron[r]) /\ mailed[To(cron[r])] > 0
  BY <1>1, ToIsCreator DEF RemindInv
<1>3. cron' = [cron EXCEPT ![r] = R!Done(r)] /\ mailed' = mailed
  BY DEF R!Stamp, R!StampFails
<1>4. R!Done(r) \in RunState /\ ~Sends(R!Done(r))
  BY <1>1, DoneType
<1>5. /\ served \subseteq served' /\ uncertain \subseteq uncertain'
      /\ served' \subseteq served \cup {To(cron[r])}
      /\ To(cron[r]) \in served' \cup uncertain'
  BY <1>2 DEF R!Stamp, R!StampFails
<1>6. served' \subseteq Creator /\ \A c \in served' : mailed[c] > 0
  BY <1>2, <1>5 DEF RemindInv
<1>7. /\ mailed' \in [Creator -> 0..2] /\ \A c \in Creator : mailed[c] <= mailed'[c]
      /\ \A c \in Creator : c \notin uncertain' => mailed'[c] = mailed[c]
  BY <1>3 DEF RemindInv
<1> QED
  BY <1>3, <1>4, <1>5, <1>6, <1>7, OneRunMoves

\* What dies before its stamp leaves its creator uncertain.
LEMMA RunCrashes ==
  ASSUME RemindInv, NEW r \in Cron, R!Crash(r) PROVE RemindInv'
<1>1. cron' = [cron EXCEPT ![r] = R!Idle] /\ mailed' = mailed /\ served' = served
  BY DEF R!Crash
<1>2. R!Idle \in RunState /\ ~Sends(R!Idle)
  BY DEF R!Idle, RunState, Sends
<1>3. cron[r].pc = "stamp" => R!Addressee(r) = To(cron[r])
  BY ToIsCreator DEF RemindInv, Sends
<1>4. uncertain \subseteq uncertain' /\ (cron[r].pc = "stamp" => To(cron[r]) \in uncertain')
  BY <1>3 DEF R!Crash
<1>5. /\ mailed' \in [Creator -> 0..2] /\ \A c \in Creator : mailed[c] <= mailed'[c]
      /\ \A c \in Creator : c \notin uncertain' => mailed'[c] = mailed[c]
      /\ served \subseteq served' /\ served' \subseteq Creator /\ \A c \in served' : mailed[c] > 0
  BY <1>1 DEF RemindInv
<1> QED
  BY <1>1, <1>2, <1>4, <1>5, OneRunMoves

\* The interval ends when no run is at work.
LEMMA IntervalPassesStep ==
  ASSUME RemindInv, R!IntervalPasses PROVE RemindInv'
<1>1. /\ mailed' = [c \in Creator |-> 0] /\ served' = {} /\ cron' = cron
      /\ \A r \in Cron : cron[r] = R!Idle
  BY DEF R!IntervalPasses
<1>2. R!Idle.pc = "off"
  BY DEF R!Idle
<1>3. \A r \in Cron : cron'[r].pc = "off"
  BY <1>1, <1>2
<1> QED
  BY <1>1, <1>3 DEF RemindInv, OneMailFor, Sends

\* No step of a run breaks it.
LEMMA RemindStep == RemindInv /\ [R!Next]_(R!vars) => RemindInv'
<1> SUFFICES ASSUME RemindInv, [R!Next]_(R!vars) PROVE RemindInv'
  OBVIOUS
<1>1. CASE mailed' = mailed /\ served' = served /\ cron' = cron /\ uncertain' = uncertain
  BY <1>1 DEF RemindInv, OneMailFor, Sends, To
<1>2. CASE R!IntervalPasses
  BY <1>2, IntervalPassesStep
<1>3. ASSUME NEW v, R!RecordMetrics(v) PROVE RemindInv'
  BY <1>1, <1>3 DEF R!RecordMetrics
<1>4. ASSUME NEW c, NEW off, R!SetMuted(c, off) PROVE RemindInv'
  BY <1>1, <1>4 DEF R!SetMuted
<1>5. ASSUME NEW r \in Cron,
             R!StartRun(r) \/ R!OtherJob(r) \/ R!Remind(r) \/ R!TimesOut(r) \/ R!Crash(r)
      PROVE  RemindInv'
  <2>1. CASE R!Remind(r)
    BY <2>1, SelectAwaitingStep, ListFailsStep, RemindOneStep, PassesOver, SendMailStep,
       SendFailsStep, StampStep, FinishRemindersStep DEF R!Remind
  <2> QED
    BY <1>5, <2>1, StartRunStep, OtherJobStep, TimesOutStep, RunCrashes
<1>6. CASE UNCHANGED R!vars
  BY <1>1, <1>6 DEF R!vars
<1> QED
  BY <1>2, <1>3, <1>4, <1>5, <1>6 DEF R!Next

\* Whatever fails, times out or dies: a creator gets one mail an interval unless an answer or
\* a stamp was lost or two runs met, and whoever counts as told was mailed (remindOne of
\* metric-reminders.ts and flush of notify.ts).
THEOREM OneReminderAnInterval == R!Spec => []MailsMatchTheRecord
<1>1. RemindInv => MailsMatchTheRecord
  BY DEF RemindInv, OneMailFor, MailsMatchTheRecord, R!MailsMatchTheRecord
<1> QED
  BY <1>1, RemindInit, RemindStep, PTL DEF R!Spec

----------------------------------------------------------------------------
\* Figures

\* The instance sums and counts as the library does.
LEMMA SameSum ==
  ASSUME NEW f, NEW S PROVE I!SumFunctionOnSet(f, S) = SumFunctionOnSet(f, S)
  BY Zenon DEF SumFunctionOnSet, I!SumFunctionOnSet, FoldFunctionOnSet, I!FoldFunctionOnSet,
     MapThenFoldSet, I!MapThenFoldSet

\* And it counts members as the library does.
LEMMA SameNumber ==
  ASSUME NEW S PROVE I!Cardinality(S) = Cardinality(S)
  BY Zenon DEF Cardinality, I!Cardinality, IsFiniteSet, I!IsFiniteSet

Counted(f, S) == { x \in S : f[x] # Null }

\* KnownSum, of a function on any larger set
SumIfAny(f, S) == IF Counted(f, S) = {} THEN Null ELSE SumFunctionOnSet(f, Counted(f, S))

\* What KnownSum is.
LEMMA KnownSumIs ==
  ASSUME NEW f PROVE I!KnownSum(f) = SumIfAny(f, DOMAIN f)
  BY SameSum DEF I!KnownSum, SumIfAny, Counted

\* It depends only on what is summed,
LEMMA SumIfAnyAgrees ==
  ASSUME NEW S, IsFiniteSet(S), NEW f, NEW e, \A x \in S : f[x] = e[x]
  PROVE  SumIfAny(f, S) = SumIfAny(e, S)
<1>1. Counted(f, S) = Counted(e, S) /\ IsFiniteSet(Counted(f, S))
  BY FS_Subset DEF Counted
<1>2. \A x \in Counted(f, S) : f[x] = e[x]
  BY DEF Counted
<1>3. SumFunctionOnSet(f, Counted(f, S)) = SumFunctionOnSet(e, Counted(f, S))
  BY <1>1, <1>2, TotalAgree
<1> QED
  BY <1>1, <1>3 DEF SumIfAny

\* is a number or nothing,
LEMMA SumIfAnyType ==
  ASSUME NEW S, IsFiniteSet(S), NEW f, \A x \in S : f[x] \in Nat \cup {Null}
  PROVE  /\ SumIfAny(f, S) \in Nat \cup {Null}
         /\ SumIfAny(f, S) = Null <=> Counted(f, S) = {}
<1>1. IsFiniteSet(Counted(f, S)) /\ \A x \in Counted(f, S) : f[x] \in Nat
  BY FS_Subset DEF Counted
<1>2. SumFunctionOnSet(f, Counted(f, S)) \in Nat
  BY <1>1, TotalIsNat
<1> QED
  BY <1>2, CountsAreNumbers DEF SumIfAny

\* and is the sum of its groups' sums.
LEMMA SumIfAnyOfGroups ==
  ASSUME NEW D, IsFiniteSet(D), NEW G, IsFiniteSet(G), NEW P, IsShared(P, G, D),
         NEW f, \A x \in D : f[x] \in Nat \cup {Null},
         NEW e, \A g \in G : e[g] = SumIfAny(f, P[g])
  PROVE  SumIfAny(f, D) = SumIfAny(e, G)
<1>1. \A g \in G : P[g] \subseteq D
  BY DEF IsShared
<1>2. \A g \in G : /\ e[g] \in Nat \cup {Null}
                   /\ e[g] = Null <=> Counted(f, P[g]) = {}
  <2> SUFFICES ASSUME NEW g \in G PROVE e[g] \in Nat \cup {Null} /\ (e[g] = Null <=> Counted(f, P[g]) = {})
    OBVIOUS
  <2>1. IsFiniteSet(P[g]) /\ \A x \in P[g] : f[x] \in Nat \cup {Null}
    BY <1>1, FS_Subset
  <2> QED
    BY <2>1, SumIfAnyType
<1> DEFINE C == Counted(f, D)
           E == Counted(e, G)
           Q == [g \in E |-> Counted(f, P[g])]
<1>3. IsFiniteSet(C) /\ IsFiniteSet(E) /\ \A x \in C : f[x] \in Int
  BY FS_Subset DEF Counted
<1>4. \A g \in G : g \in E <=> Counted(f, P[g]) # {}
  BY <1>2 DEF Counted
<1>5. IsShared(Q, E, C)
  <2>1. \A g \in E : Q[g] \subseteq C
    BY <1>1 DEF Counted
  <2>2. \A x \in C : \E g \in E : x \in Q[g]
    <3> SUFFICES ASSUME NEW x \in C PROVE \E g \in E : x \in Q[g]
      OBVIOUS
    <3>1. PICK g \in G : x \in P[g]
      BY DEF IsShared, Counted
    <3>2. x \in Counted(f, P[g])
      BY <3>1 DEF Counted
    <3>3. g \in E
      BY <1>4, <3>2
    <3> QED
      BY <3>2, <3>3
  <2>3. \A g, h \in E : g # h => Q[g] \cap Q[h] = {}
    BY DEF Counted, IsShared
  <2> HIDE DEF Q, E, C
  <2> QED
    BY <2>1, <2>2, <2>3 DEF IsShared
<1>6. \A g \in E : e[g] = SumFunctionOnSet(f, Q[g])
  <2> SUFFICES ASSUME NEW g \in E PROVE e[g] = SumFunctionOnSet(f, Q[g])
    OBVIOUS
  <2>1. g \in G /\ Counted(f, P[g]) # {}
    BY <1>4 DEF Counted
  <2> QED
    BY <2>1 DEF SumIfAny
<1> HIDE DEF Q
<1>7. C = {} <=> E = {}
  BY <1>1, <1>4, <1>5 DEF IsShared, Counted
<1> HIDE DEF C, E
<1>8. SumFunctionOnSet(f, C) = SumFunctionOnSet(e, E)
  BY <1>3, <1>5, <1>6, TotalOfGroups
<1> QED
  BY <1>7, <1>8 DEF SumIfAny, C, E

----------------------------------------------------------------------------
\* Deals and their videos

BooksAreDeals == books \in Seq(DealRow)

\* A deal is a row, and there are finitely many.
LEMMA DealsAreRows ==
  ASSUME BooksAreDeals
  PROVE  /\ IsFiniteSet(I!AllDeals)
         /\ \A d \in I!AllDeals :
              /\ books[d].price \in Nat
              /\ Len(books[d].videos) \in Nat
              /\ DOMAIN books[d].videos = 1..Len(books[d].videos)
              /\ \A n \in DOMAIN books[d].videos : books[d].videos[n] # Null =>
                   \A f \in I!Field : books[d].videos[n].counts[f] \in Nat \cup {Null}
<1>1. I!AllDeals = 1..Len(books) /\ Len(books) \in Nat /\ \A d \in I!AllDeals : books[d] \in DealRow
  BY DEF BooksAreDeals, I!AllDeals
<1>2. IsFiniteSet(I!AllDeals)
  BY <1>1, FS_Interval
<1>3. \A r \in DealRow : Len(r.videos) \in Nat /\ DOMAIN r.videos = 1..Len(r.videos)
  BY CountsAreNumbers
<1>4. I!Field = {"views", "likes", "comments", "shares"}
  BY DEF I!Field, I!Reaction
<1> QED
  BY <1>1, <1>2, <1>3, <1>4, CountsAreNumbers

\* A video is that of its deal.
LEMMA VideosAre ==
  ASSUME NEW D, NEW v
  PROVE  v \in I!Videos(D) <=>
           \E d \in D : \E o \in DOMAIN books[d].videos : books[d].videos[o] # Null /\ v = << d, o >>
  BY DEF I!Videos

\* The first of its two numbers tells which.
LEMMA VideoOfDeal ==
  ASSUME NEW D, NEW v
  PROVE  v \in I!Videos(D) <=> v[1] \in D /\ v \in I!Videos({v[1]})
  BY VideosAre

\* What a video counts is a number, or unknown.
LEMMA CountIsKnown ==
  ASSUME BooksAreDeals, NEW D, D \subseteq I!AllDeals, NEW v \in I!Videos(D), NEW f \in I!Field
  PROVE  I!Count(v, f) \in Nat \cup {Null}
<1>1. PICK d \in D : \E o \in DOMAIN books[d].videos : books[d].videos[o] # Null /\ v = << d, o >>
  BY VideosAre
<1>2. PICK o \in DOMAIN books[d].videos : books[d].videos[o] # Null /\ v = << d, o >>
  BY <1>1
<1>3. v[1] = d /\ v[2] = o
  BY <1>2
<1> QED
  BY <1>2, <1>3, DealsAreRows DEF I!Count, I!Video

\* A deal has no more videos than were ordered.
LEMMA VideosOfDeal ==
  ASSUME BooksAreDeals, NEW d \in I!AllDeals
  PROVE  /\ IsFiniteSet(I!Videos({d}))
         /\ Cardinality(I!Videos({d})) <= Len(books[d].videos)
<1> DEFINE N == Len(books[d].videos)
           X == { o \in 1..N : books[d].videos[o] # Null }
           h == [o \in X |-> << d, o >>]
<1>1. N \in Nat /\ DOMAIN books[d].videos = 1..N
  BY DealsAreRows
<1>2. IsFiniteSet(X) /\ Cardinality(X) <= N /\ Cardinality(X) \in Nat
  <2>1. IsFiniteSet(1..N) /\ Cardinality(1..N) = N
    BY <1>1, FS_Interval
  <2> QED
    BY <2>1, FS_Subset, FS_CardinalityType
<1>3. I!Videos({d}) = { << d, o >> : o \in X }
  BY <1>1 DEF I!Videos
<1>4. h \in Surjection(X, I!Videos({d}))
  BY <1>3 DEF Surjection
<1> HIDE DEF X, h
<1>5. /\ IsFiniteSet(I!Videos({d}))
      /\ Cardinality(I!Videos({d})) <= Cardinality(X)
  BY <1>2, <1>4, FS_Surjection
<1>6. Cardinality(I!Videos({d})) \in Nat
  BY <1>5, FS_CardinalityType
<1> QED
  BY <1>1, <1>2, <1>5, <1>6

\* The deals share their videos out.
LEMMA VideosAreShared ==
  ASSUME NEW G, NEW P, NEW D, IsShared(P, G, D)
  PROVE  IsShared([g \in G |-> I!Videos(P[g])], G, I!Videos(D))
<1> DEFINE Q == [g \in G |-> I!Videos(P[g])]
<1>1. ASSUME NEW g \in G PROVE Q[g] \subseteq I!Videos(D)
  BY VideoOfDeal DEF IsShared
<1>2. ASSUME NEW v \in I!Videos(D) PROVE \E g \in G : v \in Q[g]
  <2>1. v[1] \in D /\ v \in I!Videos({v[1]})
    BY VideoOfDeal
  <2>2. PICK g \in G : v[1] \in P[g]
    BY <2>1 DEF IsShared
  <2>3. v \in I!Videos(P[g])
    BY <2>1, <2>2, VideoOfDeal
  <2> QED
    BY <2>3
<1>3. ASSUME NEW g \in G, NEW h \in G, g # h PROVE Q[g] \cap Q[h] = {}
  <2> SUFFICES ASSUME NEW v, v \in I!Videos(P[g]), v \in I!Videos(P[h]) PROVE FALSE
    OBVIOUS
  <2>1. v[1] \in P[g] /\ v[1] \in P[h]
    BY VideoOfDeal
  <2> QED
    BY <1>3, <2>1 DEF IsShared
<1> HIDE DEF Q
<1>4. IsShared(Q, G, I!Videos(D))
  BY <1>1, <1>2, <1>3 DEF IsShared
<1> QED
  BY <1>4 DEF Q

\* And there are finitely many videos.
LEMMA VideosAreFew ==
  ASSUME BooksAreDeals, NEW D, D \subseteq I!AllDeals PROVE IsFiniteSet(I!Videos(D))
<1> DEFINE X == { I!Videos({d}) : d \in D }
           h == [d \in D |-> I!Videos({d})]
<1>1. IsFiniteSet(D)
  BY DealsAreRows, FS_Subset
<1>2. h \in Surjection(D, X)
  BY DEF Surjection
<1>3. IsFiniteSet(X)
  <2> HIDE DEF X, h
  <2> QED
    BY <1>1, <1>2, FS_Surjection
<1>4. \A x \in X : IsFiniteSet(x)
  BY VideosOfDeal
<1>5. I!Videos(D) = UNION X
  BY DEF I!Videos
<1> HIDE DEF X
<1> QED
  BY <1>3, <1>4, <1>5, FS_UNION

----------------------------------------------------------------------------
\* Groups of deals

Price == [d \in I!AllDeals |-> books[d].price]
Size == [d \in I!AllDeals |-> Len(books[d].videos)]
CountOf(f) == [v \in I!Videos(I!AllDeals) |-> I!Count(v, f)]
ResultOf(key) == [d \in I!AllDeals |-> I!Result(key, d)]

\* The figures of some deals are sums over one function of all deals, or of all videos.
LEMMA FiguresAreSums ==
  ASSUME BooksAreDeals, NEW D, D \subseteq I!AllDeals
  PROVE  /\ I!PriceOf(D) = SumFunctionOnSet(Price, D)
         /\ I!Ordered(D) = SumFunctionOnSet(Size, D)
         /\ \A f \in I!Field : I!Total(f, D) = SumIfAny(CountOf(f), I!Videos(D))
<1>1. IsFiniteSet(D)
  BY DealsAreRows, FS_Subset
<1>2. I!PriceOf(D) = SumFunctionOnSet(Price, D)
  <2> DEFINE p == [d \in D |-> books[d].price]
  <2>1. I!PriceOf(D) = SumFunctionOnSet(p, D)
    BY SameSum DEF I!PriceOf
  <2>2. \A d \in D : p[d] = Price[d]
    BY DEF Price
  <2> HIDE DEF p
  <2> QED
    BY <1>1, <2>1, <2>2, TotalAgree
<1>3. I!Ordered(D) = SumFunctionOnSet(Size, D)
  <2> DEFINE p == [d \in D |-> Len(books[d].videos)]
  <2>1. I!Ordered(D) = SumFunctionOnSet(p, D)
    BY SameSum DEF I!Ordered
  <2>2. \A d \in D : p[d] = Size[d]
    BY DEF Size
  <2> HIDE DEF p
  <2> QED
    BY <1>1, <2>1, <2>2, TotalAgree
<1>4. ASSUME NEW f \in I!Field PROVE I!Total(f, D) = SumIfAny(CountOf(f), I!Videos(D))
  <2> DEFINE p == [v \in I!Videos(D) |-> I!Count(v, f)]
  <2>1. I!Total(f, D) = SumIfAny(p, I!Videos(D))
    BY KnownSumIs DEF I!Total
  <2>2. \A v \in I!Videos(D) : v \in I!Videos(I!AllDeals)
    BY VideoOfDeal
  <2>3. \A v \in I!Videos(D) : p[v] = CountOf(f)[v]
    BY <2>2 DEF CountOf
  <2> HIDE DEF p
  <2> QED
    BY <2>1, <2>3, VideosAreFew, SumIfAnyAgrees
<1> QED
  BY <1>2, <1>3, <1>4

\* The groups share out any part of the deals.
LEMMA PartIsShared ==
  ASSUME NEW G, NEW P, NEW D, IsShared(P, G, D), NEW C, C \subseteq D,
         NEW Q, \A g \in G : Q[g] = P[g] \cap C
  PROVE  IsShared(Q, G, C)
  BY DEF IsShared

\* The price of all is that of the groups,
LEMMA PriceOfGroups ==
  ASSUME BooksAreDeals, NEW G, IsFiniteSet(G), NEW P, NEW D, D \subseteq I!AllDeals,
         IsShared(P, G, D), NEW e, \A g \in G : e[g] = I!PriceOf(P[g])
  PROVE  I!PriceOf(D) = SumFunctionOnSet(e, G)
<1>1. IsFiniteSet(D) /\ \A d \in D : Price[d] \in Int
  BY DealsAreRows, FS_Subset DEF Price
<1>2. \A g \in G : e[g] = SumFunctionOnSet(Price, P[g])
  BY FiguresAreSums DEF IsShared
<1>3. SumFunctionOnSet(Price, D) = SumFunctionOnSet(e, G)
  BY <1>1, <1>2, TotalOfGroups
<1> QED
  BY <1>3, FiguresAreSums

\* as are the videos ordered,
LEMMA OrderedOfGroups ==
  ASSUME BooksAreDeals, NEW G, IsFiniteSet(G), NEW P, NEW D, D \subseteq I!AllDeals,
         IsShared(P, G, D), NEW e, \A g \in G : e[g] = I!Ordered(P[g])
  PROVE  I!Ordered(D) = SumFunctionOnSet(e, G)
<1>1. IsFiniteSet(D) /\ \A d \in D : Size[d] \in Int
  BY DealsAreRows, FS_Subset DEF Size
<1>2. \A g \in G : e[g] = SumFunctionOnSet(Size, P[g])
  BY FiguresAreSums DEF IsShared
<1>3. SumFunctionOnSet(Size, D) = SumFunctionOnSet(e, G)
  BY <1>1, <1>2, TotalOfGroups
<1> QED
  BY <1>3, FiguresAreSums

\* and what their posts count.
LEMMA TotalsOfGroups ==
  ASSUME BooksAreDeals, NEW G, IsFiniteSet(G), NEW P, NEW D, D \subseteq I!AllDeals,
         IsShared(P, G, D), NEW f \in I!Field, NEW e, \A g \in G : e[g] = I!Total(f, P[g])
  PROVE  I!Total(f, D) = SumIfAny(e, G)
<1> DEFINE Q == [g \in G |-> I!Videos(P[g])]
<1>1. IsShared(Q, G, I!Videos(D)) /\ IsFiniteSet(I!Videos(D))
  BY VideosAreShared, VideosAreFew
<1>2. \A v \in I!Videos(D) : CountOf(f)[v] \in Nat \cup {Null}
  <2>1. \A v \in I!Videos(D) : v \in I!Videos(I!AllDeals)
    BY VideoOfDeal
  <2> QED
    BY <2>1, CountIsKnown DEF CountOf
<1>3. \A g \in G : e[g] = SumIfAny(CountOf(f), Q[g])
  <2> SUFFICES ASSUME NEW g \in G PROVE I!Total(f, P[g]) = SumIfAny(CountOf(f), I!Videos(P[g]))
    OBVIOUS
  <2>1. P[g] \subseteq I!AllDeals
    BY DEF IsShared
  <2> QED
    BY <2>1, FiguresAreSums
<1> HIDE DEF Q
<1>4. SumIfAny(CountOf(f), I!Videos(D)) = SumIfAny(e, G)
  BY <1>1, <1>2, <1>3, SumIfAnyOfGroups
<1> QED
  BY <1>4, FiguresAreSums

\* What a deal brought is a number, or unknown.
LEMMA EngagementType ==
  ASSUME BooksAreDeals, NEW D, D \subseteq I!AllDeals, NEW v \in I!Videos(D)
  PROVE  I!EngagementOf(v) \in Nat \cup {Null}
<1>1. IsFiniteSet(I!Reaction)
  <2>1. I!Reaction = ({"likes"} \cup {"comments"}) \cup {"shares"}
    BY DEF I!Reaction
  <2> QED
    BY <2>1, FS_Singleton, FS_Union
<1>2. CASE \A f \in I!Reaction : I!Count(v, f) # Null
  <2>1. \A f \in I!Reaction : I!Video(v).counts[f] \in Nat
    BY <1>2, CountIsKnown DEF I!Field, I!Count
  <2>2. SumFunctionOnSet(I!Video(v).counts, I!Reaction) \in Nat
    BY <1>1, <2>1, TotalIsNat
  <2> QED
    BY <1>2, <2>2, SameSum DEF I!EngagementOf
<1>3. CASE ~\A f \in I!Reaction : I!Count(v, f) # Null
  BY <1>3 DEF I!EngagementOf
<1> QED
  BY <1>2, <1>3

\* So is what it is measured by.
LEMMA ResultType ==
  ASSUME BooksAreDeals, NEW d \in I!AllDeals, NEW key
  PROVE  I!Result(key, d) \in Nat \cup {Null}
<1>1. {d} \subseteq I!AllDeals /\ IsFiniteSet(I!Videos({d}))
  BY VideosOfDeal
<1>2. I!Total("views", {d}) \in Nat \cup {Null}
  <2>1. "views" \in I!Field
    BY DEF I!Field
  <2> DEFINE p == [v \in I!Videos({d}) |-> I!Count(v, "views")]
  <2>2. \A v \in I!Videos({d}) : p[v] \in Nat \cup {Null}
    BY <1>1, <2>1, CountIsKnown
  <2>3. I!Total("views", {d}) = SumIfAny(p, I!Videos({d}))
    BY KnownSumIs DEF I!Total
  <2> HIDE DEF p
  <2> QED
    BY <1>1, <2>2, <2>3, SumIfAnyType
<1>3. I!DealEngagement(d) \in Nat \cup {Null}
  <2> DEFINE p == [v \in I!Videos({d}) |-> I!EngagementOf(v)]
  <2>1. \A v \in I!Videos({d}) : p[v] \in Nat \cup {Null}
    BY <1>1, EngagementType
  <2>2. I!KnownSum(p) = SumIfAny(p, I!Videos({d}))
    BY KnownSumIs
  <2>3. I!DealEngagement(d) \in {I!KnownSum(p), Null}
    BY DEF I!DealEngagement
  <2> HIDE DEF p
  <2> QED
    BY <1>1, <2>1, <2>2, <2>3, SumIfAnyType
<1> QED
  BY <1>2, <1>3 DEF I!Result

\* The results of the deals in a ratio
LEMMA ResultsAre ==
  ASSUME BooksAreDeals, NEW C, C \subseteq I!AllDeals, NEW key
  PROVE  I!KnownSum([d \in C |-> I!Result(key, d)]) = SumIfAny(ResultOf(key), C)
<1> DEFINE p == [d \in C |-> I!Result(key, d)]
<1>1. I!KnownSum(p) = SumIfAny(p, C)
  BY KnownSumIs
<1>2. \A d \in C : p[d] = ResultOf(key)[d]
  BY DEF ResultOf
<1>3. IsFiniteSet(C)
  BY DealsAreRows, FS_Subset
<1> HIDE DEF p
<1>4. I!KnownSum(p) = SumIfAny(ResultOf(key), C)
  BY <1>1, <1>2, <1>3, SumIfAnyAgrees
<1> QED
  BY <1>4 DEF p

\* Those of all are those of the groups.
LEMMA ResultsOfGroups ==
  ASSUME BooksAreDeals, NEW G, IsFiniteSet(G), NEW P, NEW C, C \subseteq I!AllDeals,
         IsShared(P, G, C), NEW key,
         NEW e, \A g \in G : e[g] = I!KnownSum([d \in P[g] |-> I!Result(key, d)])
  PROVE  I!KnownSum([d \in C |-> I!Result(key, d)]) = SumIfAny(e, G)
<1>1. IsFiniteSet(C) /\ \A d \in C : ResultOf(key)[d] \in Nat \cup {Null}
  BY DealsAreRows, FS_Subset, ResultType DEF ResultOf
<1>2. \A g \in G : e[g] = SumIfAny(ResultOf(key), P[g])
  <2> SUFFICES ASSUME NEW g \in G
               PROVE  I!KnownSum([d \in P[g] |-> I!Result(key, d)]) = SumIfAny(ResultOf(key), P[g])
    OBVIOUS
  <2>1. P[g] \subseteq I!AllDeals
    BY DEF IsShared
  <2> QED
    BY <2>1, ResultsAre
<1>3. SumIfAny(ResultOf(key), C) = SumIfAny(e, G)
  BY <1>1, <1>2, SumIfAnyOfGroups
<1> QED
  BY <1>3, ResultsAre

\* A deal is in the ratio of its group if it is in that of the whole.
LEMMA IncludedInGroup ==
  ASSUME NEW X, NEW D, X \subseteq D, NEW key
  PROVE  I!Included(key, X, D) = X \cap I!Included(key, D, D)
  BY DEF I!Included

\* Groups of deals, each judged among all of them, share out the figures of the whole.
LEMMA GroupsShareOut ==
  ASSUME BooksAreDeals, NEW G, IsFiniteSet(G), NEW P, NEW D, D \subseteq I!AllDeals,
         IsShared(P, G, D),
         NEW part, part = [g \in G |-> I!Figures(P[g], D)]
  PROVE  I!SharedOut(I!Figures(D, D), part)
<1> DEFINE whole == I!Figures(D, D)
<1>1. DOMAIN part = G /\ \A g \in G : part[g] = I!Figures(P[g], D) /\ P[g] \subseteq D
  BY DEF IsShared
<1>2. \A X : /\ I!Figures(X, D).committed = I!CommittedBy(X)
             /\ I!Figures(X, D).ordered = I!Ordered(X)
             /\ \A f \in I!Field : I!Figures(X, D).totals[f] = I!Total(f, X)
             /\ \A key \in I!Key : I!Figures(X, D).cohorts[key] = I!Cohort(key, X, D)
  BY DEF I!Figures
<1>3. \A f : DOMAIN f = G => I!SumFunction(f) = SumFunctionOnSet(f, G)
  BY SameSum DEF I!SumFunction
<1>4. \A f : DOMAIN f = G => I!KnownSum(f) = SumIfAny(f, G)
  BY KnownSumIs
<1>5. whole.committed = I!SumFunction([g \in DOMAIN part |-> part[g].committed])
  <2> DEFINE C == { d \in D : books[d].status \in I!CommittingStatuses }
             Q == [g \in G |-> P[g] \cap C]
             e == [g \in G |-> part[g].committed]
  <2>1. IsShared(Q, G, C)
    BY PartIsShared
  <2>2. \A g \in G : e[g] = I!PriceOf(Q[g])
    <3> SUFFICES ASSUME NEW g \in G PROVE I!CommittedBy(P[g]) = I!PriceOf(P[g] \cap C)
      BY <1>1, <1>2
    <3>1. { d \in P[g] : books[d].status \in I!CommittingStatuses } = P[g] \cap C
      BY <1>1
    <3> QED
      BY <3>1 DEF I!CommittedBy
  <2>3. C \subseteq I!AllDeals
    OBVIOUS
  <2>4. whole.committed = I!PriceOf(C)
    BY <1>2 DEF I!CommittedBy
  <2>5. DOMAIN e = G
    OBVIOUS
  <2> HIDE DEF C, Q, e
  <2>6. I!PriceOf(C) = SumFunctionOnSet(e, G)
    BY <2>1, <2>2, <2>3, PriceOfGroups
  <2>7. whole.committed = I!SumFunction(e)
    BY <1>3, <2>4, <2>5, <2>6
  <2> QED
    BY <1>1, <2>7 DEF e
<1>6. whole.ordered = I!SumFunction([g \in DOMAIN part |-> part[g].ordered])
  <2> DEFINE e == [g \in G |-> part[g].ordered]
  <2>1. DOMAIN e = G /\ \A g \in G : e[g] = I!Ordered(P[g])
    BY <1>1, <1>2
  <2> HIDE DEF e
  <2>2. I!Ordered(D) = SumFunctionOnSet(e, G)
    BY <2>1, OrderedOfGroups
  <2>3. whole.ordered = I!SumFunction(e)
    BY <1>2, <1>3, <2>1, <2>2
  <2> QED
    BY <1>1, <2>3 DEF e
<1>7. ASSUME NEW f \in I!Field
      PROVE  whole.totals[f] = I!KnownSum([g \in DOMAIN part |-> part[g].totals[f]])
  <2> DEFINE e == [g \in G |-> part[g].totals[f]]
  <2>1. DOMAIN e = G /\ \A g \in G : e[g] = I!Total(f, P[g])
    BY <1>1, <1>2
  <2> HIDE DEF e
  <2>2. I!Total(f, D) = SumIfAny(e, G)
    BY <2>1, TotalsOfGroups
  <2>3. whole.totals[f] = I!KnownSum(e)
    BY <1>2, <1>4, <2>1, <2>2
  <2> QED
    BY <1>1, <2>3 DEF e
<1>8. ASSUME NEW key \in I!Key
      PROVE  /\ whole.cohorts[key].cost =
                  I!SumFunction([g \in DOMAIN part |-> part[g].cohorts[key].cost])
             /\ whole.cohorts[key].results =
                  I!KnownSum([g \in DOMAIN part |-> part[g].cohorts[key].results])
             /\ whole.cohorts[key].deals =
                  I!SumFunction([g \in DOMAIN part |-> part[g].cohorts[key].deals])
             /\ whole.cohorts[key].excluded =
                  I!SumFunction([g \in DOMAIN part |-> part[g].cohorts[key].excluded])
  <2> DEFINE C == I!Included(key, D, D)
             Q == [g \in G |-> P[g] \cap C]
  <2>1. C \subseteq D /\ IsFiniteSet(D) /\ IsFiniteSet(C)
    <3>1. C \subseteq D
      BY DEF I!Included
    <3> QED
      BY <3>1, DealsAreRows, FS_Subset
  <2>2. \A g \in G : I!Included(key, P[g], D) = Q[g]
    BY <1>1, IncludedInGroup
  <2>3. \A g \in G : Q[g] \subseteq C
    OBVIOUS
  <2> HIDE DEF C
  <2>4. IsShared(Q, G, C)
    BY <2>1, PartIsShared
  <2>5. \A X : LET in == I!Included(key, X, D) IN
               /\ I!Cohort(key, X, D).cost = I!PriceOf(in)
               /\ I!Cohort(key, X, D).results = I!KnownSum([d \in in |-> I!Result(key, d)])
               /\ I!Cohort(key, X, D).deals = Cardinality(in)
               /\ I!Cohort(key, X, D).excluded = Cardinality(X) - Cardinality(in)
    BY SameNumber DEF I!Cohort, I!RepeatsSoughtIn
  <2>6. /\ whole.cohorts[key].cost = I!PriceOf(C)
        /\ whole.cohorts[key].results = I!KnownSum([d \in C |-> I!Result(key, d)])
        /\ whole.cohorts[key].deals = Cardinality(C)
        /\ whole.cohorts[key].excluded = Cardinality(D) - Cardinality(C)
    BY <1>2, <2>5 DEF C
  <2>7. \A g \in G : /\ part[g].cohorts[key].cost = I!PriceOf(Q[g])
                     /\ part[g].cohorts[key].results = I!KnownSum([d \in Q[g] |-> I!Result(key, d)])
                     /\ part[g].cohorts[key].deals = Cardinality(Q[g])
                     /\ part[g].cohorts[key].excluded = Cardinality(P[g]) - Cardinality(Q[g])
    <3> SUFFICES ASSUME NEW g \in G
                 PROVE  /\ part[g].cohorts[key].cost = I!PriceOf(Q[g])
                        /\ part[g].cohorts[key].results = I!KnownSum([d \in Q[g] |-> I!Result(key, d)])
                        /\ part[g].cohorts[key].deals = Cardinality(Q[g])
                        /\ part[g].cohorts[key].excluded = Cardinality(P[g]) - Cardinality(Q[g])
      OBVIOUS
    <3> HIDE DEF Q
    <3>1. part[g].cohorts[key] = I!Cohort(key, P[g], D)
      BY <1>1, <1>2
    <3> QED
      BY <2>2, <2>5, <3>1
  <2>8. whole.cohorts[key].cost = I!SumFunction([g \in DOMAIN part |-> part[g].cohorts[key].cost])
    <3> DEFINE e == [g \in G |-> part[g].cohorts[key].cost]
    <3>1. DOMAIN e = G /\ \A g \in G : e[g] = I!PriceOf(Q[g])
      BY <2>7
    <3> HIDE DEF e, Q
    <3>2. C \subseteq I!AllDeals
      BY <2>1
    <3>3. I!PriceOf(C) = SumFunctionOnSet(e, G)
      BY <2>4, <3>1, <3>2, PriceOfGroups
    <3>4. whole.cohorts[key].cost = I!SumFunction(e)
      BY <1>3, <2>6, <3>1, <3>3
    <3> QED
      BY <1>1, <3>4 DEF e
  <2>9. whole.cohorts[key].results = I!KnownSum([g \in DOMAIN part |-> part[g].cohorts[key].results])
    <3> DEFINE e == [g \in G |-> part[g].cohorts[key].results]
    <3>1. DOMAIN e = G /\ \A g \in G : e[g] = I!KnownSum([d \in Q[g] |-> I!Result(key, d)])
      BY <2>7
    <3> HIDE DEF e, Q
    <3>2. C \subseteq I!AllDeals
      BY <2>1
    <3>3. I!KnownSum([d \in C |-> I!Result(key, d)]) = SumIfAny(e, G)
      BY <2>4, <3>1, <3>2, ResultsOfGroups
    <3>4. whole.cohorts[key].results = I!KnownSum(e)
      BY <1>4, <2>6, <3>1, <3>3
    <3> QED
      BY <1>1, <3>4 DEF e
  <2>10. whole.cohorts[key].deals = I!SumFunction([g \in DOMAIN part |-> part[g].cohorts[key].deals])
    <3> DEFINE e == [g \in G |-> part[g].cohorts[key].deals]
    <3>1. DOMAIN e = G /\ \A g \in G : e[g] = Cardinality(Q[g])
      BY <2>7
    <3> HIDE DEF e, Q
    <3>2. Cardinality(C) = SumFunctionOnSet(e, G)
      BY <2>1, <2>4, <3>1, NumberOfGroups
    <3>3. whole.cohorts[key].deals = I!SumFunction(e)
      BY <1>3, <2>6, <3>1, <3>2
    <3> QED
      BY <1>1, <3>3 DEF e
  <2>11. whole.cohorts[key].excluded = I!SumFunction([g \in DOMAIN part |-> part[g].cohorts[key].excluded])
    <3> DEFINE e == [g \in G |-> part[g].cohorts[key].excluded]
               out == [g \in G |-> P[g] \cap (D \ C)]
    <3>1. IsShared(out, G, D \ C)
      BY PartIsShared
    <3>2. Cardinality(D) - Cardinality(C) = Cardinality(D \ C) /\ IsFiniteSet(D \ C)
      <4>1. D \cap C = C
        BY <2>1
      <4>2. /\ IsFiniteSet(D \ C)
            /\ Cardinality(D \ C) = Cardinality(D) - Cardinality(D \cap C)
        BY <2>1, FS_Difference
      <4> QED
        BY <4>1, <4>2
    <3>3. \A g \in G : e[g] = Cardinality(out[g])
      <4> SUFFICES ASSUME NEW g \in G PROVE e[g] = Cardinality(out[g])
        OBVIOUS
      <4>1. Cardinality(P[g] \ C) = Cardinality(P[g]) - Cardinality(P[g] \cap C)
        BY <1>1, <2>1, FS_Subset, FS_Difference
      <4>2. out[g] = P[g] \ C
        BY <1>1
      <4> QED
        BY <2>7, <4>1, <4>2
    <3>4. DOMAIN e = G
      OBVIOUS
    <3> HIDE DEF e, out, Q
    <3>5. Cardinality(D \ C) = SumFunctionOnSet(e, G)
      BY <3>1, <3>2, <3>3, NumberOfGroups
    <3>6. whole.cohorts[key].excluded = I!SumFunction(e)
      BY <1>3, <2>6, <3>2, <3>4, <3>5
    <3> QED
      BY <1>1, <3>6 DEF e
  <2> QED
    BY <2>8, <2>9, <2>10, <2>11
<1> HIDE DEF whole
<1>9. I!SharedOut(whole, part)
  BY <1>5, <1>6, <1>7, <1>8 DEF I!SharedOut
<1> QED
  BY <1>9 DEF whole

----------------------------------------------------------------------------
\* The pages

\* The pages of one campaign, and those of a selection
LEMMA SelectedIs ==
  ASSUME NEW S
  PROVE  /\ I!Selected(S) \subseteq I!AllDeals
         /\ \A d \in I!AllDeals : d \in I!Selected(S) <=> books[d].campaign \in S
         /\ \A c \in S : I!InCampaign(c) \subseteq I!Selected(S)
         /\ \A c : I!InCampaign(c) \subseteq I!AllDeals
  BY DEF I!Selected, I!InCampaign

\* The campaigns of a selection share it out, and so do its creators.
LEMMA CampaignsShare ==
  ASSUME NEW S PROVE IsShared([c \in S |-> I!InCampaign(c)], S, I!Selected(S))
<1> DEFINE P == [c \in S |-> I!InCampaign(c)]
<1>1. \A c \in S : P[c] \subseteq I!Selected(S)
  BY SelectedIs
<1>2. \A d \in I!Selected(S) : \E c \in S : d \in P[c]
  BY DEF I!Selected
<1>3. \A c, b \in S : c # b => P[c] \cap P[b] = {}
  BY DEF I!InCampaign
<1> HIDE DEF P
<1>4. IsShared(P, S, I!Selected(S))
  BY <1>1, <1>2, <1>3 DEF IsShared
<1> QED
  BY <1>4 DEF P

\* Its creators share a selection out.
LEMMA CreatorsShare ==
  ASSUME NEW D PROVE IsShared([c \in I!Creators(D) |-> I!OfCreator(c, D)], I!Creators(D), D)
<1> DEFINE P == [c \in I!Creators(D) |-> I!OfCreator(c, D)]
<1>1. \A c \in I!Creators(D) : P[c] \subseteq D
  BY DEF I!OfCreator
<1>2. \A d \in D : \E c \in I!Creators(D) : d \in P[c]
  BY DEF I!OfCreator, I!Creators
<1>3. \A c, b \in I!Creators(D) : c # b => P[c] \cap P[b] = {}
  BY DEF I!OfCreator
<1> HIDE DEF P
<1>4. IsShared(P, I!Creators(D), D)
  BY <1>1, <1>2, <1>3 DEF IsShared
<1> QED
  BY <1>4 DEF P

\* The deals are of finitely many campaigns and creators.
LEMMA GroupsAreFew ==
  ASSUME BooksAreDeals, NEW D, D \subseteq I!AllDeals
  PROVE  IsFiniteSet(I!Creators(D)) /\ IsFiniteSet(I!Campaigns(D))
<1> DEFINE h == [d \in D |-> books[d].creator]
           k == [d \in D |-> books[d].campaign]
<1>1. IsFiniteSet(D)
  BY DealsAreRows, FS_Subset
<1>2. h \in Surjection(D, I!Creators(D))
  BY DEF Surjection, I!Creators
<1>3. k \in Surjection(D, I!Campaigns(D))
  BY DEF Surjection, I!Campaigns
<1> HIDE DEF h, k
<1> QED
  BY <1>1, <1>2, <1>3, FS_Surjection

\* In a ratio every post is measured and none counts twice.
LEMMA PostsCountOnce ==
  ASSUME NEW D PROVE I!CountedOnce(D)
<1> SUFFICES ASSUME NEW key \in I!Key, NEW v \in I!Videos(I!Included(key, D, D)),
                    NEW w \in I!Videos(I!Included(key, D, D))
             PROVE  /\ v # w => I!Identity(v) # I!Identity(w) \/ I!Identity(v) = NoPost
                    /\ IF key = "cpv" THEN I!Count(v, "views") # Null ELSE I!EngagementOf(v) # Null
  BY DEF I!CountedOnce
<1>1. /\ v[1] \in I!Included(key, D, D) /\ v \in I!Videos({v[1]})
      /\ w[1] \in I!Included(key, D, D) /\ w \in I!Videos({w[1]})
  BY VideoOfDeal
<1>2. ~I!IsRepeated(v, D) /\ I!IsMeasured(key, v[1]) /\ w[1] \in D
  BY <1>1 DEF I!Included
<1>3. w \in I!Videos(D)
  BY <1>1, <1>2, VideoOfDeal
<1>4. v # w => I!Identity(v) # I!Identity(w) \/ I!Identity(v) = NoPost
  BY <1>2, <1>3 DEF I!IsRepeated
<1>5. CASE key = "cpv"
  BY <1>1, <1>2, <1>4, <1>5 DEF I!IsMeasured
<1>6. CASE key # "cpv"
  <2>1. I!DealEngagement(v[1]) # Null
    BY <1>2, <1>6 DEF I!IsMeasured
  <2>2. \A u \in I!Videos({v[1]}) : I!EngagementOf(u) # Null
    BY <2>1 DEF I!DealEngagement
  <2> QED
    BY <1>1, <1>4, <1>6, <2>2
<1> QED
  BY <1>5, <1>6

\* A campaign's own page and its part of a selection differ by repeats elsewhere.
LEMMA PagesAgree ==
  ASSUME NEW S, NEW c \in S PROVE I!SamePageUnlessRepeated(S, c)
<1> DEFINE D == I!InCampaign(c)
           W == I!Selected(S)
<1>1. D \subseteq W
  BY SelectedIs
<1>2. \A v : v \in I!Videos(W) <=> v \in I!Videos(D) \/ v \in I!Videos(W \ D)
  <2>1. \A v : v \in I!Videos(W) <=> v[1] \in W /\ v \in I!Videos({v[1]})
    BY VideoOfDeal
  <2>2. \A v : v \in I!Videos(D) <=> v[1] \in D /\ v \in I!Videos({v[1]})
    BY VideoOfDeal
  <2>3. \A v : v \in I!Videos(W \ D) <=> v[1] \in W \ D /\ v \in I!Videos({v[1]})
    BY VideoOfDeal
  <2> HIDE DEF D, W
  <2> QED
    BY <1>1, <2>1, <2>2, <2>3
<1> HIDE DEF D, W
<1>3. \A v : I!IsRepeated(v, W) <=> I!IsRepeated(v, D) \/ I!IsRepeated(v, W \ D)
  BY <1>2 DEF I!IsRepeated
<1>4. ASSUME NEW key \in I!Key PROVE I!Included(key, D, W) \subseteq I!Included(key, D, D)
  BY <1>3 DEF I!Included
<1>5. ASSUME NEW key \in I!Key, \A v \in I!Videos(D) : ~I!IsRepeated(v, W \ D)
      PROVE  I!CampaignPage(c).cohorts[key] = I!OneOf(S, c).cohorts[key]
  <2>1. ASSUME NEW d \in D, NEW v \in I!Videos({d}) PROVE v \in I!Videos(D)
    BY VideosAre
  <2>2. \A d \in D : \A v \in I!Videos({d}) : I!IsRepeated(v, W) <=> I!IsRepeated(v, D)
    BY <1>3, <1>5, <2>1
  <2>3. I!Included(key, D, W) = I!Included(key, D, D)
    BY <2>2 DEF I!Included
  <2>4. I!Cohort(key, D, W) = I!Cohort(key, D, D)
    BY <2>3 DEF I!Cohort, I!RepeatsSoughtIn
  <2> QED
    BY <2>4 DEF I!CampaignPage, I!OneOf, I!Figures, D, W
<1> QED
  BY <1>4, <1>5 DEF I!SamePageUnlessRepeated, D, W

\* The table of a campaign holds its deals and its videos.
LEMMA TableIs ==
  ASSUME BooksAreDeals, NEW c
  PROVE  /\ { r[1] : r \in I!TableRows(c) } = I!InCampaign(c)
         /\ UNION { I!Group(c, d) : d \in I!InCampaign(c) } = I!Videos(I!InCampaign(c))
<1> DEFINE D == I!InCampaign(c)
<1>1. D \subseteq I!AllDeals
  BY SelectedIs
<1>2. \A r : r \in I!TableRows(c) <=>
             \/ r \in I!Videos(D)
             \/ \E d \in D : I!Videos({d}) = {} /\ r = << d, 0 >>
  BY DEF I!TableRows
<1>3. \A v \in I!Videos(D) : v[1] \in D /\ v[2] # 0
  <2> SUFFICES ASSUME NEW v \in I!Videos(D) PROVE v[1] \in D /\ v[2] # 0
    OBVIOUS
  <2>1. PICK d \in D : \E o \in DOMAIN books[d].videos : books[d].videos[o] # Null /\ v = << d, o >>
    BY VideosAre
  <2>2. PICK o \in DOMAIN books[d].videos : v = << d, o >>
    BY <2>1
  <2>3. o \in 1..Len(books[d].videos) /\ Len(books[d].videos) \in Nat
    BY <1>1, DealsAreRows
  <2> QED
    BY <2>2, <2>3
<1>4. \A d \in D : \E r \in I!TableRows(c) : r[1] = d
  <2> SUFFICES ASSUME NEW d \in D PROVE \E r \in I!TableRows(c) : r[1] = d
    OBVIOUS
  <2>1. CASE I!Videos({d}) = {}
    <3>1. << d, 0 >> \in I!TableRows(c) /\ << d, 0 >>[1] = d
      BY <1>2, <2>1
    <3> QED
      BY <3>1
  <2>2. CASE I!Videos({d}) # {}
    <3>1. PICK v : v \in I!Videos({d})
      BY <2>2
    <3>2. v[1] \in {d} /\ v \in I!Videos({v[1]})
      BY <3>1, VideoOfDeal
    <3>3. v[1] = d /\ v \in I!Videos(D)
      BY <3>2, VideoOfDeal
    <3> QED
      BY <1>2, <3>3
  <2> QED
    BY <2>1, <2>2
<1>5. \A r \in I!TableRows(c) : r[1] \in D
  <2> SUFFICES ASSUME NEW r \in I!TableRows(c) PROVE r[1] \in D
    OBVIOUS
  <2>1. CASE r \in I!Videos(D)
    BY <1>3, <2>1
  <2>2. CASE \E d \in D : I!Videos({d}) = {} /\ r = << d, 0 >>
    BY <2>2
  <2> QED
    BY <1>2, <2>1, <2>2
<1>6. \A d, r : r \in I!Group(c, d) <=> r \in I!TableRows(c) /\ r[1] = d /\ r[2] # 0
  BY DEF I!Group
<1>7. \A r \in I!TableRows(c) : r[2] # 0 => r \in I!Videos(D)
  <2>1. \A d : << d, 0 >>[2] = 0
    OBVIOUS
  <2> HIDE DEF D
  <2> QED
    BY <1>2, <2>1
<1> HIDE DEF D
<1>8. { r[1] : r \in I!TableRows(c) } = D
  BY <1>4, <1>5
<1>9. UNION { I!Group(c, d) : d \in D } = I!Videos(D)
  <2>1. ASSUME NEW v \in I!Videos(D) PROVE v \in I!Group(c, v[1]) /\ v[1] \in D
    BY <1>2, <1>3, <1>6
  <2>2. ASSUME NEW d \in D, NEW v \in I!Group(c, d) PROVE v \in I!Videos(D)
    BY <1>6, <1>7
  <2> QED
    BY <2>1, <2>2
<1> QED
  BY <1>8, <1>9 DEF D

\* It says of the campaign what the page says, and covers no more than was ordered.
LEMMA TableAgrees ==
  ASSUME BooksAreDeals, NEW c
  PROVE  /\ I!Table(c).totals = I!CampaignPage(c).totals
         /\ I!Table(c).total = I!CampaignPage(c).ordered
         /\ I!Table(c).measured <= I!CampaignPage(c).submitted
         /\ I!CampaignPage(c).submitted <= I!Table(c).total
<1> DEFINE D == I!InCampaign(c)
           V == I!Videos(D)
           M == { v \in V : \E f \in I!Field : I!Count(v, f) # Null }
<1>1. D \subseteq I!AllDeals
  BY SelectedIs
<1>2. /\ I!CampaignPage(c).totals = [f \in I!Field |-> I!Total(f, D)]
      /\ I!CampaignPage(c).ordered = I!Ordered(D)
      /\ I!CampaignPage(c).submitted = Cardinality(V)
  BY SameNumber DEF I!CampaignPage, I!Figures
<1>3. /\ I!Table(c).totals = [f \in I!Field |-> I!KnownSum([v \in V |-> I!Count(v, f)])]
      /\ I!Table(c).measured = Cardinality(M)
      /\ I!Table(c).total = I!Ordered(D)
  BY TableIs, SameNumber DEF I!Table
<1>4. I!Table(c).totals = I!CampaignPage(c).totals
  BY <1>2, <1>3 DEF I!Total
<1>5. IsFiniteSet(V) /\ Cardinality(M) <= Cardinality(V)
  BY <1>1, VideosAreFew, FS_Subset
<1>6. Cardinality(V) <= I!Ordered(D)
  <2> DEFINE P == [d \in D |-> {d}]
             Q == [d \in D |-> I!Videos(P[d])]
             e == [d \in D |-> Cardinality(Q[d])]
  <2>1. IsShared(P, D, D)
    BY DEF IsShared
  <2>2. IsFiniteSet(D)
    BY <1>1, DealsAreRows, FS_Subset
  <2>3. \A d \in D : e[d] \in Int /\ Size[d] \in Int /\ e[d] <= Size[d]
    <3> SUFFICES ASSUME NEW d \in D PROVE e[d] \in Int /\ Size[d] \in Int /\ e[d] <= Size[d]
      OBVIOUS
    <3>1. e[d] = Cardinality(I!Videos({d})) /\ Size[d] = Len(books[d].videos)
      BY <1>1 DEF Size
    <3>2. /\ Cardinality(I!Videos({d})) \in Nat /\ Len(books[d].videos) \in Nat
          /\ Cardinality(I!Videos({d})) <= Len(books[d].videos)
      BY <1>1, VideosOfDeal, DealsAreRows, FS_CardinalityType
    <3> QED
      BY <3>1, <3>2
  <2>4. \A d \in D : e[d] = Cardinality(Q[d])
    OBVIOUS
  <2> HIDE DEF P, e
  <2>5. IsShared(Q, D, V)
    BY <2>1, VideosAreShared
  <2> HIDE DEF Q, V
  <2>6. Cardinality(V) = SumFunctionOnSet(e, D)
    BY <1>5, <2>2, <2>4, <2>5, NumberOfGroups
  <2>7. SumFunctionOnSet(e, D) <= SumFunctionOnSet(Size, D)
    BY <2>2, <2>3, TotalGrows
  <2> QED
    BY <1>1, <2>6, <2>7, FiguresAreSums
<1> QED
  BY <1>2, <1>3, <1>4, <1>5, <1>6

\* Whatever deals and videos a brand has: its campaigns and its creators share out the
\* figures of a selection, no post counts twice, and page and table agree
\* (summarizeInsightDeals and calculateBrandPerformance of the two insight-model.ts, and
\* toCampaignTotals of performance.ts).
THEOREM TheInsightsAddUp == I!Spec => []InsightsAddUp
<1>1. I!Init => BooksAreDeals
  BY DEF I!Init, BooksAreDeals
<1>2. BooksAreDeals /\ [I!Next]_books => BooksAreDeals'
  <2> SUFFICES ASSUME BooksAreDeals, [I!Next]_books PROVE BooksAreDeals'
    OBVIOUS
  <2>1. CASE I!Next
    <3>1. PICK r \in DealRow : I!Enter(r)
      BY <2>1 DEF I!Next
    <3>2. books' = Append(books, r)
      BY <3>1 DEF I!Enter
    <3> QED
      BY <3>2 DEF BooksAreDeals
  <2>2. CASE UNCHANGED books
    BY <2>2 DEF BooksAreDeals
  <2> QED
    BY <2>1, <2>2
<1>3. BooksAreDeals => InsightsAddUp
  <2> SUFFICES ASSUME BooksAreDeals, NEW S \in SUBSET I!Campaigns(I!AllDeals)
               PROVE  /\ I!SharedOut(I!Overall(S), [c \in S |-> I!OneOf(S, c)])
                      /\ I!SharedOut(I!Overall(S), [c \in I!Creators(I!Selected(S)) |-> I!OneCreator(S, c)])
                      /\ I!CountedOnce(I!Selected(S))
                      /\ \A c \in S :
                           /\ I!SamePageUnlessRepeated(S, c)
                           /\ I!Table(c).totals = I!CampaignPage(c).totals
                           /\ I!Table(c).total = I!CampaignPage(c).ordered
                           /\ I!Table(c).measured <= I!CampaignPage(c).submitted
                           /\ I!CampaignPage(c).submitted <= I!Table(c).total
    BY DEF InsightsAddUp, I!InsightsAddUp
  <2> DEFINE D == I!Selected(S)
             P == [c \in S |-> I!InCampaign(c)]
             Q == [c \in I!Creators(D) |-> I!OfCreator(c, D)]
             p == [c \in S |-> I!OneOf(S, c)]
             q == [c \in I!Creators(D) |-> I!OneCreator(S, c)]
  <2>1. D \subseteq I!AllDeals
    BY SelectedIs
  <2>2. IsFiniteSet(S)
    BY GroupsAreFew, FS_Subset
  <2>3. p = [c \in S |-> I!Figures(P[c], D)]
    BY DEF I!OneOf
  <2>4. q = [c \in I!Creators(D) |-> I!Figures(Q[c], D)]
    BY DEF I!OneCreator
  <2>5. IsShared(P, S, D) /\ IsShared(Q, I!Creators(D), D)
    BY CampaignsShare, CreatorsShare
  <2>6. I!Overall(S) = I!Figures(D, D)
    BY DEF I!Overall
  <2> HIDE DEF D, P, Q, p, q
  <2>7. I!SharedOut(I!Figures(D, D), p)
    BY <2>1, <2>2, <2>3, <2>5, GroupsShareOut
  <2>8. I!SharedOut(I!Figures(D, D), q)
    BY <2>1, <2>4, <2>5, GroupsAreFew, GroupsShareOut
  <2>9. I!SharedOut(I!Overall(S), p) /\ I!SharedOut(I!Overall(S), q)
    BY <2>6, <2>7, <2>8
  <2> QED
    BY <2>9, PostsCountOnce, PagesAgree, TableAgrees DEF p, q, D
<1> QED
  BY <1>1, <1>2, <1>3, PTL DEF I!Spec
=============================================================================
