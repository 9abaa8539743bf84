------------------------------- MODULE CoverImage -------------------------------
(***************************************************************************)
(* The cover image of one video: storeDeliverableThumbnail in thumbnail.ts *)
(* runs behind the answer to a submission, copies the image TikTok names   *)
(* into the blob store and points the row at the copy.  A resubmission     *)
(* clears the pointer in its own transaction and hands the old copy to its *)
(* own run to delete; a submission sent again starts a second run.         *)
(*                                                                         *)
(* The row, the lookups and the blob store are reached one call at a time, *)
(* so the runs interleave at every call.                                   *)
(***************************************************************************)
EXTENDS Naturals, BlobStore

CONSTANTS
  Task,         \* post-response tasks
  MaxVersion    \* bound on resubmissions

VARIABLES
  version, thumb,   \* deliverable.submission_version and .thumbnail_url
  task,             \* what each run is doing
  late,             \* saves whose connection was given up before they ran
  mishap            \* "lost": a run died or a call failed; "late": such a save ran after all

vars == << version, thumb, store, used, task, late, mishap >>

----------------------------------------------------------------------------
Pointer == Blob \cup {NoBlob}

\* want: the version the run is for.  previous: the pointer it has read.  owned: its copy.
\* doomed: the blob it is about to delete, next: where it goes on after that.
Run == [pc : {"new", "cleanup", "delete", "load", "copy", "save", "over"},
        want : Nat, previous : Pointer, owned : Pointer, doomed : Pointer,
        next : {"load", "over"}]

NotStarted == [pc |-> "new", want |-> 0, previous |-> NoBlob, owned |-> NoBlob,
               doomed |-> NoBlob, next |-> "over"]

Save == [want : Nat, previous : Pointer, owned : Pointer]

\* The submission has landed; nothing has run behind it yet.
Init ==
  /\ version = 1 /\ thumb = NoBlob
  /\ store = {} /\ used = {}
  /\ task = [t \in Task |-> NotStarted]
  /\ late = {}
  /\ mishap = {}

\* cleanup(url): with no blob to delete, straight on.
CleanUp(run, blob, next) ==
  IF blob = NoBlob THEN [run EXCEPT !.pc = next]
  ELSE [run EXCEPT !.pc = "cleanup", !.doomed = blob, !.next = next]

----------------------------------------------------------------------------
\* The submission's own writes

\* The route schedules the run of the submission, or that of one sent again: the event tells
\* which version that was, not what it replaced.
Schedule(t, v) ==
  /\ task[t].pc = "new" /\ v \in 1..version
  /\ task' = [task EXCEPT ![t] = CleanUp([NotStarted EXCEPT !.want = v], NoBlob, "load")]
  /\ UNCHANGED << version, thumb, store, used, mishap, late >>

\* A replacement clears the pointer and schedules its run with the old one.
Resubmit(t) ==
  /\ task[t].pc = "new" /\ version < MaxVersion
  /\ version' = version + 1 /\ thumb' = NoBlob
  /\ task' = [task EXCEPT ![t] =
                CleanUp([NotStarted EXCEPT !.want = version'], thumb, "load")]
  /\ UNCHANGED << store, used, mishap, late >>

\* The process dies between the commit and the run.
ResubmitAlone ==
  /\ version < MaxVersion
  /\ version' = version + 1 /\ thumb' = NoBlob
  /\ mishap' = mishap \cup {"lost"}
  /\ UNCHANGED << store, used, task, late >>

----------------------------------------------------------------------------
\* cleanup

\* Mutant: what is to be deleted is taken to be unreferenced.
NotLookedUp(t) == FALSE

\* isReferenced
IsReferenced(t) == thumb = task[t].doomed

\* A read that fails deletes nothing.
Referenced(t) ==
  /\ task[t].pc = "cleanup"
  /\ \/ /\ task' = [task EXCEPT ![t].pc = IF IsReferenced(t) THEN task[t].next ELSE "delete"]
        /\ UNCHANGED mishap
     \/ /\ task' = [task EXCEPT ![t].pc = task[t].next]
        /\ mishap' = mishap \cup {"lost"}
  /\ UNCHANGED << version, thumb, store, used, late >>

Delete(t) ==
  /\ task[t].pc = "delete"
  /\ task' = [task EXCEPT ![t].pc = task[t].next]
  /\ \/ Del(task[t].doomed) /\ UNCHANGED mishap
     \/ mishap' = mishap \cup {"lost"} /\ UNCHANGED << store, used >>
  /\ UNCHANGED << version, thumb, late >>

----------------------------------------------------------------------------
\* The run

\* loadCurrent: a version that is gone ends the run, and so does a failed read.
Load(t) ==
  /\ task[t].pc = "load"
  /\ \/ /\ version = task[t].want
        /\ task' = [task EXCEPT ![t].pc = "copy", ![t].previous = thumb]
     \/ task' = [task EXCEPT ![t].pc = "over"]
  /\ UNCHANGED << version, thumb, store, used, mishap, late >>

\* oEmbed and copyImageToBlob: the copy has a URL of its own.
Copy(t) ==
  /\ task[t].pc = "copy"
  /\ \E b \in Blob :
       /\ Put(b)
       /\ task' = [task EXCEPT ![t].pc = "save", ![t].owned = b]
  /\ UNCHANGED << version, thumb, mishap, late >>

\* TikTok names no image, or it cannot be had: at most the video's id is saved.
NoImage(t) ==
  /\ task[t].pc = "copy"
  /\ task' = [task EXCEPT ![t].pc = "over"]
  /\ UNCHANGED << version, thumb, store, used, mishap, late >>

\* The copy was stored and its URL lost with the answer.
CopyLost(t) ==
  /\ task[t].pc = "copy"
  /\ \E b \in Blob : Put(b)
  /\ task' = [task EXCEPT ![t].pc = "over"]
  /\ mishap' = mishap \cup {"lost"}
  /\ UNCHANGED << version, thumb, late >>

\* Mutant: the version alone decides.
OfTheVersion(s) == version = s.want

\* The condition of the save's update
StillHolds(s) == version = s.want /\ thumb = s.previous

SaveOf(t) == [want |-> task[t].want, previous |-> task[t].previous, owned |-> task[t].owned]

\* Mutant: a copy that found no row stays where it is.
KeepOwned(t) == [task[t] EXCEPT !.pc = "over"]

AfterRefusedSave(t) == CleanUp(task[t], task[t].owned, "over")

AfterSave(t) == CleanUp(task[t], task[t].previous, "over")

SaveCover(t) ==
  /\ task[t].pc = "save"
  /\ IF StillHolds(SaveOf(t))
     THEN thumb' = task[t].owned /\ task' = [task EXCEPT ![t] = AfterSave(t)]
     ELSE UNCHANGED thumb /\ task' = [task EXCEPT ![t] = AfterRefusedSave(t)]
  /\ UNCHANGED << version, store, used, mishap, late >>

\* The update threw.  It may have run, it may not, and it may yet run behind the run's back.
SaveThrows(t) ==
  /\ task[t].pc = "save"
  /\ \/ UNCHANGED << thumb, late >>
     \/ StillHolds(SaveOf(t)) /\ thumb' = task[t].owned /\ UNCHANGED late
     \/ late' = late \cup {SaveOf(t)} /\ UNCHANGED thumb
  /\ task' = [task EXCEPT ![t] = CleanUp(task[t], task[t].owned, "over")]
  /\ mishap' = mishap \cup {"lost"}
  /\ UNCHANGED << version, store, used >>

LateSave(s) ==
  /\ s \in late
  /\ late' = late \ {s}
  /\ thumb' = IF StillHolds(s) THEN s.owned ELSE thumb
  /\ mishap' = mishap \cup {"late"}
  /\ UNCHANGED << version, store, used, task >>

\* The platform ends the task.
Crash(t) ==
  /\ task[t].pc \notin {"new", "over"}
  /\ task' = [task EXCEPT ![t].pc = "over"]
  /\ mishap' = mishap \cup {"lost"}
  /\ UNCHANGED << version, thumb, store, used, late >>

----------------------------------------------------------------------------
Next ==
  \/ ResubmitAlone
  \/ \E s \in late : LateSave(s)
  \/ \E t \in Task :
       \/ (\E v \in 1..MaxVersion : Schedule(t, v)) \/ Resubmit(t)
       \/ Referenced(t) \/ Delete(t)
       \/ Load(t) \/ Copy(t) \/ NoImage(t) \/ CopyLost(t)
       \/ SaveCover(t) \/ SaveThrows(t) \/ Crash(t)

Spec == Init /\ [][Next]_vars

----------------------------------------------------------------------------
\* Properties

TypeOK ==
  /\ version \in Nat \ {0} /\ thumb \in Pointer
  /\ store \subseteq used /\ used \subseteq Blob
  /\ task \in [Task -> Run]
  /\ mishap \subseteq {"lost", "late"}
  /\ late \subseteq Save

\* "Never a dangling reference" (thumbnail.ts): the row points at an image that is still
\* in the store, unless a save ran after its task had given it up and cleaned up behind it.
NoBrokenImage == "late" \notin mishap /\ thumb # NoBlob => thumb \in store

Done(t) == task[t].pc \in {"new", "over"}

\* "Unreferenced blobs are reclaimed" (thumbnail.ts): when all runs are over, the store holds
\* the current image and no other, unless something failed.
NoOrphan == (\A t \in Task : Done(t)) /\ mishap = {} => store \subseteq {thumb}
=============================================================================
