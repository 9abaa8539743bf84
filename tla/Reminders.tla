------------------------------- MODULE Reminders -------------------------------
(***************************************************************************)
(* The daily cron run and its reminders to enter metrics: runSchedulerJobs *)
(* of harness.ts, metric-reminders.ts with the list of pending-metrics.ts, *)
(* and the row, mail and stamp of notify.ts and dispatch.ts.               *)
(*                                                                         *)
(* A reminder is a row in one transaction, then a mail, then a stamp on    *)
(* the row.  Only a stamped row keeps the next reminder back, so that what *)
(* dies in between is asked for again.  The other jobs of a run are        *)
(* actions of CampaignOffers, FundingSession and Withdrawal; here they     *)
(* only take their turn, fail, or hang.                                    *)
(***************************************************************************)
EXTENDS Naturals, Sequences, SequencesExt, FiniteSets

CONSTANTS
  Creator,
  Overdue,     \* completed videos past the metrics window, oldest first
  Owner,       \* the creator of each
  Jobs,        \* the jobs of a run, in order
  Run,         \* cron invocations that may run at the same time
  BatchLimit,  \* videos one run takes
  MaxTries,    \* attempts at one mail
  Silent,      \* videos whose metrics may never be entered
  Muting,      \* creators who may switch the mails off
  MaxFaults    \* bound on what fails, times out or dies, for TLC

Video == ToSet(Overdue)

ASSUME OwnersAreCreators == Owner \in [Video -> Creator]
ASSUME MutedVideosAreSilent == \A v \in Video : Owner[v] \in Muting => v \in Silent
ASSUME BatchOutlastsSilent == Cardinality(Silent) < BatchLimit

VARIABLES
  measured,  \* videos with metrics
  muted,     \* creators who have switched the mails off
  mailed,    \* mails each creator got in this interval; 2 stands for more
  served,    \* creators with a delivered row in this interval
  run,       \* what each run is doing
  faults,    \* what failed, timed out or died so far
  mishap     \* creators of whom a stamp or an answer was lost, or two runs met

vars == << measured, muted, mailed, served, run, faults, mishap >>

----------------------------------------------------------------------------
\* Something fails.
Fault == faults < MaxFaults /\ faults' = faults + 1

Idle == [job |-> 0, pc |-> "off", list |-> <<>>, tries |-> 0]

Init ==
  /\ measured = {}
  /\ muted = {}
  /\ mailed = [c \in Creator |-> 0]
  /\ served = {}
  /\ run = [r \in Run |-> Idle]
  /\ faults = 0
  /\ mishap = {}

\* A creator enters metrics, reminded or not.
RecordMetrics(v) ==
  /\ measured' = measured \cup {v}
  /\ UNCHANGED << muted, mailed, served, run, faults, mishap >>

\* Email preferences
SetMuted(c, off) ==
  /\ c \in Muting
  /\ muted' = IF off THEN muted \cup {c} ELSE muted \ {c}
  /\ UNCHANGED << measured, mailed, served, run, faults, mishap >>

\* METRICS_REMINDER_MS go by.  A run lasts minutes, the interval a week.
IntervalPasses ==
  /\ \A r \in Run : run[r] = Idle
  /\ mailed' = [c \in Creator |-> 0]
  /\ served' = {}
  /\ mishap' = {}
  /\ UNCHANGED << measured, muted, run, faults >>

----------------------------------------------------------------------------
\* The harness

StartRun(r) ==
  /\ run[r] = Idle
  /\ run' = [run EXCEPT ![r].job = 1]
  /\ UNCHANGED << measured, muted, mailed, served, faults, mishap >>

\* The next job, or the end of the run.
Following(job) == IF job = Len(Jobs) THEN 0 ELSE job + 1

\* Mutant: a failed job ends the run.
LastJob(job) == 0

\* A job that fails is logged, and the others have their turn.
AfterFailedJob(job) == Following(job)

\* A job of another module, or this one where it cannot read its list.
OtherJob(r) ==
  /\ run[r].job # 0 /\ Jobs[run[r].job] # "metric-reminders"
  /\ \E next \in { Following(run[r].job), AfterFailedJob(run[r].job) } :
       run' = [run EXCEPT ![r].job = next]
  /\ UNCHANGED << measured, muted, mailed, served, faults, mishap >>

IsReminding(r) == run[r].job # 0 /\ Jobs[run[r].job] = "metric-reminders"

ListFails(r) ==
  /\ IsReminding(r) /\ run[r].pc = "off"
  /\ Fault
  /\ run' = [run EXCEPT ![r].job = AfterFailedJob(@)]
  /\ UNCHANGED << measured, muted, mailed, served, mishap >>

\* The watchdog gives the remaining jobs up and answers.  A reminder under way is finished
\* behind it: the signal is looked at between two reminders.
TimesOut(r) ==
  /\ run[r].job # 0
  /\ Fault
  /\ run' = [run EXCEPT ![r] =
       IF @.pc \in {"send", "stamp"} THEN [@ EXCEPT !.job = 0, !.list = << Head(run[r].list) >>] ELSE Idle]
  /\ UNCHANGED << measured, muted, mailed, served, mishap >>

----------------------------------------------------------------------------
\* The reminders of one run

\* The video at hand and its creator
Current(r) == Head(run[r].list)
Addressee(r) == Owner[Current(r)]

\* On to the next video; a run that timed out has none left.
Done(r) ==
  IF run[r].job = 0 THEN Idle
  ELSE [run[r] EXCEPT !.pc = "next", !.list = Tail(@), !.tries = 0]

\* awaitingMetricsQuery: the oldest that have no metrics, reminded or not
Awaiting ==
  LET taken[n \in 0..Len(Overdue)] ==
        IF n = 0 THEN <<>>
        ELSE IF Overdue[n] \notin measured /\ Len(taken[n - 1]) < BatchLimit
        THEN Append(taken[n - 1], Overdue[n])
        ELSE taken[n - 1]
  IN  taken[Len(Overdue)]

SelectAwaiting(r) ==
  /\ IsReminding(r) /\ run[r].pc = "off"
  /\ run' = [run EXCEPT ![r].pc = "next", ![r].list = Awaiting]
  /\ UNCHANGED << measured, muted, mailed, served, faults, mishap >>

AtNext(r) == run[r].pc = "next" /\ run[r].list # <<>>

\* Mutant: the interval is looked up and not heeded.
SkipsNobody(c) == FALSE

\* hasReminderSince
HasReminder(c) == c \in served

\* remindOne: one transaction looks for a delivered row of the interval and writes one.  A
\* run that is between its own row and its stamp is not seen.
RemindOne(r) ==
  LET c == Addressee(r) IN
  /\ AtNext(r)
  /\ ~HasReminder(c)
  /\ run' = [run EXCEPT ![r].pc = "send", ![r].tries = 1]
  /\ mishap' = IF \E q \in Run \ {r} : run[q].pc \in {"send", "stamp"} /\ Addressee(q) = c
               THEN mishap \cup {c} ELSE mishap
  /\ UNCHANGED << measured, muted, mailed, served, faults >>

Skip(r) ==
  /\ AtNext(r)
  /\ HasReminder(Addressee(r))
  /\ run' = [run EXCEPT ![r] = Done(r)]
  /\ UNCHANGED << measured, muted, mailed, served, faults, mishap >>

\* The transaction fails, and its row is rolled back.
RemindFails(r) ==
  /\ AtNext(r)
  /\ Fault
  /\ run' = [run EXCEPT ![r] = Done(r)]
  /\ UNCHANGED << measured, muted, mailed, served, mishap >>

\* flush: the row of a muted creator stays without a stamp.
MutedMail(r) ==
  /\ run[r].pc = "send"
  /\ Addressee(r) \in muted
  /\ run' = [run EXCEPT ![r] = Done(r)]
  /\ UNCHANGED << measured, muted, mailed, served, faults, mishap >>

OneMore(c) == [mailed EXCEPT ![c] = IF @ = 2 THEN 2 ELSE @ + 1]

SendMail(r) ==
  /\ run[r].pc = "send"
  /\ Addressee(r) \notin muted
  /\ mailed' = OneMore(Addressee(r))
  /\ run' = [run EXCEPT ![r].pc = "stamp"]
  /\ UNCHANGED << measured, muted, served, faults, mishap >>

\* Abandoned: logged, and no stamp.
GiveUp(r) == Done(r)

\* dispatchWithRetry tries again, unless the refusal is final or the tries are used up.  The
\* provider may have sent the mail all the same.
SendFails(r, sent) ==
  LET c == Addressee(r) IN
  /\ run[r].pc = "send"
  /\ c \notin muted
  /\ Fault
  /\ mailed' = IF sent THEN OneMore(c) ELSE mailed
  /\ mishap' = IF sent THEN mishap \cup {c} ELSE mishap
  /\ \/ run[r].tries < MaxTries /\ run' = [run EXCEPT ![r].tries = @ + 1]
     \/ run' = [run EXCEPT ![r] = GiveUp(r)]
  /\ UNCHANGED << measured, muted, served >>

Stamp(r) ==
  /\ run[r].pc = "stamp"
  /\ served' = served \cup {Addressee(r)}
  /\ run' = [run EXCEPT ![r] = Done(r)]
  /\ UNCHANGED << measured, muted, mailed, faults, mishap >>

\* The stamp is a write of its own, and its failure is swallowed.
StampFails(r) ==
  /\ run[r].pc = "stamp"
  /\ Fault
  /\ mishap' = mishap \cup {Addressee(r)}
  /\ run' = [run EXCEPT ![r] = Done(r)]
  /\ UNCHANGED << measured, muted, mailed, served >>

FinishReminders(r) ==
  /\ run[r].pc = "next" /\ run[r].list = <<>>
  /\ run' = [run EXCEPT ![r] = [Idle EXCEPT !.job = Following(run[r].job)]]
  /\ UNCHANGED << measured, muted, mailed, served, faults, mishap >>

\* The invocation dies, and its queue of mails with it.
Crash(r) ==
  /\ run[r] # Idle
  /\ Fault
  /\ mishap' = IF run[r].pc = "stamp" THEN mishap \cup {Addressee(r)} ELSE mishap
  /\ run' = [run EXCEPT ![r] = Idle]
  /\ UNCHANGED << measured, muted, mailed, served >>
----------------------------------------------------------------------------
Remind(r) ==
  \/ SelectAwaiting(r) \/ ListFails(r) \/ RemindOne(r) \/ Skip(r) \/ RemindFails(r) \/ MutedMail(r)
  \/ SendMail(r) \/ (\E sent \in BOOLEAN : SendFails(r, sent))
  \/ Stamp(r) \/ StampFails(r) \/ FinishReminders(r)

Next ==
  \/ IntervalPasses
  \/ \E v \in Video : RecordMetrics(v)
  \/ \E c \in Creator, off \in BOOLEAN : SetMuted(c, off)
  \/ \E r \in Run : StartRun(r) \/ OtherJob(r) \/ Remind(r) \/ TimesOut(r) \/ Crash(r)

Spec == Init /\ [][Next]_vars

\* A creator who is told, and is not one of the silent, enters the metrics in the end.
Respond(v) == v \notin measured /\ mailed[Owner[v]] > 0 /\ RecordMetrics(v)

\* Cron starts a run every day, and a run goes on.  A job of another module may fail every
\* time; of the rest only so much fails.
Fairness ==
  /\ \A r \in Run : WF_vars(StartRun(r)) /\ WF_vars(OtherJob(r) \/ Remind(r))
  /\ \A v \in Video \ Silent : SF_vars(Respond(v))

FairSpec == Spec /\ Fairness

----------------------------------------------------------------------------
\* Properties

TypeOK ==
  /\ measured \subseteq Video
  /\ muted \subseteq Muting
  /\ mailed \in [Creator -> 0..2]
  /\ served \subseteq Creator /\ mishap \subseteq Creator
  /\ run \in [Run -> [job : 0..Len(Jobs), pc : {"off", "next", "send", "stamp"},
                      list : Seq(Video), tries : 0..MaxTries]]
  /\ faults \in 0..MaxFaults

\* A creator with any number of overdue videos gets one mail an interval, over every run of
\* it, unless an answer or a stamp was lost or two runs met; and it is "never a reminder
\* believed sent" (metric-reminders.ts): who counts as told was mailed, whatever failed.
MailsMatchTheRecord ==
  /\ \A c \in Creator \ mishap : mailed[c] <= 1
  /\ \A c \in served : mailed[c] > 0

\* Whoever owes metrics is mailed, though jobs fail, runs die, and some creators never
\* answer; the assumption BatchOutlastsSilent is needed, because a run takes the oldest
\* videos whether or not they were reminded.
EveryoneIsReminded ==
  \A v \in Video :
    v \notin measured ~> v \in measured \/ mailed[Owner[v]] > 0 \/ Owner[v] \in muted
=============================================================================
