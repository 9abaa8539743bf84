------------------------------ MODULE MCReminders ------------------------------
(***************************************************************************)
(* Reminders with three videos, two of them one creator's, and a batch of  *)
(* two; one creator may mute the mails and never answer.                   *)
(***************************************************************************)
EXTENDS Reminders

CONSTANTS c1, c2, v1, v2, v3

MCOverdue == << v1, v2, v3 >>
MCOwner == [v \in {v1, v2, v3} |-> IF v = v1 THEN c1 ELSE c2]
MCJobs == << "expire-offers", "metric-reminders" >>
=============================================================================
