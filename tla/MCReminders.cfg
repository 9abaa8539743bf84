SPECIFICATION FairSpec
CONSTANTS
  c1 = c1
  c2 = c2
  v1 = v1
  v2 = v2
  v3 = v3
  Creator = {c1, c2}
  Overdue <- MCOverdue
  Owner <- MCOwner
  Jobs <- MCJobs
  Run = {r1, r2}
  BatchLimit = 2
  MaxTries = 2
  Silent = {v1}
  Muting = {c1}
  MaxFaults = 2
PROPERTY
  EveryoneIsReminded
