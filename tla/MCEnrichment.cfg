SPECIFICATION EnrichmentSpec
CONSTANTS
  Worker = {w1, w2, w3}
  Tier <- Ladder
  Numbers <- SomeNumbers
  Missing = Missing
  NoFloor = NoFloor
  NoTier = NoTier
  Task = {t1, t2, t3}
  Blob = {b1, b2, b3}
  NoBlob = NoBlob
  MaxVersion = 3
  Caller = {q1, q2}
  Address = {"own", "misspelt"}
  Own = {"own"}
  MaxAttempts = 2
  MaxCodes = 2
  Creator = {c1, c2}
  Overdue <- MCOverdue
  Owner <- MCOwner
  Jobs <- MCJobs
  Cron = {r1, r2}
  BatchLimit = 2
  MaxTries = 2
  Silent = {v1}
  Muting = {c1}
  MaxFaults = 1
  DealRow <- SomeRows
  MaxDeals = 2
  Null = Null
  NoPost = NoPost
  p1 = p1
  p2 = p2
  x = x
  y = y
  k1 = k1
  k2 = k2
  c1 = c1
  c2 = c2
  v1 = v1
  v2 = v2
  v3 = v3
INVARIANTS
  ToldTheTier
  NoBrokenImage
  NoOrphan
  AddressIsReadable
  MailsMatchTheRecord
  InsightsAddUp
PROPERTIES
  NoRefreshLowersATier
SYMMETRY Symmetries
CHECK_DEADLOCK FALSE
