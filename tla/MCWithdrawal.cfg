SPECIFICATION FairSpec
CONSTANTS
  Transfer = {t1, t2}
  Worker = {w1, w2}
  Amount = {1}
  MaxEarned = 1
  NoTransfer = NoTransfer
CHECK_DEADLOCK FALSE
INVARIANTS
  SentWithinEarnings
  PaidHasArrived
PROPERTIES
  EveryWithdrawalEnds
