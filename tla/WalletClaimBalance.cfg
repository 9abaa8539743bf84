SPECIFICATION Spec
CONSTANTS
  Transfer = {t1, t2}
  Worker = {w1, w2}
  Amount = {1, 2}
  MaxEarned = 2
  NoTransfer = NoTransfer
CHECK_DEADLOCK FALSE
INVARIANT
  BalanceNeverNegative
