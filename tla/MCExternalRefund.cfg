SPECIFICATION FairSpec
CONSTANTS
  Deal = {d1, d2}
  Charge = {c1}
  NoCharge = NoCharge
  Worker = {w1, w2}
  MaxAsked = 3
INVARIANTS
  OnceUnlessMishap
  RowsTellTheTruth
PROPERTIES
  DueIsSettledOrShown
CHECK_DEADLOCK FALSE
