SPECIFICATION FundingSpec
CONSTANTS
  Deal = {d1}
  Session = {s1, s2}
  Worker = {w1, w2}
  NoSession = NoSession
  Charge = {}
  NoCharge = NoCharge
  MaxAsked = 0
SYMMETRY Symmetry
CHECK_DEADLOCK FALSE
INVARIANTS
  SessionsTellTheMoney
  OneOpenSession
