SPECIFICATION FairFundingSpec
CONSTANTS
  Deal = {d1}
  Session = {s1}
  Worker = {w1, w2}
  NoSession = NoSession
  Charge = {}
  NoCharge = NoCharge
  MaxAsked = 0
CHECK_DEADLOCK FALSE
PROPERTIES
  PaidIsHonoured
