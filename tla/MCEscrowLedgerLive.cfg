SPECIFICATION FairSpec
CONSTANTS
  d1 = d1
  d2 = d2
  c1 = c1
  Deal = {d1, d2}
  Campaign = {c1}
  CampaignOf <- MCCampaignOf
  Price <- MCPrice
  RateBp <- MCRateBp
  Worker = {w1, w2}
  Ref = {r1, r2}
  NoRef = NoRef
  MaxRetries = 0
CHECK_DEADLOCK FALSE
PROPERTIES
  CallsEnd
