SPECIFICATION FairSpec
CONSTANTS
  Creator = {c1, c2}
  Prices = {2, 3}
  Budgets = {3, 5}
  Sweep = {s1, s2}
  BatchLimit = 2
  Broken = {c1}
  Window = 1
  MaxVideos = 2
  MaxTerms = 2
  MaxTime = 2
  MaxAborts = 1
CHECK_DEADLOCK FALSE
INVARIANTS
  CommittedWithinBudget
  OffersAreTheCart
PROPERTIES
  AnswersAreInformedAndFinal
  LapsedOffersEnd
