SPECIFICATION Spec
CONSTANTS
  Extension = {x1, x2}
  Windows = {1, NoTime}
  MaxTime = 5
  Skew = 1
  NoTime = NoTime
  Nobody = Nobody
SYMMETRY Symmetry
CHECK_DEADLOCK FALSE
INVARIANTS
  OpenRequestsAreCurrent
  TheDateWasAgreed
  PunctualityTellsTheHistory
PROPERTIES
  DeliveryFreezes
