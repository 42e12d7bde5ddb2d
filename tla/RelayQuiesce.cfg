SPECIFICATION Spec
CONSTANTS
  d1 = d1
  d2 = d2
  Drivers = {d1, d2}
  NumSources = 1
  Mappings = {"region"}
  MaxDeliveries = 3
  MaxClaims = 2
INVARIANTS QuiescedIsHeldOff
CHECK_DEADLOCK FALSE
