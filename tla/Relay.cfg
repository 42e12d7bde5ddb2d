SPECIFICATION FairSpec
CONSTANTS
  d1 = d1
  d2 = d2
  Drivers = {d1, d2}
  NumSources = 1
  Mappings = {"region"}
  MaxDeliveries = 3
  MaxClaims = 2
INVARIANTS RoomForEvents ArmedSourceIsOpen TakenBack
PROPERTIES DeliveriesReach
CHECK_DEADLOCK FALSE
