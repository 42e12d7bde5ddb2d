SPECIFICATION FairWheelSpec
CONSTANTS
  e1 = e1
  e2 = e2
  Levels = 3
  RingSlots = 2
  Quantum = 2
  Entries = {e1, e2}
  MaxStart = 2
  MaxNow = 12
  MaxDelay = 7
INVARIANTS FiresOnTime WheelAgrees
PROPERTIES PassEnds
