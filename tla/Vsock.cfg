SPECIFICATION Spec
CONSTANTS
  Window = 4
  Wrap = 12
  MaxPayload = 4
  Backlog = 1
  Slots = 2
  Writers = {"w1", "w2"}
  Plans <- MCPlans
INVARIANTS NoOverrun UpHasPeer SlotsOwned NobodyWaitsInVain
PROPERTIES IsByteStream
CHECK_DEADLOCK FALSE
