SPECIFICATION PoolSpec
CONSTANTS
  s1 = s1
  s2 = s2
  s3 = s3
  i1 = i1
  i2 = i2
  NoSleep = NoSleep
  NoSlot = NoSlot
  Futures = {s1, s2, s3}
  Slots = {i1, i2}
INVARIANTS TouchesOwnSleep SlotsHaveOneOwner
PROPERTIES NeverForgetsLive
CHECK_DEADLOCK FALSE
