SPECIFICATION Spec
CONSTANTS
  N = 2
  l0 = l0
  l1 = l1
  g = g
  Tasks = {l0, l1}
  NoTask = NoTask
  Home <- Homes
  DeviceProcs = {0}
  WakeLatch = TRUE
INVARIANTS NoWakeIsLost
