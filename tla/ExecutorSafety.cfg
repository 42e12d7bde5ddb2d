SPECIFICATION Spec
CONSTANTS
  N = 2
  l0 = l0
  l1 = l1
  g = g
  Tasks = {l1, g}
  NoTask = NoTask
  Home <- Homes
  DeviceProcs = {0}
  WakeLatch = TRUE
INVARIANTS RunnablesAccounted NoLocalWakeIsLost NoGlobalWakeIsLost
