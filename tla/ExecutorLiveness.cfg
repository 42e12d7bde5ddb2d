SPECIFICATION FairSpec
CONSTANTS
  N = 2
  l0 = l0
  l1 = l1
  g = g
  Tasks = {l0, g}
  NoTask = NoTask
  Home <- Homes
  DeviceProcs = {}
  WakeLatch = TRUE
PROPERTIES ScheduledTasksRun
