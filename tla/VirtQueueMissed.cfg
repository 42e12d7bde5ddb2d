SPECIFICATION Spec
CONSTANTS
  Tasks <- MCTasks
  Loads <- MCLoads
  Size = 2
  Wrap = 4
  MaxFaults = 0
INVARIANTS NobodyIsForgotten
CHECK_DEADLOCK FALSE
