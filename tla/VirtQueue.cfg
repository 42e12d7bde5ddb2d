SPECIFICATION Spec
CONSTANTS
  Tasks <- MCTasks
  Loads <- MCLoads
  Size = 2
  Wrap = 4
  MaxFaults = 1
INVARIANTS ChainsAreClaimed RepliesAreOwn OnlyTheMissedAreForgotten
CHECK_DEADLOCK FALSE
