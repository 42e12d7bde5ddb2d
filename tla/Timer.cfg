SPECIFICATION FairSpec
CONSTANTS
  s1 = s1
  s2 = s2
  cpu0 = cpu0
  cpu1 = cpu1
  Sleeps = {s1, s2}
  Deadline <- Deadlines
  Remotes = {cpu1}
  Owner = cpu0
  MaxTime = 3
  SchedulerTick = 1
  IdleInterval = 3
INVARIANTS DeadlinesCovered NotForgotten
PROPERTIES OnlyInterruptMovesLater SleepsFire
