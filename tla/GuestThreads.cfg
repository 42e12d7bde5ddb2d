SPECIFICATION FairSpec
CONSTANTS
  t1 = t1
  t2 = t2
  Threads = {t1, t2}
  Main = main
  Plans <- MCPlans
INVARIANT EndsWhole
INVARIANT StopsAreComing
PROPERTY StopsEnd
CHECK_DEADLOCK FALSE
