SPECIFICATION ArenaSpec
CONSTANTS
  t1 = t1
  t2 = t2
  t3 = t3
  Null = Null
  NoFuture = NoFuture
  Futures = {t1, t2, t3}
  ClassCount = 3
  ShareTops = 1
  ReserveTops = 1
INVARIANTS ArenaAccounted
PROPERTIES HonestRefusal
SYMMETRY Symmetry
CHECK_DEADLOCK FALSE
