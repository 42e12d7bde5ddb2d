SPECIFICATION Spec
CONSTANTS
  Wrap = 24
  Window = 4
  Unit = 2
  MaxField = 3
  Mss = 2
  UpdateBytes = 2
  MaxOutOfOrder = 1
  MaxInFlight = 2
  QuickAcks = 1
  DelayedAcks = 2
  MaxAcks = 2
  LossAcks = 1
  MaxTries = 2
  Iss <- MCIss
  Plans <- ExchangePlans
INVARIANTS CloseRunsToItsEnd
CHECK_DEADLOCK FALSE
