SPECIFICATION SyncSpec
CONSTANTS
  w1 = w1
  w2 = w2
  n1 = n1
  n2 = n2
  Waiters = {w1, w2}
  Producers = {n1, n2}
  Kinds = {"one", "coalesced", "all"}
  MaxNotifies = 1
  MaxWaits = 2
  MaxStores = 1
INVARIANTS NoLostBroadcast SinglePermitsReach EntryOutlivesItsWaits NoSleeperAfterWakeAll
PROPERTIES BroadcastReleases
CHECK_DEADLOCK FALSE
