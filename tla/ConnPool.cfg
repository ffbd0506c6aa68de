SPECIFICATION FairSpec
CONSTANTS
  Users = {u1, u2, u3}
  Nested = {u1}
  PoolSize = 2
  Kinds = {"redis", "mysql", "rpc"}
INVARIANTS TypeOK OnePlace Accounted NoLostWakeup StuckOnlyIfNested
PROPERTIES SleepersMeetFree FailedAreRetried
