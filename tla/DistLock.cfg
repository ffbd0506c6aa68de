SPECIFICATION FairSpec
CONSTANTS
  Callers = {c1, c2}
  Keys = {k1, k2}
  Ids = {i1, i2, i3, i4}
  NoId = NoId
  LockTimeout = 3
  AcquireTimeout = 1
INVARIANTS
  TypeOK
  KeysMatchLeases
  LeaseMutex
PROPERTIES
  OnlyHolderReleases
  ImplementsService
  NoOrphanLock
  AcquireReturns
