SPECIFICATION Spec
CONSTANTS
  s1 = s1  s2 = s2  c1 = c1  c2 = c2  c3 = c3
  Servers = {s1, s2}
  Conns = {c1, c2, c3}
  Pool <- MCPool
  Uids = {1, 2}
  Moves <- MCMoves
  Home <- MCHome
  Stored0 <- MCStored
  Requests <- MCRequests
  PageSize = 1
  MaxRetry = 2
  MaxThreads = 3
  None = None
  NoView = NoView
INVARIANT NotifiedIsStored
