SPECIFICATION Spec
CONSTANTS
  Servers = {sA}
  Users = {u}
  Sessions = {s1}
  NoServer = NoServer
  NoUser = NoUser
  NoSession = NoSession
  NoId = NoId
  DeadId = DeadId
  MaxMsgs = 2
  MaxFaults = 0
  Garbage = {NoUser}
  FirstBeat = {"future"}
  MayTimeout = FALSE
  RpcMayFail = FALSE
  RedisMayFail = FALSE
INVARIANT ClosedIsOffline
CHECK_DEADLOCK FALSE
