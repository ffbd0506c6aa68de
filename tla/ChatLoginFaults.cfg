SPECIFICATION FairSpec
CONSTANTS
  Servers = {sA}
  Users = {u}
  Sessions = {s1}
  NoServer = NoServer
  NoUser = NoUser
  NoSession = NoSession
  NoId = NoId
  DeadId = DeadId
  MaxMsgs = 2
  MaxFaults = 1
  Garbage = {NoUser, u}
  FirstBeat = {"usual", "future"}
  MayTimeout = TRUE
  RpcMayFail = TRUE
  RedisMayFail = TRUE
PROPERTIES
  DeadLeavesTable
CHECK_DEADLOCK FALSE
