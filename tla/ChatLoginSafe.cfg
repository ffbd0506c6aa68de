SPECIFICATION Spec
CONSTANTS
  Servers = {sA, sB}
  Users = {u}
  Sessions = {s1, s2}
  NoServer = NoServer
  NoUser = NoUser
  NoSession = NoSession
  NoId = NoId
  DeadId = DeadId
  MaxMsgs = 1
  MaxFaults = 1
  Garbage = {NoUser}
  FirstBeat = {"usual"}
  MayTimeout = FALSE
  RpcMayFail = TRUE
  RedisMayFail = TRUE
SYMMETRY Symmetry
INVARIANTS
  TypeOK
  ValidIsCurrent
  PresencePaired
  PresenceSettles
PROPERTIES
  NewerLoginKept
CHECK_DEADLOCK FALSE
