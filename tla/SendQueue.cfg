SPECIFICATION FairSpec
CONSTANTS
  Msgs = {m1, m2}
  MaxSendQue = 2
  MaxSends = 5
INVARIANTS
  TypeOK
  OneWrite
  QueueIsServed
  InOrder
PROPERTIES
  ImplementsChannel
  AcceptedIsWritten
CHECK_DEADLOCK FALSE
