SPECIFICATION FairSpec
CONSTANTS
  NumServers = 2
  MaxConns = 2
  MaxEvents = 2
  None = None
INVARIANTS TypeOK SomeServerFound
PROPERTY CountSettles
