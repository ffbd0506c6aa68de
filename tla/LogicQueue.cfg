SPECIFICATION FairSpec
CONSTANTS
  Posters = {p1, p2}
  Known = {k}
  Unknown = {x}
  Throwing = {t}
  MaxPosts = 4
INVARIANTS
  NoLostWakeup
  InOrder
PROPERTIES
  RequestsServed
CHECK_DEADLOCK FALSE
