SPECIFICATION FairSpec
CONSTANTS
  Posters = {p1, p2}
  Known = {k}
  Unknown = {x}
  Throwing = {t}
  MaxPosts = 3
PROPERTIES
  DrainHandlesAll
CHECK_DEADLOCK FALSE
