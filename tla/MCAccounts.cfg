SPECIFICATION FairSpec
CONSTANTS
  n1 = n1  n2 = n2  m1 = m1  m2 = m2  p1 = p1  p2 = p2
  Handlers = {h1, h2}
  Conns = {c1, c2}
  Names = {n1, n2}
  Mails = {m1, m2}
  Pwds = {p1, p2}
  Forms <- MCForms
  MaxCodes = 1
  None = None
  NoView = NoView
INVARIANTS TypeOK RegisteredStays UidIsFree
PROPERTY RequestsReturn
