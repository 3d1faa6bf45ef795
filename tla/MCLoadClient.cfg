SPECIFICATION FairSpec
CONSTANTS
  r1 = r1
  r2 = r2
  c1 = c1
  Req = {r1, r2}
  Conn = {c1}
  None = None
  Config <- MCConfig
  MaxScheduled = 2
INVARIANT RequestsAccounted
PROPERTIES ReplyIsOwn RequestEnds RetiringCloses
