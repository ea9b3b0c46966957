SPECIFICATION FairSpec
CONSTANTS
  a = a
  b = b
  t1 = t1
  t2 = t2
  Ids = {a, b}
  Topics = {t1, t2}
  Workers = 2
  Requests <- MCRequests
  None = None
INVARIANTS
  Answered
  PoolInv
  CodeTells
PROPERTIES
  Returns
CHECK_DEADLOCK FALSE
