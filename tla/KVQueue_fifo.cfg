SPECIFICATION Spec
CONSTANTS
  Commands = {c1, c2, c3, c4}
  None = None
  Requests = {a1}
  Allowed = {}
  MaxFail = 1
INVARIANTS
  NothingLost
  UnlinkRemoves
  WalkEnds
PROPERTIES
  ImplementsQueue
