SPECIFICATION Spec
CONSTANTS
  d1 = d1
  u1 = u1
  Devices = {d1}
  Users = {u1}
  ParentID <- MCParent
  None = None
  Backends = {"kv"}
  MaxSent <- MCTwo
  MaxFail = 0
INVARIANTS
  EnabledSinceUpdate
CHECK_DEADLOCK FALSE
