SPECIFICATION Spec
CONSTANTS
  d1 = d1
  u1 = u1
  Devices = {d1}
  Users = {u1}
  ParentID <- MCParent
  None = None
  Backends = {"kv", "sql", "file"}
  MaxSent <- MCMaxSent
  MaxFail = 1
INVARIANTS
  UsersLeaveWithDevice
  ServerKnowsEnrollment
  TallyOfEnrollment
  EscrowOfEnrollment
  Migrated
  NoGhosts
CHECK_DEADLOCK FALSE
