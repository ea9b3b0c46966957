SPECIFICATION Spec
CONSTANTS
  d1 = d1
  u1 = u1
  Devices = {d1}
  Users = {u1}
  ParentID <- MCOneUser
  UUIDs = {c1}
  Threads = {t1, t2}
  None = None
  Backend = "mysql"
  rm = TRUE
  Overlap = FALSE
  Messages <- MCEnroll
  MaxTally = 2
  MaxClock = 0
  MaxFail = 1
SYMMETRY MCThreads
INVARIANTS
  TypeOK
  EnabledIffTally
  NoStaleCommand
  QueueIntegrity
  ServerKnowsEnrollment
  EnabledSinceUpdate
