SPECIFICATION FairSpec
CONSTANTS
  d1 = d1
  u1 = u1
  Devices = {d1}
  Users = {}
  ParentID <- MCNoUsers
  UUIDs = {c1, c2}
  Threads = {t1}
  None = None
  Backend = "pgsql"
  rm = FALSE
  Overlap = FALSE
  Messages <- MCAll
  MaxTally = 1
  MaxClock = 1
  MaxFail = 1
INVARIANTS
  FirstDeliveryInOrder
  NoRedelivery
  EscrowOfEnrollment
PROPERTIES
  EveryCommandDelivered
