SPECIFICATION Spec
CONSTANTS
  d1 = d1
  u1 = u1
  Devices = {d1}
  Users = {u1}
  ParentID <- MCParent
  Backends = {"kv", "file"}
  MaxSent <- MCMaxSent
  MaxFail = 1
  Messages <- MCMessages
  Goroutines <- MCGoroutines
INVARIANTS
  TallyCounts
  HeardOfAll
PROPERTY
  EventPosted
