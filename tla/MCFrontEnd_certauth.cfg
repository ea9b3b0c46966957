SPECIFICATION FrontSpec
CONSTANTS
  Devices = {d1, d2}
  Certs = {k1, k2, k3, x}
  Trusted = {k1, k2, k3}
  Requests = {r1, r2}
  Backends = {"sql", "kv"}
  Allowed = {}
  MaxFail = 1
  None = None
INVARIANTS
  EnrolledStays
  OneOwner
  NotLockedOut
  ProxiedAsServed
  EnrolledIsProxied
SYMMETRY Symmetry
