SPECIFICATION CertsFairSpec
CONSTANTS
  Threads = {t1, t2}
  Backends = {"sql", "kv", "file"}
  Overlap = FALSE
  SameKey = FALSE
  MaxCert = 3
  MaxFail = 1
INVARIANTS
  StaleNoticed
  PushesCurrent
PROPERTIES
  CacheSettles
