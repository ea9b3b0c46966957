SPECIFICATION Spec
CONSTANTS
  Commands = {1, 2, 3}
  None = None
  Callers = {"client", "api"}
  Stores = {1, 2}
  Kinds <- MCKinds
  Allowed = {}
  MaxFail = 1
INVARIANTS
  InSync
  NextDecodes
PROPERTIES
  ImplementsFirst
