SPECIFICATION Spec
CONSTANTS
  Commands = {c1, c2, c3}
  None = None
  Requests = {a1}
  Allowed = {"tail"}
  MaxFail = 0
INVARIANTS
  UnlinkRemoves
