SPECIFICATION Spec
CONSTANTS
  Enrollments = {e1, e2, e3}
  Backend = "mysql"
  None = None
INVARIANTS
  DeletedAfterResponses
PROPERTIES
  NoCommandLost
