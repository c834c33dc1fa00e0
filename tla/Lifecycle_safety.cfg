SPECIFICATION Spec
CONSTANTS
  Claims = {c1, c2}
  Servers = {s1, s2}
  None = None
  Unstamped = {s2}
  Joining = {s1}
  GracePeriod = 3
  PersistDelay = 1
  PassDelay = 1
  NodeClassStates = {"ready", "unresolved"}
  Restarts = TRUE
SYMMETRY Symmetry
INVARIANTS TypeOK GCSparesOwned ReleasedAfterServer
PROPERTIES KeepsCustody
CHECK_DEADLOCK FALSE
