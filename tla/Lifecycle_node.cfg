SPECIFICATION Spec
CONSTANTS
  Claims = {c1}
  Servers = {s1, s2}
  None = None
  Unstamped = {}
  Joining = {s1}
  GracePeriod = 3
  PersistDelay = 1
  PassDelay = 1
  NodeClassStates = {"ready"}
  Restarts = FALSE
PROPERTIES GCRemovesNode
CHECK_DEADLOCK FALSE
