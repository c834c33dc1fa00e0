SPECIFICATION FairSpec
CONSTANTS
  Claims = {c1}
  Servers = {s1, s2}
  None = None
  Unstamped = {s2}
  Joining = {}
  GracePeriod = 1
  PersistDelay = 0
  PassDelay = 0
  NodeClassStates = {"ready", "unresolved", "absent"}
  Restarts = FALSE
PROPERTIES OrphansReaped DeletedReleased
CHECK_DEADLOCK FALSE
