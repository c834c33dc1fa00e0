SPECIFICATION FairSpec
CONSTANTS
  Callers = {r1, r2}
  Keys = {managedBy, team}
  Values = {ours, theirs}
  ManagedBy = managedBy
  Cluster = ours
  UserLabels <- AskedLabels
  None = None
  managedBy = managedBy
  team = team
  ours = ours
  theirs = theirs
  MaxEdits = 2
INVARIANTS TypeOK StaysManaged CacheFollowsUpdates RewritesFromOutdated
PROPERTIES LabelsConverge
CHECK_DEADLOCK FALSE
