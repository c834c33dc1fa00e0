SPECIFICATION FairSpec
CONSTANTS
  Callers = {t1, t2}
  Types = {m1}
  Zones = {z1, z2}
  ZoneSets <- Apart
  z1 = z1
  z2 = z2
  AnyType = AnyType
  Statuses = {409, 503}
  MaxFailures = 1
INVARIANTS TypeOK StaleOnlyByAnotherNumber
PROPERTIES BackInRotation FailureLeavesRotation
CHECK_DEADLOCK FALSE
