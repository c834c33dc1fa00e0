SPECIFICATION Spec
CONSTANTS
  Callers = {t1}
  Types = {m1}
  Zones = {z1}
  ZoneSets <- OneZone
  z1 = z1
  z2 = z2
  AnyType = AnyType
  Statuses = {403, 409, 503}
  MaxFailures = 1
PROPERTIES FailureLeavesRotation
CHECK_DEADLOCK FALSE
