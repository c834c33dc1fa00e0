SPECIFICATION Spec
CONSTANTS
  Callers = {t1}
  Types = {m1}
  Zones = {z1, z2}
  ZoneSets <- Overlapping
  z1 = z1
  z2 = z2
  AnyType = AnyType
  Statuses = {409}
  MaxFailures = 1
INVARIANTS NoStaleOfferings
CHECK_DEADLOCK FALSE
