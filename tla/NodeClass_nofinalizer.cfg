SPECIFICATION Spec
CONSTANTS
  Claims = {c1}
  Zones <- BothZones
  Regions <- Growing
  Specs <- OneSpec
  z1 = z1
  z2 = z2
  None = None
  Finalized = FALSE
  MaxGeneration = 1
INVARIANTS OutlivesLaunched
CHECK_DEADLOCK FALSE
