SPECIFICATION FairSpec
CONSTANTS
  Claims = {c1}
  Zones <- BothZones
  Regions <- Growing
  Specs <- TwoSpecs
  z1 = z1
  z2 = z2
  None = None
  Finalized = FALSE
  MaxGeneration = 2
INVARIANTS TypeOK LaunchesFromAcceptedSpec OutlivesOwned
PROPERTIES StatusConverges Terminates StaysSettled
CHECK_DEADLOCK FALSE
