SPECIFICATION FairSpec
CONSTANTS
  Claims = {c1}
  Zones <- BothZones
  Specs <- ThreeSpecs
  Images = {"i"}
  Labels = {"l", "m"}
  z1 = z1
  z2 = z2
  None = None
  MaxEdits = 1
  MaxRestarts = 1
INVARIANTS TypeOK NoNeedlessDrift MigrationOrder FlaggedKeepsHash
PROPERTIES DriftSettles StaysSettled
CHECK_DEADLOCK FALSE
