SPECIFICATION FairSpec
CONSTANTS
  VMMemoryOverhead = 75
  None = None
  Zones = {"z1", "z2"}
  AnyType = AnyType
  Claims = {"any", "big"}
  Machines <- MCMachines
  Overrides <- MCOverrides
  Wanted <- MCWanted
  PrefixLengths <- MCPrefixLengths
  NodeClasses <- MCNodeClasses
  TTL = 3
  MaxChanges = 2
  MaxRestamps = 1
INVARIANTS TypeOK RequestsFit
PROPERTIES FailedStaysOut EventuallyLaunched
