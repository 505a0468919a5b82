SPECIFICATION FairSpec
CONSTANTS
  Readers = {r1,r2}
  None = None
  Dead = Dead
  FirstVersions = {0, 1}
  MaxVersion = 2
  MaxTrouble = 3
CHECK_DEADLOCK FALSE
INVARIANT ColdKeyLoadsOnce
PROPERTIES NeverOlder EveryReadEnds
