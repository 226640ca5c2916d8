SPECIFICATION FairSpec
CONSTANTS
  Writers = {w}
  Readers = {r}
  None = None
  MaxStops = 2
  MaxMeddles = 1
CHECK_DEADLOCK FALSE
INVARIANTS
    Owned
    FleetWhole
PROPERTIES
    WorkKept
    BootSettles
