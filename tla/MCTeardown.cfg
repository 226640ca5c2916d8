SPECIFICATION FairSpec
CONSTANTS
  Writers = {w1, w2}
  Readers = {r1}
  None = None
  MaxCrashes = 1
  MaxMeddles = 1
INVARIANTS WorkKept ArchiveComplete
PROPERTIES RefsRespected TeardownCompletes
CHECK_DEADLOCK FALSE
