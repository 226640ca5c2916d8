SPECIFICATION FairSpec
CONSTANTS
  Writers = {w1}
  Readers = {r1}
  None = None
  MaxCrashes = 1
  MaxMeddles = 0
PROPERTIES CrashResumes
CHECK_DEADLOCK FALSE
