SPECIFICATION FairSpec
CONSTANTS
  Drivers = {d1, d2}
  Evidence = {state}
  Manifest = manifest
  None = None
  MaxCuts = 1
  MaxApprovals = 2
  MaxEvents = 1
INVARIANTS
    NeverTogether
PROPERTIES
    ReceiptBound
    HandoffCompletes
CHECK_DEADLOCK FALSE
