SPECIFICATION FairSpec
CONSTANTS
  i = i
  None = None
  Ids = {1, 2}
  Instances = {i}
  Affected <- MCAffected
  Blocking = {1}
  Defaults = {1, 2}
  Procs = {worker, caller}
  Worker = worker
  MaxCrashes = 1
  MaxRejects = 1
CHECK_DEADLOCK FALSE
INVARIANTS WokenOnce DecisionsBind
PROPERTIES DefaultsApply WakeUpsSettle
