SPECIFICATION FairSpec
CONSTANTS
  Writers = {w1, w2}
  Barriers = {b1, b2}
  None = None
  MaxCrashes = 2
  Events <- MCEvents
  Finals <- MCFinals
  Batches <- MCBatches
INVARIANTS AckedDurable SnapshotStays
PROPERTIES LogImplemented StaleMarkerClears
