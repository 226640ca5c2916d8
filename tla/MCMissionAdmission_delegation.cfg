SPECIFICATION FairSpec
CONSTANTS
  lead = lead
  a = a
  b = b
  c = c
  r0 = r0
  r1 = r1
  r2 = r2
  None = None
  Ids = {lead, a, b, c}
  Recipients = {r0, r1, r2}
  Requests <- DelegationRequests
  Deadline = 1
  Credits = 2
  MaxActive = 2
  MaxTime = 2
  MaxRisk = 1
INVARIANTS
  LineageSound
  ExclusiveActivity
  CreditsConserved
PROPERTIES
  CancellationCutsLaunch
  ApprovalPinned
  
