SPECIFICATION FairSpec
CONSTANTS
  MaxRounds = 1
  MaxConversations = 2
  MaxDuplicates = 1
  MaxApprovals = 2
CHECK_DEADLOCK FALSE
INVARIANTS SealedBase VerifyAfterChallenge LocksNeverCross
PROPERTIES AuthorityReleased
