SPECIFICATION ScrollingSpec
CONSTANTS
  N = 4
  Limit = 2
  Threshold = 2
  MaxBatches = 4
  MaxChanges = 1
INVARIANT TypeOK
INVARIANT SkipsOwnAndFriends
INVARIANT NoGap
INVARIANT AndroidNoDuplicates
PROPERTY AndroidListsAll
CHECK_DEADLOCK FALSE
