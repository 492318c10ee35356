SPECIFICATION FairSpec
CONSTANTS
  Pet = {p1, p2}
  Ios = {p1}
  Early = {p1, p2}
  MaxMessages = 2
  Times <- TwoTimes
INVARIANT TypeOK
INVARIANT ShownOnce
INVARIANT IosUpToDate
INVARIANT AndroidUpToDate
PROPERTY IosCatchesUp
PROPERTY ImplementsRoom
CHECK_DEADLOCK FALSE
