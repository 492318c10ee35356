SPECIFICATION FairSpec
CONSTANTS
  row1 = row1
  row2 = row2
  photo1 = photo1
  photo2 = photo2
  View <- Rows
  Url <- Photos
  NoPicture = NoPicture
  Blank = Blank
  MaxBinds = 4
  MaxFaults = 1
INVARIANT ViewsSettle
INVARIANT LoadedOnce
PROPERTY PictureComes
CHECK_DEADLOCK FALSE
