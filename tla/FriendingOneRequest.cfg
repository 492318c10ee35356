SPECIFICATION FairSpec
CONSTANTS
  Pet = {p1, p2}
  Ios = {p1}
  Adders = {p1, p2}
  Hasty = {p1}
  Rejecters = {p1, p2}
  MaxAdds = 1
  MaxAnswers = 1
  MaxFaults = 0
  Absent = Absent
  Unknown = Unknown
  NoKey = NoKey
INVARIANT FriendsAgree
INVARIANT FriendsCanTalk
INVARIANT AcceptFindsRoom
PROPERTY AcceptedCanTalk
CHECK_DEADLOCK FALSE
