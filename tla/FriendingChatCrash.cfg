SPECIFICATION Spec
CONSTANTS
  Pet = {p1, p2}
  Ios = {p1, p2}
  Adders = {p1, p2}
  Hasty = {p1}
  Rejecters = {}
  MaxAdds = 1
  MaxAnswers = 1
  MaxFaults = 0
  Absent = Absent
  Unknown = Unknown
  NoKey = NoKey
PROPERTY FriendChatOpens
CHECK_DEADLOCK FALSE
