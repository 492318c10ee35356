SPECIFICATION Spec
CONSTANTS
  Pet = {p1, p2}
  Ios = {p1, p2}
  Adders = {p1, p2}
  Hasty = {}
  Rejecters = {p1, p2}
  MaxAdds = 2
  MaxAnswers = 1
  MaxFaults = 0
  Absent = Absent
  Unknown = Unknown
  NoKey = NoKey
SYMMETRY PetSymmetry
PROPERTY FriendshipNotReset
CHECK_DEADLOCK FALSE
