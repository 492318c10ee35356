SPECIFICATION Spec
CONSTANTS
  Pet = {p1, p2}
  Ios = {p1}
  Adders = {p1, p2}
  Hasty = {p1}
  Rejecters = {p1, p2}
  MaxAdds = 2
  MaxAnswers = 1
  MaxFaults = 1
  Absent = Absent
  Unknown = Unknown
  NoKey = NoKey
INVARIANT TypeOK
INVARIANT KeysAgree
CHECK_DEADLOCK FALSE
