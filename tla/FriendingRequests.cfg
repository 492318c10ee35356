SPECIFICATION Spec
CONSTANTS
  Pet = {p1, p2}
  Ios = {p1}
  Adders = {p1, p2}
  Hasty = {}
  Rejecters = {}
  MaxAdds = 2
  MaxAnswers = 2
  MaxFaults = 0
  Absent = Absent
  Unknown = Unknown
  NoKey = NoKey
INVARIANT RequestHasRoom
INVARIANT RecordsAgree
INVARIANT NoCrossedRequests
CHECK_DEADLOCK FALSE
