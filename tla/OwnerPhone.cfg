SPECIFICATION Spec
CONSTANTS
  u = u
  v = v
  Account <- Accounts
  Absent = Absent
  Nobody = Nobody
  MaxLogins = 2
  MaxForms = 2
  MaxViews = 2
SYMMETRY Symmetry
INVARIANTS
  TypeOK
  SavedFormStays
  ObjectIsOwn
  HomeHasProfile
CHECK_DEADLOCK FALSE
