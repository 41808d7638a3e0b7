CONSTANTS
  notes = notes
  contact = contact
  T0 = T0
  T1 = T1
  T2 = T2
  a = a
  b = b
  None = None
  Blank = T0
  Fields = {notes}
  Texts = {T0, T1, T2}
  Users = {a, b}
  MaxEdits = 2
  MaxFails = 0
  MaxOthers = 0
  MaxLogins = 2
  MaxReloads = 0
SPECIFICATION Spec
INVARIANT SavedMeansStored
CHECK_DEADLOCK FALSE
