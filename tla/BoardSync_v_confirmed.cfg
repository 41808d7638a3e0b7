CONSTANTS
  A = A
  B = B
  theirs = theirs
  elsewhere = elsewhere
  text = text
  move = move
  take = take
  post = post
  Events = {A}
  First = A
  Foreign = {theirs}
  Edits = {}
  Calls = {}
  Posts = {}
  Moves = {}
  Removals = {}
  Crew = {}
  Quiet = {}
  OnCard = {}
  EventOf <- AllOfA
  MaxDrops = 0
  MaxFails = 1
  MaxSwitches = 0
  MaxTogether = 1
  MaxClaims = 1
SPECIFICATION Spec
PROPERTIES ConfirmedIsCurrent
CHECK_DEADLOCK FALSE
