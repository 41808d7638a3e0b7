CONSTANTS
  A = A
  B = B
  theirs = theirs
  elsewhere = elsewhere
  text = text
  move = move
  take = take
  post = post
  Events = {A}
  First = A
  Foreign = {}
  Edits = {text, move}
  Calls = {take}
  Posts = {}
  Moves = {move}
  Removals = {take}
  Crew = {take}
  Quiet = {}
  OnCard = {take, text, move}
  EventOf <- AllOfA
  MaxDrops = 1
  MaxFails = 1
  MaxSwitches = 0
  MaxTogether = 1
  MaxClaims = 2
SPECIFICATION Spec
INVARIANTS TypeOK HoldsAreOwed PutOffUpdateIsReplayed NothingForgotten
PROPERTIES NoSnapBack
