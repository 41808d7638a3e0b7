CONSTANTS
  A = A
  B = B
  theirs = theirs
  elsewhere = elsewhere
  text = text
  move = move
  take = take
  post = post
  Events = {A, B}
  First = A
  Foreign = {elsewhere}
  Edits = {}
  Calls = {}
  Posts = {post}
  Moves = {}
  Removals = {}
  Crew = {elsewhere}
  Quiet = {}
  OnCard = {}
  EventOf <- ElsewhereOfB
  MaxDrops = 1
  MaxFails = 1
  MaxSwitches = 1
  MaxTogether = 2
  MaxClaims = 1
SPECIFICATION FairSpec
INVARIANT OneEreignis
PROPERTY FinallyCurrent
