\* One board; a card that moves on after the field's tap has looked at it.
CONSTANTS
  p = p
  q = q
  None = None
  Boards = {p}
  Targets = {"enroute", "returning"}
  MaxMoves = 2
  MaxOthers = 1
  MaxTogether = 3
SPECIFICATION Spec
PROPERTY NeverDraggedBack
CHECK_DEADLOCK FALSE
