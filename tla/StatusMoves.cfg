\* Two boards; three moves, failures, prompts and automatic moves, two of them moves.
CONSTANTS
  p = p
  q = q
  None = None
  Boards = {p, q}
  Targets = {"enroute", "complete"}
  MaxMoves = 2
  MaxOthers = 3
  MaxTogether = 3
SPECIFICATION Spec
INVARIANTS TypeOK OwnMovesInOrder NoBoardLeftBehind SlipPerDispatch
PROPERTIES OnlySeenMoves FieldNeverTouchesComplete
SYMMETRY BoardsAlike
CHECK_DEADLOCK FALSE
