SPECIFICATION Spec
CONSTANTS
  Board <- MCBoard
  Start <- MCStart
  Quiet <- MCQuiet
  Capture <- MCCapture
  InCheck <- MCInCheck
  Piece <- MCPiece
  Chased <- MCChased
  Slot <- MCSlot
  CheckLimit = 1
  Rule60 = 6
  Wrap = 256
  MaxStates = 10
INVARIANTS
  WindowIsQuietRun
  FilterCountsVisits
  ClockFollowsRule
  JudgedByTheRules
CHECK_DEADLOCK FALSE
