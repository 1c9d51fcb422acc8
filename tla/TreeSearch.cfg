SPECIFICATION Spec
CONSTANTS
  MAX_PLY = 3
  MaxMoves <- MCMaxMoves
INVARIANTS Balanced LinesLive StoppedIsDiscarded
