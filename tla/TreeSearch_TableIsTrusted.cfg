SPECIFICATION Spec
CONSTANTS
  MAX_PLY = 3
  MaxMoves <- MCMaxMoves
INVARIANTS TableIsTrusted
