SPECIFICATION DeepeningSpec
CONSTANTS
  m1 = m1
  m2 = m2
  m3 = m3
  RootMoves <- MCMoves
  MaxPly = 3
  Growth = 4
  QuietDepth = 1
  Decisive = 2
  Infinite = 4
  MateIn3 = 3
  MatedIn2 <- MCMatedIn2
  Limits <- MCLimits
INVARIANTS ShownIsFinal LinesAreSound
PROPERTY LossesKeepTheirPlace
CHECK_DEADLOCK FALSE
