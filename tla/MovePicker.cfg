SPECIFICATION PickerSpec
CONSTANTS
  c1 = c1
  c2 = c2
  c3 = c3
  q1 = q1
  q2 = q2
  q3 = q3
  NoMove = NoMove
  Captures <- MCCaptures
  Quiets <- MCQuiets
  CaptureScores <- MCCaptureScores
  QuietScores <- MCQuietScores
  Depths <- MCDepths
INVARIANTS GivesAllInOrder
CHECK_DEADLOCK FALSE
