SPECIFICATION FairSpec
CONSTANTS
  MaxThreads = 2
  UI = UI
  NoJob = NoJob
  Limits <- AllLimits
  Roots = {0, 1, 2}
  Commands <- SearchCommands
  Polite = TRUE
  Spurious = FALSE
INVARIANTS
  SameSearch
  VoteReadsFinishedHelpers
PROPERTIES
  KeepsProtocol
  AnswersGui
CHECK_DEADLOCK TRUE
