SPECIFICATION FairSpec
CONSTANTS
  MaxThreads = 3
  UI = UI
  NoJob = NoJob
  Limits <- InfiniteLimits
  Roots = {2}
  Commands <- PoolCommands
  Polite = TRUE
  Spurious = TRUE
INVARIANTS
  QuietWhenWritten
  CapturesLive
PROPERTIES
  KeepsThreadContract
  HandlersReturn
CHECK_DEADLOCK TRUE
