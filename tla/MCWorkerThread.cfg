SPECIFICATION FairSpec
CONSTANTS
  main = main
  helper = helper
  ui = ui
  NoJob = NoJob
  Thread <- MCThread
  Client <- MCClient
  Job = {"clear", "search"}
INVARIANTS
  NoLostWakeup
PROPERTIES
  PostedJobIsTaken
  CallsReturn
CHECK_DEADLOCK TRUE
