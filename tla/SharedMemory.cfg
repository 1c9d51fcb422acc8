SPECIFICATION SharedFairSpec
CONSTANTS
  e1 = e1
  e2 = e2
  Nobody = Nobody
  Platforms <- MCPlatforms
  Processes <- MCProcesses
  MaxObjects = 2
  MaxMems = 3
  MaxFaults = 1
INVARIANTS OneMemory
PROPERTIES KeepsPromise OpensReturn
CHECK_DEADLOCK FALSE
