SPECIFICATION Spec
CONSTANTS
  Machines <- MCMachines
  BundleSize = 2
  Policies <- MCPolicies
  NodeLists <- MCNodeLists
  Nets = {n1, n2}
  MaxThreads = 3
  ExportInSearch = FALSE
INVARIANTS
  ConfigIsSound
  Balanced
  HistoriesCleared
  ReferencesLive
  CopiesAgree
