SPECIFICATION Spec
CONSTANTS
  Thread = {t1, t2}
  Key <- MCKey
  HashRange = 4
  ClusterSize = 2
  ClusterCounts = {3}
  GenerationBits = 1
  Results <- MCResults
  MaxNesting = 2
  MaxSearches = 2
  MaxWork = 5
SYMMETRY Symmetry
INVARIANT DepthsWereSaved
INVARIANT OnlyRacesTear
INVARIANT AgesAreTrue
INVARIANT NothingSurvivesClear
CHECK_DEADLOCK FALSE
