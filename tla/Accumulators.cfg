CONSTANTS
  Roots <- MCRoots
  Later <- MCLater
  Explored <- MCExplored
  Nets = {master, trained}
  master = master
  trained = trained
SYMMETRY MCSymmetry
SPECIFICATION Spec
INVARIANTS AccumulatorsMatch StateIsRecomputed LegalMovesAreRight ChecksAreForeseen ExchangesAreRight ChasesAreRight
CHECK_DEADLOCK FALSE
