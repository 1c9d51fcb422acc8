------------------------- MODULE MCTranspositionTable -------------------------
(***************************************************************************)
(* Two threads, two positions that share the last cluster of the table, and *)
(* results that take every way through save().                             *)
(***************************************************************************)
EXTENDS TranspositionTable, TLC

\* Position 0 has the key of an entry set to zero.
MCKey == {[lo |-> 0, hi |-> 3], [lo |-> 1, hi |-> 3]}

\* A static evaluation, a mate found deep, an exact score of a pv node, and
\* a good capture of the quiescence search.
MCResults == {
  [depth |-> -2, pv |-> FALSE, bound |-> 0, move |-> FALSE, value |-> "none"],
  [depth |-> 6, pv |-> FALSE, bound |-> 2, move |-> TRUE, value |-> "decisive"],
  [depth |-> 1, pv |-> TRUE, bound |-> 3, move |-> TRUE, value |-> "even"],
  [depth |-> 0, pv |-> FALSE, bound |-> 2, move |-> TRUE, value |-> "even"]}

Symmetry == Permutations(Thread)

=============================================================================
