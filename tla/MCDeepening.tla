------------------------------ MODULE MCDeepening ------------------------------
(* Three root moves in up to three lines; a loss may be longer or shorter.    *)
EXTENDS Deepening

CONSTANTS m1, m2, m3

MCMoves == <<m1, m2, m3>>
MCMatedIn2 == -3

Losses == {-3, -2, 0}
Mates == {-3, 2, 3}

\* All there is, and a window that -3 and -2 fall in and 0 exceeds.
Whole == {[average |-> 0, delta |-> 4]}
Narrow == {[average |-> -2, delta |-> 2]}

MCLimits ==
  {[main |-> TRUE, multiPV |-> 3, values |-> Losses, depth |-> 0, mate |-> 0, timed |-> FALSE,
    pondering |-> FALSE, windows |-> <<Whole, Whole>>],
   [main |-> TRUE, multiPV |-> 1, values |-> Mates, depth |-> 0, mate |-> 0, timed |-> TRUE,
    pondering |-> TRUE, windows |-> <<Whole, Narrow>>],
   [main |-> TRUE, multiPV |-> 2, values |-> Mates, depth |-> 1, mate |-> 3, timed |-> FALSE,
    pondering |-> FALSE, windows |-> <<Narrow, Narrow>>],
   [main |-> FALSE, multiPV |-> 2, values |-> Losses, depth |-> 1, mate |-> 3, timed |-> TRUE,
    pondering |-> FALSE, windows |-> <<Whole, Narrow>>]}
================================================================================
