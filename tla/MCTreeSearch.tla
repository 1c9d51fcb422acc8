----------------------------- MODULE MCTreeSearch -----------------------------
(* Three plies; two moves where the bounds of the moves after the first are to be seen. *)
EXTENDS TreeSearch

MCMaxMoves == [p \in 0 .. MAX_PLY |-> IF p \in {0, 2} THEN 2 ELSE 1]
=============================================================================
