------------------------- MODULE MCPositionHistory -------------------------
(***************************************************************************)
(* PositionHistory on a board of two pieces and a pawn: white's piece has  *)
(* five places, black's has three, and the pawn, black's as well, stands   *)
(* on white's place 2 until it is captured.  Checks and chases are placed  *)
(* so that there are cycles without either, with one side's checks, with   *)
(* both sides', with one side's chase and with both sides'.                *)
(***************************************************************************)
EXTENDS PositionHistory

MCBoard == [w : 0 .. 4, b : 0 .. 2, pawn : BOOLEAN]

At(b, squares) == <<b.w, b.b>> \in squares

MCStart == {<<[w |-> 3, b |-> 0, pawn |-> TRUE], "white", 0>>,
            <<[w |-> 2, b |-> 0, pawn |-> FALSE], "white", 0>>,
            <<[w |-> 0, b |-> 1, pawn |-> FALSE], "black", 3>>}

MCInCheck ==
  {k \in MCBoard \X Color :
     At(k[1], IF k[2] = "black" THEN {<<0, 0>>, <<1, 2>>, <<2, 1>>} ELSE {<<0, 2>>, <<1, 0>>, <<3, 1>>})}

Paths == {{0, 1}, {0, 2}, {0, 3}, {2, 3}, {3, 4}}

Moved(c, a, z) ==
  /\ IF c = "white" THEN {a.w, z.w} \in Paths /\ z.b = a.b ELSE z.b # a.b /\ z.w = a.w
  /\ <<z, c>> \notin MCInCheck

MCCapture ==
  {<<a, c, z>> \in MCBoard \X {"white"} \X MCBoard :
     Moved(c, a, z) /\ z.w = 2 /\ a.pawn /\ ~z.pawn}

MCQuiet ==
  {<<a, c, z>> \in MCBoard \X Color \X MCBoard :
     Moved(c, a, z) /\ a.pawn = z.pawn /\ (c = "white" /\ z.w = 2 => ~a.pawn)}

MCPiece == {"rook", "cannon"}

MCChased ==
  [k \in MCBoard \X Color |->
     IF k[2] = "white"
     THEN {p \in MCPiece : At(k[1], IF p = "rook" THEN {<<3, 0>>, <<2, 2>>} ELSE {<<2, 0>>, <<3, 2>>})}
     ELSE {p \in MCPiece : p = "rook" /\ At(k[1], {<<2, 2>>, <<3, 0>>})}]

\* Boards with and without the pawn share their slots.
MCSlot == [k \in MCBoard \X Color |-> <<k[1].w, k[1].b, k[2]>>]
=============================================================================
