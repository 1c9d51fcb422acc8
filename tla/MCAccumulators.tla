--------------------------- MODULE MCAccumulators ---------------------------
(***************************************************************************)
(* Positions with few pieces, chosen so that kings cross the middle file,  *)
(* attacking pieces are taken, cannons stand hollow or behind hurdles, and *)
(* knights, advisors and bishops are stopped or stop each other.           *)
(***************************************************************************)
EXTENDS Accumulators

W(type) == <<"white", type>>
B(type) == <<"black", type>>

Put(pairs) == [s \in {p[1] : p \in pairs} |-> (CHOOSE p \in pairs : p[1] = s)[2]]

Root(side, bound, runs, pairs) ==
  [side |-> side, moves |-> bound, searches |-> runs, board |-> Put(pairs)]

\* Positions of which only the moves are looked at: two pieces a side.
WhitePieces ==
  {<<At(4, 5), W("cannon")>>, <<At(4, 2), W("cannon")>>, <<At(4, 6), W("rook")>>,
   <<At(3, 7), W("knight")>>, <<At(5, 8), W("pawn")>>, <<At(0, 9), W("rook")>>}
BlackPieces ==
  {<<At(4, 8), B("advisor")>>, <<At(4, 7), B("bishop")>>, <<At(4, 4), B("cannon")>>,
   <<At(4, 1), B("pawn")>>, <<At(3, 2), B("knight")>>, <<At(0, 0), B("cannon")>>, <<At(3, 3), B("rook")>>,
   <<At(4, 3), B("rook")>>}

Kings(w, b) == {<<w, W("king")>>, <<b, B("king")>>}

\* Three pieces a side that may join an exchange on one square, through a hurdle
\* or when a piece in their way is used up.
WhiteAttackers ==
  {<<At(4, 4), W("rook")>>, <<At(4, 3), W("cannon")>>, <<At(4, 2), W("cannon")>>,
   <<At(3, 5), W("pawn")>>, <<At(3, 3), W("knight")>>}
BlackAttackers ==
  {<<At(4, 7), B("rook")>>, <<At(4, 8), B("cannon")>>, <<At(8, 5), B("cannon")>>,
   <<At(6, 5), B("rook")>>, <<At(5, 7), B("knight")>>}

\* Two knights that attack each other, with pieces that stop or pin one of them.
Knights == {<<At(3, 1), W("knight")>>, <<At(2, 3), B("knight")>>}
Around ==
  {<<At(3, 2), W("advisor")>>, <<At(2, 2), W("cannon")>>, <<At(3, 5), B("rook")>>, <<At(0, 3), W("rook")>>}

MCBoards ==
  {r \in {Root(side, 0, 0, w \cup b \cup k) :
            side \in Color, w \in kSubset(2, WhitePieces), b \in kSubset(2, BlackPieces),
            k \in {Kings(At(4, 0), At(4, 9)), Kings(At(3, 0), At(4, 9))}}
         \cup {Root("white", 0, 0, w \cup b \cup Kings(At(3, 0), At(5, 9)) \cup {<<At(4, 5), B("pawn")>>}) :
                 w \in kSubset(3, WhiteAttackers), b \in kSubset(3, BlackAttackers)}
         \cup {Root(side, 0, 0, Knights \cup a \cup Kings(At(3, 0), At(5, 9))) : side \in Color, a \in SUBSET Around} :
     CheckersTo(r.board, r.side, KingSquare(r.board, Other(r.side)), DOMAIN r.board) = {}}

\* Positions that are searched.
Lines ==
  Kings(At(4, 0), At(4, 9)) \cup
  {<<At(4, 4), W("pawn")>>, <<At(5, 3), W("cannon")>>, <<At(3, 9), B("advisor")>>,
   <<At(4, 8), B("advisor")>>, <<At(5, 7), B("rook")>>}
Leaps ==
  Kings(At(4, 0), At(5, 9)) \cup
  {<<At(4, 2), W("bishop")>>, <<At(3, 1), W("knight")>>, <<At(2, 3), B("knight")>>,
   <<At(6, 3), W("rook")>>, <<At(3, 5), W("pawn")>>, <<At(2, 7), B("cannon")>>}
Hollow ==
  Kings(At(3, 0), At(4, 9)) \cup
  {<<At(4, 4), W("cannon")>>, <<At(2, 7), W("knight")>>, <<At(3, 2), B("knight")>>, <<At(3, 9), B("advisor")>>}

MCRoots ==
  MCBoards \cup {Root("white", 3, 1, Lines), Root("black", 2, 1, Leaps), Root("white", 1, 2, Lines),
                Root("white", 2, 1, Hollow)}
MCLater == {Root("white", 0, 0, Leaps)}

MCSymmetry == Permutations(Nets)

MCExplored == {At(3, 0), At(3, 3), At(4, 9), At(4, 8), At(2, 4), At(3, 1)}
=============================================================================
