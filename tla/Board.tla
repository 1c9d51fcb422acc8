------------------------------- MODULE Board -------------------------------
(***************************************************************************)
(* What a position knows of its moves: who attacks what, which moves are   *)
(* generated, which are legal, which give check and what an exchange is    *)
(* worth (position.cpp, movegen.cpp).                                      *)
(*                                                                         *)
(* A board is a function from the occupied squares to pieces, a piece a    *)
(* pair of color and type.  A position p is a record with the board, the   *)
(* side to move and the checkers, which do_move() keeps.  What             *)
(* set_check_info() computes anew after every move is an operator of p.    *)
(***************************************************************************)
EXTENDS Attacks, FiniteSetsExt

Piece == Color \X PieceType

NoType == "none"
TypeOn(b, s) == IF s \in DOMAIN b THEN b[s][2] ELSE NoType
Of(b, c) == {s \in DOMAIN b : b[s][1] = c}
OfType(b, types) == {s \in DOMAIN b : b[s][2] \in types}
Among(b, squares, types) == {s \in squares \cap DOMAIN b : b[s][2] \in types}
KingSquare(b, c) == CHOOSE s \in DOMAIN b : b[s] = <<c, "king">>

Removed(b, s) == [t \in DOMAIN b \ {s} |-> b[t]]
Placed(b, piece, s) == [t \in DOMAIN b \cup {s} |-> IF t = s THEN piece ELSE b[t]]
Moved(b, from, to) == Placed(Removed(b, from), b[from], to)

Move == [from : Squares, to : Squares]
IsCapture(p, m) == m.to \in DOMAIN p.board

-----------------------------------------------------------------------------
(***************************************************************************)
(* Attacks on a square.                                                    *)
(***************************************************************************)
AttackersTo(b, s, occupied) ==
  UNION {Among(b, PawnAttacksTo(c, s), {"pawn"}) \cap Of(b, c) : c \in Color}
  \cup Among(b, KnightAttacksTo(s, occupied), {"knight"})
  \cup Among(b, RookAttacks(s, occupied), {"rook"})
  \cup Among(b, CannonAttacks(s, occupied), {"cannon"})
  \cup Among(b, BishopAttacks(s, occupied), {"bishop"})
  \cup Among(b, AdvisorAttacks(s), {"advisor"})
  \cup Among(b, KingAttacks(s), {"king"})

\* The kings face each other like rooks.
CheckersTo(b, c, s, occupied) ==
  {x \in Among(b, PawnAttacksTo(c, s), {"pawn"})
         \cup Among(b, KnightAttacksTo(s, occupied), {"knight"})
         \cup Among(b, RookAttacks(s, occupied), {"king", "rook"})
         \cup Among(b, CannonAttacks(s, occupied), {"cannon"}) : b[x][1] = c}

\* update_blockers(): the pieces that keep the king of c from being in check,
\* and the pieces of the other side that pin one of c with it.
UpdateBlockers(b, c) ==
  LET ksq == KingSquare(b, c)
      snipers == Of(b, Other(c)) \cap
                 (Among(b, RookLine[ksq], {"rook", "cannon", "king"})
                  \cup Among(b, KnightSteps[ksq], {"knight"}))
      cannons == OfType(b, {"cannon"})
      occupancy == DOMAIN b \ (snipers \ cannons)
      inWay(s) == BetweenBB(ksq, s) \cap (IF s \in cannons THEN DOMAIN b \ {s} ELSE occupancy)
      block(s) == IF Cardinality(inWay(s)) = (IF s \in cannons THEN 2 ELSE 1) THEN inWay(s) ELSE {}
  IN [blockersForKing |-> UNION {block(s) : s \in snipers},
      pinners |-> {s \in snipers : block(s) \cap Of(b, c) # {}}]

BlockersForKing(b, c) == UpdateBlockers(b, c).blockersForKing

-----------------------------------------------------------------------------
(***************************************************************************)
(* set_check_info(), legal() and gives_check().                            *)
(***************************************************************************)
NeedFullCheck(p) ==
  \/ p.checkers # {}
  \/ Among(p.board, RookLine[KingSquare(p.board, p.side)], {"cannon"}) \cap Of(p.board, Other(p.side)) # {}

\* Mutant of CheckSquares: a hollow cannon is forgotten.
CheckSquaresDirect(p, type) ==
  LET ksq == KingSquare(p.board, Other(p.side))
      occupied == DOMAIN p.board
  IN CASE type = "pawn" -> PawnAttacksTo(p.side, ksq)
       [] type = "knight" -> KnightAttacksTo(ksq, occupied)
       [] type = "cannon" -> CannonAttacks(ksq, occupied)
       [] type = "rook" -> RookAttacks(ksq, occupied)
       [] OTHER -> {}

\* Where a piece of the type would give check.  A cannon with nothing between
\* itself and the king makes every piece that steps between give one.
CheckSquares(p, type) ==
  LET b == p.board
      ksq == KingSquare(b, Other(p.side))
      occupied == DOMAIN b
      hollow == Among(b, RookAttacks(ksq, occupied), {"cannon"}) \cap Of(b, p.side)
      direct == CASE type = "pawn" -> PawnAttacksTo(p.side, ksq)
                  [] type = "knight" -> KnightAttacksTo(ksq, occupied)
                  [] type = "cannon" -> CannonAttacks(ksq, occupied)
                  [] type = "rook" -> RookAttacks(ksq, occupied)
                  [] OTHER -> {}
  IN direct \cup (IF type = "king" THEN {} ELSE UNION {BetweenBB(s, ksq) : s \in hollow})

Legal(p, m) ==
  LET b == p.board
      ksq == KingSquare(b, p.side)
      occupied == (DOMAIN b \ {m.from}) \cup {m.to}
      staysOnLine == /\ Aligned(m.from, m.to, ksq)
                     /\ ~(TypeOn(b, m.from) = "cannon" /\ IsCapture(p, m))
  IN IF m.from = ksq THEN CheckersTo(b, Other(p.side), m.to, occupied) = {}
     ELSE \/ /\ ~NeedFullCheck(p)
             /\ m.from \in BlockersForKing(b, p.side) => staysOnLine
          \/ CheckersTo(b, Other(p.side), ksq, occupied) \ {m.to} = {}

GivesCheck(p, m) ==
  LET b == p.board
      ksq == KingSquare(b, Other(p.side))
      type == TypeOn(b, m.from)
      onLine == Aligned(m.from, m.to, ksq)
      direct == IF type = "cannon" /\ m.from \in CheckSquares(p, "rook") /\ onLine
                THEN IsCapture(p, m) /\ m.to \in RayPassBB(ksq, m.from)
                ELSE m.to \in CheckSquares(p, type)
      discovered == /\ m.from \in BlockersForKing(b, Other(p.side))
                    /\ ~onLine \/ IsCapture(p, m)
  IN direct \/ discovered

-----------------------------------------------------------------------------
(***************************************************************************)
(* movegen.cpp: the lists of moves, as sets.                               *)
(***************************************************************************)
MovesTo(from, squares) == {[from |-> from, to |-> t] : t \in squares}

\* generate_moves(): the moves of every piece of us but the king.  A cannon
\* captures in its own way.
GenerateMoves(p, type, target) ==
  LET b == p.board
      us == p.side
      occupied == DOMAIN b
      reach(s) ==
        CASE b[s][2] = "pawn" -> PawnAttacks(us, s) \cap target
          [] b[s][2] = "cannon" ->
               ((IF type # "quiets" THEN CannonAttacks(s, occupied) \cap Of(b, Other(us)) ELSE {})
                \cup (IF type # "captures" THEN RookAttacks(s, occupied) \ occupied ELSE {}))
               \cap (IF type = "evasions" THEN target ELSE Squares)
          [] OTHER -> AttacksOf(b[s][2], s, occupied) \cap target
  IN UNION {MovesTo(s, reach(s)) : s \in Of(b, us) \ {KingSquare(b, us)}}

GenerateAll(p, type) ==
  LET b == p.board
      us == p.side
      ksq == KingSquare(b, us)
      target == CASE type = "pseudo_legal" -> Squares \ Of(b, us)
                  [] type = "captures" -> Of(b, Other(us))
                  [] type = "quiets" -> Squares \ DOMAIN b
  IN GenerateMoves(p, type, target) \cup MovesTo(ksq, KingAttacks(ksq) \cap target)

\* Mutant of HurdleMoves: a cannon that is the hurdle does not capture.
HurdleMovesQuiet(p, ksq, checksq) ==
  LET b == p.board
      us == p.side
      off(s) == IF b[s][2] = "pawn" THEN PawnAttacks(us, s) \ LineBB(checksq, s)
                ELSE IF b[s][2] = "cannon" THEN (RookAttacks(s, DOMAIN b) \ LineBB(checksq, s)) \ DOMAIN b
                ELSE AttacksOf(b[s][2], s, DOMAIN b) \ LineBB(checksq, s)
  IN UNION {MovesTo(s, off(s) \ Of(b, us)) : s \in BetweenBB(ksq, checksq) \cap Of(b, us)}

\* The piece over which a cannon gives check steps out of the line.
HurdleMoves(p, ksq, checksq) ==
  LET b == p.board
      us == p.side
      occupied == DOMAIN b
      line(s) == LineBB(checksq, s)
      off(s) == CASE b[s][2] = "pawn" -> PawnAttacks(us, s) \ line(s)
                  [] b[s][2] = "cannon" -> (RookAttacks(s, occupied) \ (line(s) \cup occupied))
                                           \cup (CannonAttacks(s, occupied) \cap Of(b, Other(us)))
                  [] OTHER -> AttacksOf(b[s][2], s, occupied) \ line(s)
  IN UNION {MovesTo(s, off(s) \ Of(b, us)) : s \in BetweenBB(ksq, checksq) \cap Of(b, us)}

\* The parts of generate<EVASIONS> when there is one checker, in their order.
EvasionParts(p) ==
  LET b == p.board
      us == p.side
      ksq == KingSquare(b, us)
      checksq == CHOOSE s \in p.checkers : TRUE
      type == b[checksq][2]
      lineOf == IF type \in {"rook", "cannon"} THEN LineBB(checksq, ksq) ELSE {}
  IN << GenerateMoves(p, "evasions", BetweenBB(ksq, checksq) \ Of(b, us)),
        MovesTo(ksq, (KingAttacks(ksq) \ Of(b, us)) \ (lineOf \ Of(b, Other(us)))),
        IF type = "cannon" THEN HurdleMoves(p, ksq, checksq) ELSE {} >>

Evasions(p) ==
  IF Cardinality(p.checkers) > 1 THEN GenerateAll(p, "pseudo_legal")
  ELSE UNION {EvasionParts(p)[i] : i \in 1 .. 3}

\* generate<LEGAL>
LegalMoves(p) ==
  {m \in IF p.checkers # {} THEN Evasions(p) ELSE GenerateAll(p, "pseudo_legal") : Legal(p, m)}

\* Is a move that was found somewhere a move of this position?
PseudoLegal(p, m) ==
  LET b == p.board
      us == p.side
      occupied == DOMAIN b
      type == TypeOn(b, m.from)
  IN /\ m.from \in Of(b, us) /\ m.to \notin Of(b, us)
     /\ m.to \in CASE type = "pawn" -> PawnAttacks(us, m.from)
                   [] type = "cannon" /\ ~IsCapture(p, m) -> RookAttacks(m.from, occupied)
                   [] OTHER -> AttacksOf(type, m.from, occupied)
     /\ p.checkers # {} => m \in Evasions(p)

-----------------------------------------------------------------------------
(***************************************************************************)
(* see_ge(): does the exchange on the square of a move win at least the    *)
(* threshold?  The sides capture in turn with their least valuable piece;  *)
(* s.swap is what is at stake and s.res who is ahead.                      *)
(***************************************************************************)
PieceValue ==
  [rook |-> 1305, advisor |-> 219, cannon |-> 773, pawn |-> 144, knight |-> 720,
   bishop |-> 187, king |-> 0, none |-> 0]

\* The order in which the pieces are used up.
ByValue == <<"pawn", "bishop", "advisor", "cannon", "knight", "rook">>

\* Mutant of Uncovered: no cannon gains a hurdle or loses one.
UncoveredRooks(b, to, s, type, facing) ==
  LET opened == CASE type \in {"pawn", "rook"} ->
                       Among(b, RookAttacks(to, s.occupied), IF facing THEN {"king", "rook"} ELSE {"rook"})
                  [] type = "advisor" -> Among(b, KnightAttacksTo(to, s.occupied), {"knight"})
                  [] OTHER -> {}
  IN [s EXCEPT !.attackers = @ \cup opened]

\* What may attack now that a piece of the type was taken off: rooks behind a
\* pawn or a rook, knights behind an advisor, and other cannons.
Uncovered(b, to, s, type, facing) ==
  LET cannons == OfType(b, {"cannon"})
      nonCannons == (s.attackers \ cannons) \cup
                    CASE type \in {"pawn", "rook"} ->
                           Among(b, RookAttacks(to, s.occupied), IF facing THEN {"king", "rook"} ELSE {"rook"})
                      [] type = "advisor" -> Among(b, KnightAttacksTo(to, s.occupied), {"knight"})
                      [] OTHER -> {}
  IN [s EXCEPT !.attackers =
        nonCannons \cup IF type \in {"pawn", "cannon", "rook"}
                        THEN CannonAttacks(to, s.occupied) \cap cannons
                        ELSE @ \cap cannons]

\* pins[c]: the blockers of c, and the pieces of the other side that pin some of them.
Pins(b) == [c \in Color |-> UpdateBlockers(b, c)]

\* The pieces with which a side may go on: while a piece that pins some of them
\* stands, those stay where they are.
MayCapture(b, pins, attackers, occupied, stm) ==
  LET mine == attackers \cap Of(b, stm)
  IN IF pins[stm].pinners \cap occupied # {} THEN mine \ pins[stm].blockersForKing ELSE mine

RECURSIVE Exchange(_, _, _, _, _, _)
Exchange(b, pins, to, s, stm, facing) ==
  LET attackers == s.attackers \cap s.occupied
      mine == MayCapture(b, pins, attackers, s.occupied, stm)
      res == 1 - s.res
      types == {i \in 1 .. 6 : \E x \in mine : b[x][2] = ByValue[i]}
      type == ByValue[Min(types)]
      swap == PieceValue[type] - s.swap
      used == Min(Among(b, mine, {type}))
      next == [swap |-> swap, res |-> res, attackers |-> attackers, occupied |-> s.occupied \ {used}]
  IN IF mine = {} THEN s.res = 1
     ELSE IF types = {} THEN (IF attackers \ Of(b, stm) # {} THEN 1 - res ELSE res) = 1
     ELSE IF swap < res /\ type # "rook" THEN res = 1
     ELSE Exchange(b, pins, to, Uncovered(b, to, next, type, facing), Other(stm), facing)

SeeGe(p, m, threshold) ==
  LET b == p.board
      gain == PieceValue[TypeOn(b, m.to)] - threshold
      swap == PieceValue[TypeOn(b, m.from)] - gain
      occupied == DOMAIN b \ {m.from, m.to}
      direct == AttackersTo(b, m.to, occupied)
      facing == direct \cap OfType(b, {"king"}) # {}
      attackers == IF facing THEN direct \cup (RookAttacks(m.to, occupied) \cap OfType(b, {"king"}))
                   ELSE direct
  IN /\ gain >= 0
     /\ \/ swap <= 0
        \/ Exchange(b, Pins(b), m.to, [swap |-> swap, res |-> 1, attackers |-> attackers, occupied |-> occupied],
                    Other(p.side), facing)
=============================================================================
