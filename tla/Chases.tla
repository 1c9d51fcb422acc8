------------------------------- MODULE Chases -------------------------------
(***************************************************************************)
(* Which pieces a side chases: chased(), chase_legal() and the light       *)
(* do_move() and undo_move() of position.cpp, and rook_chased() of the     *)
(* builds with the rule of rooks.  The model of the game's history takes   *)
(* what is chased as a constant (see PositionHistory); this is what it is  *)
(* on a board.                                                             *)
(*                                                                         *)
(* The numbers that idBoard gives the pieces are left out: a piece that is *)
(* chased is named by its square.                                          *)
(***************************************************************************)
EXTENDS Board

\* A king must not step into an attack; the king of a piece that moves must not
\* be attacked then, but for what stood where the piece goes.
ChaseLegal(b, us, m) ==
  LET occupied == (DOMAIN b \ {m.from}) \cup {m.to}
  IN IF b[m.from][2] = "king" THEN CheckersTo(b, Other(us), m.to, occupied) = {}
     ELSE CheckersTo(b, Other(us), KingSquare(b, us), occupied) \ {m.to} = {}

\* What a piece of c on a square may chase: if it is pinned, the pieces that pin;
\* otherwise what is neither a king nor a pawn on its own half.
Targets(b, c, blockers, pinners, from) ==
  LET them == Of(b, Other(c))
      attacks == AttacksOf(b[from][2], from, DOMAIN b)
  IN attacks \cap IF from \in blockers THEN pinners \ OfType(b, {"king"})
                  ELSE (them \ OfType(b, {"king", "pawn"}))
                       \cup (them \cap OfType(b, {"pawn"}) \cap Half(c))

\* The side whose piece was captured can take back.
Recaptured(b, them, m) ==
  LET after == Moved(b, m.from, m.to)
  IN \E s \in AttackersTo(after, m.to, DOMAIN after) \cap Of(after, them) :
       ChaseLegal(after, them, [from |-> s, to |-> m.to])

\* Knights and cannons against rooks, advisors and bishops against the three.
AttacksStronger(type, victim) ==
  \/ type \in {"knight", "cannon"} /\ victim = "rook"
  \/ type \in {"advisor", "bishop"} /\ victim \in {"rook", "cannon", "knight"}

\* Mutant of CannotAnswer: a knight attacks every knight that attacks it.
CannotAnswerPinned(b, them, m) ==
  b[m.from][2] = b[m.to][2] => ~ChaseLegal(b, them, [from |-> m.to, to |-> m.from])

\* A piece that is attacked by one of its own type attacks it as well, unless it
\* is pinned or, for a knight, stopped.
CannotAnswer(b, them, m) ==
  b[m.from][2] = b[m.to][2] =>
    \/ b[m.from][2] = "knight" /\ (BetweenBB(m.from, m.to) \ {m.to}) \cap DOMAIN b # {}
    \/ ~ChaseLegal(b, them, [from |-> m.to, to |-> m.from])

\* chased()
Chased(b, c) ==
  LET them == Other(c)
      info == UpdateBlockers(b, c)
      chases(m) ==
        /\ ChaseLegal(b, c, m)
        /\ \/ AttacksStronger(b[m.from][2], b[m.to][2])
           \/ ~Recaptured(b, them, m) /\ CannotAnswer(b, them, m)
      targets(from) == Targets(b, c, info.blockersForKing, info.pinners, from)
  IN UNION {{to \in targets(from) : chases([from |-> from, to |-> to])} :
              from \in Of(b, c) \ OfType(b, {"king", "pawn"})}

\* rook_chased(): which rooks a rook chases.
RookChased(b, c) ==
  LET rooks(d) == Of(b, d) \cap OfType(b, {"rook"})
      victims(from) ==
        {to \in RookAttacks(from, DOMAIN b) \cap rooks(Other(c)) :
           LET m == [from |-> from, to |-> to]
           IN ChaseLegal(b, c, m) /\ ~Recaptured(b, Other(c), m)}
  IN [from \in rooks(c) |-> victims(from)]
=============================================================================
