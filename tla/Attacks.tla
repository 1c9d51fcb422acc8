------------------------------ MODULE Attacks ------------------------------
(***************************************************************************)
(* The board of nine files and ten ranks and what the pieces attack on it: *)
(* attacks.h and attacks.cpp.  A bitboard is a set of squares; the tables  *)
(* that the code fills at startup, magic numbers included, are functions,  *)
(* and what it computes by walking rays is stated by the squares between.  *)
(***************************************************************************)
EXTENDS Integers, FiniteSets

Squares == 0 .. 89   \* SQ_A0 .. SQ_I9
File(s) == s % 9
Rank(s) == s \div 9
At(f, r) == 9 * r + f

Color == {"white", "black"}
Other(c) == IF c = "white" THEN "black" ELSE "white"

PieceType == {"rook", "advisor", "cannon", "pawn", "knight", "bishop", "king"}

\* HalfBB, Palace, PawnBB: where the pieces of a color may stand.
Half(c) == {s \in Squares : (Rank(s) <= 4) = (c = "white")}
Palace == {s \in Squares : File(s) \in 3 .. 5 /\ Rank(s) \notin 3 .. 6}
PawnSquares(c) ==
  Half(Other(c)) \cup
  {s \in Squares : File(s) % 2 = 0 /\ Rank(s) \in IF c = "white" THEN {3, 4} ELSE {5, 6}}

-----------------------------------------------------------------------------
(***************************************************************************)
(* Steps.                                                                  *)
(***************************************************************************)
Magnitude(n) == IF n < 0 THEN -n ELSE n

\* The squares that lie by one of the offsets away from each square.
StepsBy(offsets) ==
  [s \in Squares |->
     {t \in Squares : <<Magnitude(File(t) - File(s)), Magnitude(Rank(t) - Rank(s))>> \in offsets}]

KingSteps == StepsBy({<<0, 1>>, <<1, 0>>})       \* PseudoAttacks[KING + 3]
AdvisorSteps == StepsBy({<<1, 1>>})              \* PseudoAttacks[ADVISOR + 1]
KnightSteps == StepsBy({<<1, 2>>, <<2, 1>>})
BishopSteps == LET far == StepsBy({<<2, 2>>}) IN
  [s \in Squares |-> far[s] \cap Half(IF Rank(s) <= 4 THEN "white" ELSE "black")]

\* lame_leaper_path(): the square that a piece which leaps from s to t must
\* find empty.
LeaperPath(s, t) ==
  LET halfway(d) == IF d = 2 THEN 1 ELSE IF d = -2 THEN -1 ELSE 0
  IN At(File(s) + halfway(File(t) - File(s)), Rank(s) + halfway(Rank(t) - Rank(s)))

-----------------------------------------------------------------------------
(***************************************************************************)
(* Lines.                                                                  *)
(***************************************************************************)
RookLine == [s \in Squares |-> {t \in Squares \ {s} : File(s) = File(t) \/ Rank(s) = Rank(t)}]

\* Inside[s][t]: the squares between two squares of a line
Inside ==
  LET strictly(a, x, b) == (a < x /\ x < b) \/ (b < x /\ x < a)
  IN [s \in Squares |-> [t \in RookLine[s] |->
        {x \in RookLine[s] : IF File(s) = File(t)
                             THEN File(x) = File(s) /\ strictly(Rank(s), Rank(x), Rank(t))
                             ELSE Rank(x) = Rank(s) /\ strictly(File(s), File(x), File(t))}]]

\* RayPassBB[s][t]: the squares behind t, as seen from s on the same line
RayPass == [s \in Squares |-> [t \in RookLine[s] |-> {x \in RookLine[s] : t \in Inside[s][x]}]]

\* A rook goes up to the first piece of every ray, a cannon beyond it, as far as
\* a rook on its place would.
RookAttacks(s, occupied) == RookLine[s] \ UNION {RayPass[s][x] : x \in RookLine[s] \cap occupied}
CannonAttacks(s, occupied) ==
  UNION {RayPass[s][x] \cap RookAttacks(x, occupied) : x \in RookAttacks(s, occupied) \cap occupied}

KnightAttacks(s, occupied) == {t \in KnightSteps[s] : LeaperPath(s, t) \notin occupied}
KnightAttacksTo(s, occupied) == {t \in KnightSteps[s] : LeaperPath(t, s) \notin occupied}
BishopAttacks(s, occupied) == {t \in BishopSteps[s] : LeaperPath(s, t) \notin occupied}

InPalace(steps, s) == IF s \in Palace THEN steps[s] \cap Palace ELSE {}
KingAttacks(s) == InPalace(KingSteps, s)
AdvisorAttacks(s) == InPalace(AdvisorSteps, s)

Forward(c) == IF c = "white" THEN 1 ELSE -1
Crossed(c, s) == IF c = "white" THEN Rank(s) > 4 ELSE Rank(s) < 5

\* A pawn that has crossed the river goes sideways as well.
PawnReach(c, s, d) ==
  {t \in KingSteps[s] :
     \/ File(t) = File(s) /\ Rank(t) = Rank(s) + d
     \/ Rank(t) = Rank(s) /\ Crossed(c, s)}
PawnAttacks(c, s) == PawnReach(c, s, Forward(c))
PawnAttacksTo(c, s) == PawnReach(c, s, -Forward(c))

AttacksOf(type, s, occupied) ==
  CASE type = "rook" -> RookAttacks(s, occupied)
    [] type = "cannon" -> CannonAttacks(s, occupied)
    [] type = "knight" -> KnightAttacks(s, occupied)
    [] type = "bishop" -> BishopAttacks(s, occupied)
    [] type = "advisor" -> AdvisorAttacks(s)
    [] type = "king" -> KingAttacks(s)

-----------------------------------------------------------------------------
(***************************************************************************)
(* The tables of pairs.                                                    *)
(***************************************************************************)
\* Empty unless the squares share a line; the whole line if they do.
LineBB(s, t) ==
  IF t \in RookLine[s] THEN (RookLine[s] \cap RookLine[t]) \cup {s, t} ELSE {}

Aligned(s, t, x) == x \in LineBB(s, t)

\* What must be entered or emptied to stop a rook or a knight on t that attacks s.
BetweenBB(s, t) ==
  {t} \cup (IF t \in RookLine[s] THEN Inside[s][t]
            ELSE IF t \in KnightSteps[s] THEN {LeaperPath(t, s)} ELSE {})

RayPassBB(s, t) == IF t \in RookLine[s] THEN RayPass[s][t] ELSE {}

\* What a knight or a bishop on s reaches across t.
LeaperPassBB(s, t) ==
  IF t \in KingSteps[s] THEN KnightSteps[s] \cap AdvisorSteps[t]
  ELSE IF t \in AdvisorSteps[s] THEN BishopSteps[s] \cap AdvisorSteps[t] ELSE {}
=============================================================================
