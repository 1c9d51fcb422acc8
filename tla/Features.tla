------------------------------ MODULE Features ------------------------------
(***************************************************************************)
(* The inputs of the evaluation network that a board makes active: a       *)
(* feature for every piece, in the bucket and on the flank that the kings  *)
(* and the attacking pieces choose (half_ka_v2_hm), and a feature for      *)
(* every threat of a piece against another (full_threats); and the threats *)
(* that putting or removing a piece changes (position.cpp).                *)
(*                                                                         *)
(* An index is a tuple of what it is computed from.  A sum of weights is   *)
(* kept as what it sums: a function from indices to their multiplicities,  *)
(* without the zeroes.                                                     *)
(***************************************************************************)
EXTENDS Board, SequencesExt

NoSum == [i \in {} |-> 0]
Times(sum, i) == IF i \in DOMAIN sum THEN sum[i] ELSE 0

\* a plus n times each of the indices
Plus(a, indices, n) ==
  LET k(i) == Times(a, i) + (IF i \in indices THEN n ELSE 0)
  IN [i \in {j \in DOMAIN a \cup indices : k(j) # 0} |-> k(i)]

\* Each of the added indices once, each of the removed ones minus once
Difference(added, removed) ==
  [i \in SymDiff(added, removed) |-> IF i \in added THEN 1 ELSE -1]

\* a plus n times the sum b
PlusSum(a, b, n) ==
  LET k(i) == Times(a, i) + n * Times(b, i)
  IN [i \in {j \in DOMAIN a \cup DOMAIN b : k(j) # 0} |-> k(i)]

-----------------------------------------------------------------------------
(***************************************************************************)
(* half_ka_v2_hm: the bucket and the mirror.                               *)
(***************************************************************************)
\* KingBuckets: three rows of the palace, the middle file apart; a king on the
\* right flank is mirrored to the left.
KingBucket(s) ==
  2 * (IF Rank(s) <= 4 THEN Rank(s) ELSE 9 - Rank(s)) + (IF File(s) = 4 THEN 1 ELSE 0)

\* MidMirrorEncoding, summed over the pieces of c: how many more pieces of a type
\* stand on the left flank than on the right, and then how much farther they are
\* from the corner.  The fields of the 64 bits are wide enough for the pieces of a
\* game, so the number compares with BalanceEncoding as its fields do, in order.
Flank(s) == IF File(s) < 4 THEN 1 ELSE IF File(s) = 4 THEN 0 ELSE -1

Weight(c, s) ==
  10 * (3 - IF File(s) < 4 THEN File(s) ELSE 8 - File(s))
  + IF c = "white" THEN Rank(s) ELSE 9 - Rank(s)

FieldOrder == <<"advisor", "bishop", "pawn", "knight", "cannon", "rook">>

MidEncoding(b, c) ==
  LET total(i, value(_)) ==
        MapThenSumSet(value, Of(b, c) \cap OfType(b, {FieldOrder[i]}))
  IN [i \in 1 .. 12 |->
        IF i <= 6 THEN total(i, Flank)
        ELSE total(i - 6, LAMBDA s : Flank(s) * Weight(c, s))]

\* -1, 0, 1: below, at and above BalanceEncoding
Leaning(b, c) ==
  LET fields == MidEncoding(b, c)
      uneven == {i \in 1 .. 12 : fields[i] # 0}
  IN IF uneven = {} THEN 0 ELSE IF fields[Min(uneven)] < 0 THEN -1 ELSE 1

RequiresMidMirror(b, c) ==
  /\ \A d \in Color : File(KingSquare(b, d)) = 4
  /\ \/ Leaning(b, c) = -1
     \/ Leaning(b, c) = 0 /\ Leaning(b, Other(c)) = -1

Mirror(b, c) ==
  LET ksq == KingSquare(b, c)
      oksq == KingSquare(b, Other(c))
  IN \/ File(ksq) = 5
     \/ /\ File(ksq) = 4
        /\ File(oksq) = 5 \/ (File(oksq) = 4 /\ RequiresMidMirror(b, c))

Some(b, c, types) == Of(b, c) \cap OfType(b, types) # {}

MakeAttackBucket(b, c) ==
  (IF Some(b, c, {"rook"}) THEN 2 ELSE 0) + (IF Some(b, c, {"knight", "cannon"}) THEN 1 ELSE 0)

MakeFeatureBucket(b, c) ==
  [bucket |-> 4 * KingBucket(KingSquare(b, c)) + MakeAttackBucket(b, c), mirror |-> Mirror(b, c)]

-----------------------------------------------------------------------------
(***************************************************************************)
(* half_ka_v2_hm: the indices.                                             *)
(***************************************************************************)
IndexMap(mirror, rotate, s) ==
  At(IF mirror THEN 8 - File(s) ELSE File(s), IF rotate THEN 9 - Rank(s) ELSE Rank(s))

Relative(perspective, piece) ==
  IF perspective = "black" THEN <<Other(piece[1]), piece[2]>> ELSE piece

\* PSQOffsets: every piece on every square has an index, but an own king on the
\* right flank would share the first one.
MakeIndex(perspective, s, piece, fb) ==
  LET to == IndexMap(fb.mirror, perspective = "black", s)
      pc == Relative(perspective, piece)
  IN IF pc = <<"white", "king">> /\ File(to) = 5 THEN <<"psq", fb.bucket, 0, <<"white", "rook">>>>
     ELSE <<"psq", fb.bucket, to, pc>>

-----------------------------------------------------------------------------
(***************************************************************************)
(* full_threats.                                                           *)
(***************************************************************************)
\* ValidPairs: what a piece may threaten, of its own color and of the other.
ValidTargets(attacker, own) ==
  CASE attacker[2] \in {"rook", "cannon", "knight"} ->
         IF own THEN PieceType ELSE PieceType \ {"king"}
    [] attacker[2] = "advisor" ->
         {"rook", "cannon", "knight"}
           \cup (IF ~own THEN {"pawn"} ELSE {"advisor"} \cup IF attacker[1] = "black" THEN {"king"} ELSE {})
    [] attacker[2] = "pawn" ->
         {"cannon", "pawn", "knight", "bishop"} \cup IF own THEN {} ELSE {"advisor"}
    [] attacker[2] = "bishop" ->
         {"rook", "cannon", "pawn", "knight"} \cup IF own THEN {"bishop", "king"} ELSE {}
    [] attacker = <<"black", "king">> ->
         IF own THEN {"advisor", "cannon", "knight", "bishop"} ELSE {"cannon", "pawn", "knight"}
    [] OTHER -> {}

\* Two pieces that threaten each other count once.
Mutual(t) ==
  LET own == t.attacker[1] = t.attacked[1]
  IN /\ t.attacker[2] = t.attacked[2] /\ t.attacker[2] # "knight"
     /\ t.attacker[2] = "pawn" =>
          IF own THEN Rank(t.from) = Rank(t.to) ELSE File(t.from) = File(t.to)

\* make_index(): the threat as the perspective sees it.
ThreatSeen(perspective, mirror, t) ==
  [attacker |-> Relative(perspective, t.attacker), attacked |-> Relative(perspective, t.attacked),
   from |-> IndexMap(mirror, perspective = "black", t.from),
   to |-> IndexMap(mirror, perspective = "black", t.to)]

\* ThreatOffsets: is there an index for it?
HasIndex(t) ==
  /\ t.attacked[2] \in ValidTargets(t.attacker, t.attacker[1] = t.attacked[1])
  /\ Mutual(t) => t.from > t.to

\* The indices of a sum of threats, with their multiplicities.
ThreatIndices(perspective, mirror, threats) ==
  LET seen(t) == ThreatSeen(perspective, mirror, t)
  IN [i \in {<<"threat", seen(t)>> : t \in {u \in DOMAIN threats : HasIndex(seen(u))}} |->
        threats[CHOOSE t \in DOMAIN threats : seen(t) = i[2]]]

Threat(b, from, to) == [attacker |-> b[from], from |-> from, to |-> to, attacked |-> b[to]]

PieceAttacks(b, piece, s) ==
  IF piece[2] = "pawn" THEN PawnAttacks(piece[1], s) ELSE AttacksOf(piece[2], s, DOMAIN b)

\* append_active_indices()
ActiveThreats(b) ==
  LET active == UNION {{Threat(b, s, t) : t \in PieceAttacks(b, b[s], s) \cap DOMAIN b} : s \in DOMAIN b}
  IN [t \in active |-> 1]

-----------------------------------------------------------------------------
(***************************************************************************)
(* update_piece_threats(): piece pc is put on s of board b, or is about to *)
(* leave it.  The threats `with' come and go with the piece; the threats   *)
(* `across' s are there when it is not.                                    *)
(***************************************************************************)
UpdatePieceThreats(b, pc, s, computeRay) ==
  LET occupied == DOMAIN b
      around == Placed(b, pc, s)
      rAttacks == RookAttacks(s, occupied)
      cAttacks == CannonAttacks(s, occupied)
      kind(types) == OfType(b, types)
      threats(x, squares) == {Threat(b, x, t) : t \in squares \cap occupied}
      \* x sees s as its target, or has it as the first hurdle on its way
      onto == (rAttacks \cap kind({"rook"})) \cup (cAttacks \cap kind({"cannon"}))
      over == rAttacks \cap kind({"cannon"})
      incoming == onto \cup
        UNION {PawnAttacksTo(c, s) \cap kind({"pawn"}) \cap Of(b, c) : c \in Color}
        \cup (KnightAttacksTo(s, occupied) \cap kind({"knight"}))
        \cup (BishopAttacks(s, occupied) \cap kind({"bishop"}))
        \cup (AdvisorAttacks(s) \cap kind({"advisor"})) \cup (KingAttacks(s) \cap kind({"king"}))
      leapers == (KingSteps[s] \cap kind({"knight"})) \cup (AdvisorSteps[s] \cap kind({"bishop"}))
  IN [with |->
        {Threat(around, s, t) : t \in PieceAttacks(b, pc, s) \cap occupied}
        \cup {Threat(around, x, s) : x \in incoming \ {s}}
        \cup IF computeRay THEN UNION {threats(x, RayPassBB(x, s) \cap rAttacks) : x \in over} ELSE {},
      across |->
        IF ~computeRay THEN {}
        ELSE UNION {threats(x, RayPassBB(x, s) \cap rAttacks) : x \in onto}
             \cup UNION {threats(x, RayPassBB(x, s) \cap cAttacks) : x \in over}
             \cup UNION {threats(x, LeaperPassBB(x, s)) : x \in leapers}]

\* put_piece(), remove_piece(), move_piece() and swap_piece(), which collect
\* the threats: sums of DirtyThreat, +1 for one to add.
Collect(threats, u, sign) == Plus(Plus(threats, u.with, sign), u.across, -sign)

RemovePiece(d, s) ==
  [board |-> Removed(d.board, s),
   threats |-> Collect(d.threats, UpdatePieceThreats(d.board, d.board[s], s, TRUE), -1)]

PutPiece(d, pc, s) ==
  LET b == Placed(d.board, pc, s)
  IN [board |-> b, threats |-> Collect(d.threats, UpdatePieceThreats(b, pc, s, TRUE), 1)]

MovePiece(d, from, to) == PutPiece(RemovePiece(d, from), d.board[from], to)

\* The square stays occupied: no line opens or closes.
SwapPiece(d, s, pc) ==
  LET without == Removed(d.board, s)
      b == Placed(without, pc, s)
      left == Collect(d.threats, UpdatePieceThreats(without, d.board[s], s, FALSE), -1)
  IN [board |-> b, threats |-> Collect(left, UpdatePieceThreats(b, pc, s, FALSE), 1)]
=============================================================================
