---------------------------- MODULE Accumulators ----------------------------
(***************************************************************************)
(* How a worker evaluates the positions of its search: do_move() and       *)
(* undo_move() with the keys, the material and the checkers that they      *)
(* keep (position.cpp), and the stack of accumulators and the cache of     *)
(* refreshed ones that follow them (nnue_accumulator.cpp).                 *)
(*                                                                         *)
(* The board, the pieces and the moves are the real ones, see Board, and   *)
(* the sums of weights are kept as what they sum, see Features.            *)
(***************************************************************************)
EXTENDS Features, Chases, TLC

CONSTANTS
  Roots,        \* the positions to begin with, [board, side, moves, searches],
                \* with bounds on the searches and on all their moves
  Later,        \* the positions that are set up after a search
  Explored,     \* the squares to which the search moves
  Nets          \* the evaluation networks that may be loaded

ASSUME AccumulatorsAssumption ==
  /\ \A r \in Roots \cup Later :
       /\ DOMAIN r.board \subseteq Squares /\ r.side \in Color
       /\ \A c \in Color : Cardinality({s \in DOMAIN r.board : r.board[s] = <<c, "king">>}) = 1
       /\ CheckersTo(r.board, r.side, KingSquare(r.board, Other(r.side)), DOMAIN r.board) = {}
       /\ r.moves \in Nat /\ r.searches \in Nat
  /\ Explored \subseteq Squares /\ Nets # {}

VARIABLES
  board, sideToMove,
  states,        \* the chain of StateInfo, the current one last
  accumulators, size,   \* AccumulatorStack
  cache,         \* AccumulatorCaches: the entries that are not as cleared
  net,           \* the network of the worker
  searching,     \* a search is running
  boards,        \* the boards since the root, a history variable
  left, searches   \* the moves and the searches that are left

vars == <<board, sideToMove, states, accumulators, size, cache, net, searching, boards, left, searches>>
stack == <<accumulators, size, cache>>
counts == <<left, searches>>

st == states[Len(states)]
pos == [board |-> board, side |-> sideToMove, checkers |-> st.checkers]

-----------------------------------------------------------------------------
(***************************************************************************)
(* The state of a position: set_state(), do_move(), undo_move().  A key is *)
(* the set of what was xored into it.  The move of a state is the one that *)
(* the search made, also when do_null_move() leaves st->move as it was.    *)
(***************************************************************************)
Side == {<<"side">>}
Psq(piece, s) == {<<piece, s>>}

Major == {"rook", "cannon", "knight"}
Minor == {"cannon", "knight"}

\* set_state()
SetState(b, side, move, captured) ==
  LET keyOf(squares) == {<<b[s], s>> : s \in squares}
      value(s) == PieceValue[b[s][2]]
  IN [key |-> keyOf(DOMAIN b) \cup IF side = "black" THEN Side ELSE {},
      pawnKey |-> keyOf(OfType(b, {"pawn"})),
      minorPieceKey |-> keyOf(OfType(b, Minor)),
      nonPawnKey |-> [c \in Color |-> keyOf(Of(b, c) \ OfType(b, {"pawn"}))],
      majorMaterial |-> [c \in Color |-> MapThenSumSet(value, Of(b, c) \cap OfType(b, Major))],
      checkers |-> CheckersTo(b, Other(side), KingSquare(b, side), DOMAIN b),
      move |-> move, captured |-> captured]

\* What do_move() makes of the state: a capture takes the piece out of the keys
\* and of the material, and the piece that moves changes its square.
NextState(m, givesCheck) ==
  LET us == sideToMove
      them == Other(us)
      pc == board[m.from]
      taken == IsCapture(pos, m)
      captured == board[m.to]
      out(types) == IF taken /\ captured[2] \in types THEN Psq(captured, m.to) ELSE {}
      way(types) == IF pc[2] \in types THEN Psq(pc, m.from) \cup Psq(pc, m.to) ELSE {}
      flip(k, types) == SymDiff(SymDiff(k, out(types)), way(types))
      noPawns == PieceType \ {"pawn"}
  IN [key |-> SymDiff(flip(st.key, PieceType), Side),
      pawnKey |-> flip(st.pawnKey, {"pawn"}),
      minorPieceKey |-> flip(st.minorPieceKey, Minor),
      nonPawnKey |-> [c \in Color |-> SymDiff(st.nonPawnKey[c], IF c = us THEN way(noPawns) ELSE out(noPawns))],
      majorMaterial |-> [st.majorMaterial EXCEPT ![them] =
                           @ - IF taken /\ captured[2] \in Major THEN PieceValue[captured[2]] ELSE 0],
      checkers |-> IF givesCheck
                   THEN LET b == Moved(board, m.from, m.to)
                        IN CheckersTo(b, us, KingSquare(b, them), DOMAIN b)
                   ELSE {},
      move |-> m, captured |-> IF taken THEN captured ELSE <<>>]

\* The pieces on their new squares, and the threats that changed on the way.
Dirtied(m) ==
  LET start == [board |-> board, threats |-> NoSum]
  IN IF IsCapture(pos, m) THEN SwapPiece(RemovePiece(start, m.from), m.to, board[m.from])
     ELSE MovePiece(start, m.from, m.to)

\* Mutant of RequiresRefresh: the opponent's bucket is forgotten.
RefreshOfMover(m, b) ==
  LET us == sideToMove
      turned(c) == Mirror(board, c) # Mirror(b, c)
  IN [c \in Color |-> turned(c) \/ (c = us /\ board[m.from][2] = "king")]

\* The perspectives whose features all change: the king that moves, a flank
\* that is mirrored, the attacking pieces that are taken.
RequiresRefresh(m, b) ==
  LET us == sideToMove
      turned(c) == Mirror(board, c) # Mirror(b, c)
  IN [c \in Color |->
        \/ turned(c)
        \/ c = us /\ board[m.from][2] = "king"
        \/ c # us /\ IsCapture(pos, m) /\ MakeAttackBucket(board, c) # MakeAttackBucket(b, c)]

-----------------------------------------------------------------------------
(***************************************************************************)
(* The stack: reset(), push(), pop().                                      *)
(***************************************************************************)
NoPiece == [from |-> -1]   \* a DirtyPiece that was never set

Empty == [acc |-> [c \in Color |-> NoSum], computed |-> [c \in Color |-> FALSE],
          dirtyPiece |-> NoPiece, dirtyThreats |-> NoSum]

Reset ==
  /\ accumulators' = [accumulators EXCEPT ![0].dirtyPiece = NoPiece, ![0].dirtyThreats = NoSum,
                                          ![0].computed = [c \in Color |-> FALSE]]
  /\ size' = 1

\* push(), and what do_move() writes into the new entry.
Push(dirtyPiece, dirtyThreats) ==
  /\ accumulators' = [accumulators EXCEPT ![size].computed = [c \in Color |-> FALSE],
                                          ![size].dirtyPiece = dirtyPiece,
                                          ![size].dirtyThreats = dirtyThreats]
  /\ size' = size + 1

Pop ==
  /\ size' = size - 1
  /\ UNCHANGED accumulators

-----------------------------------------------------------------------------
(***************************************************************************)
(* evaluate(): find a base, and update from it forward, or refresh the     *)
(* latest entry and update backward.                                       *)
(***************************************************************************)
\* find_last_usable_accumulator(): the last entry that is computed or is the
\* first one after a change that requires a refresh.
FindLastUsable(c) ==
  LET usable == {i \in 1 .. size - 1 :
                   accumulators[i].computed[c] \/ accumulators[i].dirtyPiece.requiresRefresh[c]}
  IN IF usable = {} THEN 0 ELSE Max(usable)

\* The indices that a dirty piece removes and adds, as a sum.
ChangedIndices(c, fb, dp) ==
  Difference({MakeIndex(c, dp.to, dp.pc, fb)},
             {MakeIndex(c, dp.from, dp.pc, fb)}
               \cup IF dp.removePc = <<>> THEN {} ELSE {MakeIndex(c, dp.to, dp.removePc, fb)})

Weights(sum) == [w \in {<<net, i>> : i \in DOMAIN sum} |-> sum[w[2]]]

\* apply_combined(): the weights of the indices are added n times.
ApplyCombined(sum, indices, n) == PlusSum(sum, Weights(indices), n)

\* update_accumulator_incremental(): the sum of entry `to' from its neighbour's.
UpdateIncremental(sum, c, fb, to, from) ==
  LET change == accumulators[IF to > from THEN to ELSE from]
      indices == PlusSum(ChangedIndices(c, fb, change.dirtyPiece),
                         ThreatIndices(c, fb.mirror, change.dirtyThreats), 1)
  IN ApplyCombined(sum, indices, IF to > from THEN 1 ELSE -1)

\* forward_update_incremental(): the sums of the entries after a computed one.
ForwardFrom(c, fb, first) ==
  LET sum[i \in first .. size - 1] ==
        IF i = first THEN accumulators[first].acc[c] ELSE UpdateIncremental(sum[i - 1], c, fb, i, i - 1)
  IN sum

\* backward_update_incremental(): the sums of the entries before a refreshed one.
BackwardTo(c, fb, end, latest) ==
  LET sum[i \in end .. size - 1] ==
        IF i = size - 1 THEN latest ELSE UpdateIncremental(sum[i + 1], c, fb, i, i + 1)
  IN sum

\* KingCacheMaps: on the middle file the mirrored king has entries of its own.
CacheIndex(b, c) ==
  LET ksq == KingSquare(b, c)
      row == IF Rank(ksq) <= 4 THEN Rank(ksq) ELSE 9 - Rank(ksq)
      middle == File(ksq) = 4
      block == CASE File(ksq) = 5 -> 1
                 [] File(ksq) = 3 -> 2
                 [] middle /\ ~Mirror(b, c) -> 0
                 [] middle /\ Mirror(b, c) -> IF RequiresMidMirror(b, c) THEN 4 ELSE 3
  IN 4 * (3 * block + row) + MakeAttackBucket(b, c)

Bias == <<net, <<"bias">>>>
Cleared == [pieces |-> NoSum, acc |-> (Bias :> 1)]
Entry(k) == IF k \in DOMAIN cache THEN cache[k] ELSE Cleared

PsqIndices(c, fb, b, squares) == {MakeIndex(c, s, b[s], fb) : s \in squares}

\* get_changed_pieces(): the squares on which two boards differ.
ChangedPieces(old, new) ==
  {s \in DOMAIN old \cup DOMAIN new : ~(s \in DOMAIN old /\ s \in DOMAIN new /\ old[s] = new[s])}

\* update_accumulator_refresh_cache(): the entry of the cache is brought to the
\* pieces of the board, and the threats that are active are added to a copy.
RefreshedEntry(c, fb, key) ==
  LET entry == Entry(key)
      changed == ChangedPieces(entry.pieces, board)
      removed == PsqIndices(c, fb, entry.pieces, changed \cap DOMAIN entry.pieces)
      added == PsqIndices(c, fb, board, changed \cap DOMAIN board)
  IN [pieces |-> board, acc |-> ApplyCombined(entry.acc, Difference(added, removed), 1)]

\* What evaluate_side() writes: the sums of a perspective in the entries from the
\* last usable one to the latest, and the entry of the cache if that was used.
EvaluateSide(c, fb, key) ==
  LET last == FindLastUsable(c)
      threats == Weights(ThreatIndices(c, fb.mirror, ActiveThreats(board)))
      refreshed(entry) ==
        [sums |-> BackwardTo(c, fb, last, PlusSum(entry.acc, threats, 1)),
         entries |-> key :> entry]
  IN IF accumulators[last].computed[c] THEN [sums |-> ForwardFrom(c, fb, last), entries |-> NoSum]
     ELSE refreshed(RefreshedEntry(c, fb, key))

\* evaluate().  When both sides go forward, forward_update_incremental_both()
\* lets the one that lags catch up and takes the rest of the entries for both at
\* once: to the same sums, since neither side reads the other's.
Evaluate ==
  /\ searching /\ st.checkers = {}
  /\ \E fb \in {[c \in Color |-> MakeFeatureBucket(board, c)]} :
     \E key \in {[c \in Color |-> <<CacheIndex(board, c), c>>]} :
     \E side \in {[c \in Color |-> EvaluateSide(c, fb[c], key[c])]} :
       /\ accumulators' = [i \in DOMAIN accumulators |->
            [accumulators[i] EXCEPT
               !.acc = [c \in Color |-> IF i \in DOMAIN side[c].sums THEN side[c].sums[i] ELSE @[c]],
               !.computed = [c \in Color |-> @[c] \/ i \in DOMAIN side[c].sums]]]
       /\ cache' = side["white"].entries @@ side["black"].entries @@ cache
  /\ UNCHANGED <<board, sideToMove, states, size, net, searching, boards, counts>>

-----------------------------------------------------------------------------
(***************************************************************************)
(* The search moves the pieces; a null move pushes no accumulator.         *)
(***************************************************************************)
DoMove(m) ==
  LET d == Dirtied(m)
      givesCheck == GivesCheck(pos, m)
  IN /\ searching /\ left > 0
     /\ states' = Append(states, NextState(m, givesCheck))
     /\ board' = d.board /\ sideToMove' = Other(sideToMove)
     /\ Push([pc |-> board[m.from], from |-> m.from, to |-> m.to,
              removePc |-> IF IsCapture(pos, m) THEN board[m.to] ELSE <<>>,
              requiresRefresh |-> RequiresRefresh(m, d.board)], d.threats)
     /\ boards' = Append(boards, d.board)
     /\ left' = left - 1
     /\ UNCHANGED <<cache, net, searching, searches>>

NoMove == [from |-> 0, to |-> 0]

UndoMove ==
  LET back == Moved(board, st.move.to, st.move.from)
  IN /\ searching /\ Len(states) > 1 /\ st.move # NoMove
     /\ board' = IF st.captured = <<>> THEN back ELSE Placed(back, st.captured, st.move.to)
     /\ sideToMove' = Other(sideToMove)
     /\ states' = Front(states) /\ boards' = Front(boards)
     /\ Pop
     /\ UNCHANGED <<cache, net, searching, counts>>

DoNullMove ==
  /\ searching /\ left > 0 /\ st.checkers = {}
  /\ Len(states) > 1 => st.move # NoMove
  /\ states' = Append(states, [st EXCEPT !.key = SymDiff(@, Side), !.move = NoMove, !.captured = <<>>])
  /\ sideToMove' = Other(sideToMove)
  /\ left' = left - 1
  /\ UNCHANGED <<board, stack, net, searching, boards, searches>>

UndoNullMove ==
  /\ searching /\ Len(states) > 1 /\ st.move = NoMove
  /\ states' = Front(states)
  /\ sideToMove' = Other(sideToMove)
  /\ UNCHANGED <<board, stack, net, searching, boards, counts>>

-----------------------------------------------------------------------------
(***************************************************************************)
(* Between the searches.                                                   *)
(***************************************************************************)
Setup(r) ==
  /\ board = r.board /\ sideToMove = r.side
  /\ states = <<SetState(r.board, r.side, NoMove, <<>>)>> /\ boards = <<r.board>>

Init ==
  /\ \E r \in Roots : Setup(r) /\ left = r.moves /\ searches = r.searches
                      /\ accumulators = [i \in 0 .. r.moves |-> Empty]
  /\ size = 1
  /\ cache = NoSum /\ net \in Nets
  /\ searching = FALSE

\* start_searching() resets the stack and keeps the cache.
StartSearching ==
  /\ ~searching /\ searches > 0
  /\ searching' = TRUE /\ searches' = searches - 1
  /\ Reset
  /\ UNCHANGED <<board, sideToMove, states, cache, net, boards, left>>

EndSearch ==
  /\ searching /\ Len(states) = 1
  /\ searching' = FALSE
  /\ UNCHANGED <<board, sideToMove, states, stack, net, boards, counts>>

SetPosition ==
  /\ ~searching /\ searches > 0
  /\ \E r \in Later :
       /\ board' = r.board /\ sideToMove' = r.side
       /\ states' = <<SetState(r.board, r.side, NoMove, <<>>)>> /\ boards' = <<r.board>>
  /\ UNCHANGED <<stack, net, searching, counts>>

\* load_network() ends with threads.clear(): Worker::clear() of every worker.
LoadNetwork ==
  /\ ~searching /\ searches > 0
  /\ \E n \in Nets \ {net} : net' = n
  /\ cache' = NoSum
  /\ UNCHANGED <<board, sideToMove, states, accumulators, size, searching, boards, counts>>

Next ==
  \/ \E m \in {n \in LegalMoves(pos) : n.to \in Explored} : DoMove(m)
  \/ UndoMove \/ DoNullMove \/ UndoNullMove
  \/ Evaluate
  \/ StartSearching \/ EndSearch \/ SetPosition \/ LoadNetwork

Spec == Init /\ [][Next]_vars

-----------------------------------------------------------------------------
(***************************************************************************)
(* Properties.                                                             *)
(***************************************************************************)
TypeOK ==
  /\ DOMAIN board \subseteq Squares /\ \A s \in DOMAIN board : board[s] \in Piece
  /\ sideToMove \in Color /\ net \in Nets /\ searching \in BOOLEAN
  /\ size - 1 \in DOMAIN accumulators /\ size = Len(boards)

\* What a perspective's accumulator of a board sums.
FeatureSum(b, c) ==
  LET psq == Plus(NoSum, PsqIndices(c, MakeFeatureBucket(b, c), b, DOMAIN b), 1)
      threats == ThreatIndices(c, Mirror(b, c), ActiveThreats(b))
  IN PlusSum(Bias :> 1, Weights(PlusSum(psq, threats, 1)), 1)

\* An accumulator that is marked computed holds the features of its position:
\* over any moves and null moves made and taken back, evaluated or not, through
\* captures and refreshes of either side, updated forward, backward or from the
\* cache, in one search or after another with another network.
AccumulatorsMatch ==
  /\ TypeOK
  /\ searching =>
       \A i \in 0 .. size - 1, c \in Color :
         accumulators[i].computed[c] => accumulators[i].acc[c] = FeatureSum(boards[i + 1], c)

\* What do_move() and undo_move() keep is what set_state() would compute: the
\* board, its keys and material, and the checkers that gives_check() foresaw.
StateIsRecomputed ==
  /\ board = boards[Len(boards)]
  /\ st = SetState(board, sideToMove, st.move, st.captured)

\* The moves of the rules: a piece goes where it attacks, a cannon that does not
\* capture goes like a rook, and no piece takes one of its own.
RuleMoves(p) ==
  LET b == p.board
      reach(s) ==
        (IF b[s][2] = "cannon"
         THEN (RookAttacks(s, DOMAIN b) \ DOMAIN b) \cup (CannonAttacks(s, DOMAIN b) \cap DOMAIN b)
         ELSE PieceAttacks(b, b[s], s)) \ Of(b, p.side)
  IN UNION {MovesTo(s, reach(s)) : s \in Of(b, p.side)}

\* The king of c is attacked by a piece, or faces the other king.
Attacked(b, c) ==
  LET ksq == KingSquare(b, c)
      oksq == KingSquare(b, Other(c))
  IN \/ \E s \in Of(b, Other(c)) : ksq \in PieceAttacks(b, b[s], s)
     \/ ksq \in RookAttacks(oksq, DOMAIN b)

\* The moves that are generated and pass legal() are the moves of the rules that
\* leave the own king unattacked; captures and quiet moves are those without
\* legal(), evasions leave out no legal move and give none twice.
LegalMovesAreRight ==
  LET p == pos
      evasions == EvasionParts(p)
  IN /\ LegalMoves(p) = {m \in RuleMoves(p) : ~Attacked(Moved(board, m.from, m.to), sideToMove)}
     /\ GenerateAll(p, "captures") \cup GenerateAll(p, "quiets") = RuleMoves(p)
     /\ {m \in RuleMoves(p) : PseudoLegal(p, m)} = IF p.checkers # {} THEN Evasions(p) ELSE RuleMoves(p)
     /\ Cardinality(p.checkers) = 1 =>
          Cardinality(Evasions(p)) = FoldLeft(LAMBDA n, part : n + Cardinality(part), 0, evasions)

\* gives_check() foresees, for every legal move, whether the other king is then
\* attacked: directly, by what the move discovers, or through a cannon's hurdle.
ChecksAreForeseen ==
  \A m \in LegalMoves(pos) :
    GivesCheck(pos, m) = Attacked(Moved(board, m.from, m.to), Other(sideToMove))

\* What stm wins by going on to capture on a square a piece of that value, or by
\* leaving it: always with the least valuable piece that may, the attackers
\* found anew after every capture, and with the king only as the last.
RECURSIVE Winning(_, _, _, _, _, _, _)
Winning(b, pins, to, occupied, stm, victim, facing) ==
  LET kings == IF facing THEN RookAttacks(to, occupied) \cap OfType(b, {"king"}) ELSE {}
      attackers == (AttackersTo(b, to, occupied) \cup kings) \cap occupied
      mine == MayCapture(b, pins, attackers, occupied, stm)
      type == LET i == Min({j \in 1 .. 6 : \E x \in mine : b[x][2] = ByValue[j]}) IN ByValue[i]
      used == Min(Among(b, mine, {type}))
  IN IF mine = {} THEN 0
     ELSE IF mine \subseteq OfType(b, {"king"})
     THEN IF attackers \ Of(b, stm) = {} THEN victim ELSE 0
     ELSE Max({0, victim - Winning(b, pins, to, occupied \ {used}, Other(stm), PieceValue[type], facing)})

StaticExchange(p, m) ==
  LET b == p.board
      occupied == DOMAIN b \ {m.from, m.to}
      facing == AttackersTo(b, m.to, occupied) \cap OfType(b, {"king"}) # {}
  IN PieceValue[TypeOn(b, m.to)]
     - Winning(b, Pins(b), m.to, occupied, Other(p.side), PieceValue[b[m.from][2]], facing)

\* see_ge(), which keeps only who is ahead and adds attackers as they are
\* uncovered, answers as the exchange played out would, at its value and beyond.
ExchangesAreRight ==
  \A m \in LegalMoves(pos) :
    LET value == StaticExchange(pos, m)
    IN \A t \in {value, value + 1} : SeeGe(pos, m, t) = (value >= t)

\* The captures on some squares that the rules allow a side of a board.
RuleCaptures(b, c, squares) ==
  {m \in RuleMoves([board |-> b, side |-> c]) :
     m.to \in squares /\ ~Attacked(Moved(b, m.from, m.to), c)}

\* No piece of the other side may take back.
Unprotected(b, c, m) == RuleCaptures(Moved(b, m.from, m.to), Other(c), {m.to}) = {}

\* The pieces that the rules call chased: neither a king nor a pawn at home, that
\* a piece other than king and pawn may take; and either it is worth more, or it
\* is unprotected and may not itself take a piece of its own type.
RuleChased(b, c) ==
  LET them == Other(c)
      atHome(s) == b[s][2] = "pawn" /\ s \in Half(them)
      victims == {s \in Of(b, them) \ OfType(b, {"king"}) : ~atHome(s)}
      chases(m) ==
        \/ AttacksStronger(b[m.from][2], b[m.to][2])
        \/ /\ Unprotected(b, c, m)
           /\ b[m.from][2] = b[m.to][2] => [from |-> m.to, to |-> m.from] \notin RuleCaptures(b, them, {m.from})
  IN {m.to : m \in {n \in RuleCaptures(b, c, victims) : b[n.from][2] \notin {"king", "pawn"} /\ chases(n)}}

\* chased(), which looks at pins and at the occupied squares only, names the
\* pieces that the rules do when every capture is played out; so does
\* rook_chased(), for which rooks that attack each other chase each other.
ChasesAreRight ==
  \A c \in Color :
    /\ Chased(board, c) = RuleChased(board, c)
    /\ LET rooks == Of(board, Other(c)) \cap OfType(board, {"rook"})
           taken == {m \in RuleCaptures(board, c, rooks) : Unprotected(board, c, m)}
       IN RookChased(board, c) =
            [s \in Of(board, c) \cap OfType(board, {"rook"}) |-> {m.to : m \in {n \in taken : n.from = s}}]
=============================================================================
