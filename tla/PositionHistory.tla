-------------------------- MODULE PositionHistory --------------------------
(***************************************************************************)
(* What a Position (position.h, position.cpp) remembers of the game: the   *)
(* chain of StateInfo records that do_move() and do_null_move() extend and *)
(* their undo_ counterparts cut back, the counters of rule 60 in it, the   *)
(* table of visited keys (BloomFilter of types.h), and rule_judge(), which *)
(* walks the chain to decide whether the game is over.                     *)
(*                                                                         *)
(* The board is abstract: which boards follow each other by a quiet move   *)
(* or by a capture, on which of them a side is in check, which pieces a    *)
(* side chases there, and in which slot of the table a key falls, are      *)
(* constants.  A key is a board with the side to move.                     *)
(***************************************************************************)
EXTENDS Integers, FiniteSets, SequencesExt

CONSTANTS
  Board,       \* the placements of the pieces
  Start,       \* <<b, c, r>>: a FEN string sets up b, c to move and a clock of r
  Quiet,       \* <<b, c, d>>: c has a legal move without capture from b to d
  Capture,     \* <<b, c, d>>: c has a legal capture that leads from b to d
  InCheck,     \* <<b, c>>: c is in check on b
  Piece,       \* the pieces that may be chased
  Chased,      \* Chased[<<b, c>>]: the pieces that c chases on b, see chased()
  Slot,        \* Slot[<<b, c>>]: the slot of the key in the table
  CheckLimit,  \* the checks of a side that rule 60 counts: 10
  Rule60,      \* the plies without capture after which a game is drawn: 120
  Wrap,        \* the counters of the table have eight bits: 256
  MaxStates    \* a bound on the length of the chain

Color == {"white", "black"}

Key == Board \X Color

Slots == {Slot[k] : k \in Key}

Other(c) == IF c = "white" THEN "black" ELSE "white"

ASSUME HistoryAssumption ==
  /\ Start \subseteq Board \X Color \X (0 .. Rule60 - 1)
  /\ Quiet \subseteq Board \X Color \X Board
  /\ Capture \subseteq Board \X Color \X Board
  /\ InCheck \subseteq Key
  /\ Piece # {} /\ Chased \in [Key -> SUBSET Piece]
  /\ DOMAIN Slot = Key
  /\ CheckLimit \in Nat /\ Rule60 \in Nat \ {0} /\ Wrap \in Nat \ {0}
  /\ MaxStates \in Nat \ {0} /\ MaxStates <= Wrap

\* Whoever has moved is not in check: moves are legal, and the FEN strings are of
\* positions that moves lead to.  pos_is_ok() asserts it of every position.
ASSUME LegalAssumption ==
  /\ \A m \in Quiet \cup Capture : <<m[3], m[2]>> \notin InCheck
  /\ \A f \in Start : <<f[1], Other(f[2])>> \notin InCheck

VARIABLES
  states,   \* the chain of StateInfo, the current one last
  filter,   \* filter[s]: the counter of slot s
  gamePly,  \* moves made since the start of the game
  root      \* the length of the chain when the search began, or 0 before

vars == <<states, filter, gamePly, root>>

\* `by' is how the state was reached; in the code it shows in the fields move
\* and capturedPiece.
StateInfo ==
  [key : Key, checkers : BOOLEAN, check10 : [Color -> Nat], rule60 : Nat,
   pliesFromNull : Nat, by : {"set", "quiet", "capture", "null"}]

TypeOK ==
  /\ states \in Seq(StateInfo)
  /\ Len(states) \in 1 .. MaxStates
  /\ filter \in [Slots -> 0 .. Wrap - 1]
  /\ gamePly \in Nat
  /\ root \in 0 .. Len(states)

\* The state k plies back: st, st->previous, and so on.
Back(k) == states[Len(states) - k]

st == Back(0)

\* Position::set(): the chain begins, the table is empty, and the counter of
\* rule 60 is that of the FEN string.
Init ==
  /\ \E f \in Start :
       /\ states = << [key |-> <<f[1], f[2]>>, checkers |-> <<f[1], f[2]>> \in InCheck,
                       check10 |-> [d \in Color |-> 0], rule60 |-> f[3],
                       pliesFromNull |-> 0, by |-> "set"] >>
       /\ gamePly = IF f[2] = "black" THEN 1 ELSE 0
  /\ filter = [s \in Slots |-> 0]
  /\ root = 0

Bump(k, d) == [filter EXCEPT ![Slot[k]] = (@ + d) % Wrap]

-----------------------------------------------------------------------------
(***************************************************************************)
(* do_move().  The side that moves to board b is us; rule 60 counts a      *)
(* move unless it gives a check beyond the limit of its side, or answers   *)
(* such a check of the other side.                                         *)
(***************************************************************************)
\* Mutant of NewCounters: < for <=.
NewCountersEarly(us, gives) ==
  LET them == Other(us)
      checked == IF gives THEN [st.check10 EXCEPT ![us] = @ + 1] ELSE st.check10
      within == gives => checked[us] < CheckLimit
      answers == st.checkers /\ checked[them] > CheckLimit
  IN [check10 |-> IF within /\ answers THEN [checked EXCEPT ![them] = @ + 1] ELSE checked,
      rule60 |-> IF within /\ ~answers THEN st.rule60 + 1 ELSE st.rule60]

NewCounters(us, gives) ==
  LET them == Other(us)
      checked == IF gives THEN [st.check10 EXCEPT ![us] = @ + 1] ELSE st.check10
      within == gives => checked[us] <= CheckLimit
      answers == st.checkers /\ checked[them] > CheckLimit
  IN [check10 |-> IF within /\ answers THEN [checked EXCEPT ![them] = @ + 1] ELSE checked,
      rule60 |-> IF within /\ ~answers THEN st.rule60 + 1 ELSE st.rule60]

NoCounters == [check10 |-> [d \in Color |-> 0], rule60 |-> 0]

Push(key, checkers, counters, fromNull, by) ==
  states' = Append(states, [key |-> key, checkers |-> checkers,
                            check10 |-> counters.check10, rule60 |-> counters.rule60,
                            pliesFromNull |-> fromNull, by |-> by])

Legal(by) == IF by = "capture" THEN Capture ELSE Quiet

\* Mutant of DoMove: a capture resets rule60 only.
DoMoveKeepingChecks(b, by) ==
  LET us == st.key[2]
      key == <<b, Other(us)>>
      gives == key \in InCheck
  IN /\ Len(states) < MaxStates
     /\ <<st.key[1], us, b>> \in Legal(by)
     /\ filter' = Bump(st.key, 1)
     /\ Push(key, gives,
             IF by = "capture" THEN [NewCounters(us, gives) EXCEPT !.rule60 = 0]
             ELSE NewCounters(us, gives),
             st.pliesFromNull + 1, by)
     /\ gamePly' = gamePly + 1
     /\ UNCHANGED root

DoMove(b, by) ==
  LET us == st.key[2]
      key == <<b, Other(us)>>
      gives == key \in InCheck
  IN /\ Len(states) < MaxStates
     /\ <<st.key[1], us, b>> \in Legal(by)
     /\ filter' = Bump(st.key, 1)
     /\ Push(key, gives, IF by = "capture" THEN NoCounters ELSE NewCounters(us, gives),
             st.pliesFromNull + 1, by)
     /\ gamePly' = gamePly + 1
     /\ UNCHANGED root

\* Mutant of UndoMove: --filter[st->key] left out.
UndoMoveOnly ==
  /\ root > 0 /\ Len(states) > root
  /\ st.by \in {"quiet", "capture"}
  /\ states' = Front(states)
  /\ gamePly' = gamePly - 1
  /\ UNCHANGED <<filter, root>>

\* undo_move(): the search never goes back behind its root.
UndoMove ==
  /\ root > 0 /\ Len(states) > root
  /\ st.by \in {"quiet", "capture"}
  /\ states' = Front(states)
  /\ filter' = Bump(Back(1).key, -1)
  /\ gamePly' = gamePly - 1
  /\ UNCHANGED root

\* do_null_move(): only in the search, and not in check.
DoNullMove ==
  /\ root > 0 /\ Len(states) < MaxStates
  /\ ~st.checkers
  /\ filter' = Bump(st.key, 1)
  /\ Push(<<st.key[1], Other(st.key[2])>>, st.checkers,
          [check10 |-> st.check10, rule60 |-> st.rule60], 0, "null")
  /\ UNCHANGED <<gamePly, root>>

UndoNullMove ==
  /\ root > 0 /\ Len(states) > root
  /\ st.by = "null"
  /\ states' = Front(states)
  /\ filter' = Bump(Back(1).key, -1)
  /\ UNCHANGED <<gamePly, root>>

\* start_thinking(): a worker's rootPos takes over the board, the table and the
\* last state of the game, whose predecessors it shares with the UCI thread.
StartThinking ==
  /\ root = 0
  /\ root' = Len(states)
  /\ UNCHANGED <<states, filter, gamePly>>

Next ==
  \/ \E b \in Board, by \in {"quiet", "capture"} : DoMove(b, by)
  \/ UndoMove \/ DoNullMove \/ UndoNullMove \/ StartThinking

Spec == Init /\ [][Next]_vars

-----------------------------------------------------------------------------
(***************************************************************************)
(* rule_judge(): is the game over, and with what result for the side to    *)
(* move?  It may also find a result that is not final, for the search to   *)
(* make what it can of it.                                                 *)
(***************************************************************************)
Positive(n) == IF n > 0 THEN n ELSE 0

\* How far back a repetition is looked for: rule60 with the checks added back.
Window ==
  LET plies == st.rule60 + Positive(st.check10["white"] - CheckLimit)
                         + Positive(st.check10["black"] - CheckLimit)
  IN IF plies < st.pliesFromNull THEN plies ELSE st.pliesFromNull

\* The pieces that the move from Back(k + 1) to Back(k) has begun to chase.
NewChase(k) ==
  LET mover == Back(k + 1).key[2]
  IN Chased[<<Back(k).key[1], mover>>] \ Chased[<<Back(k + 1).key[1], mover>>]

Verdict(us, them) == IF us = them THEN "draw" ELSE IF us THEN "loss" ELSE "win"

\* One ply of the walk back: what each side may still be chasing.
Roll(walk, k) ==
  LET mover == Back(k + 1).key[2] IN
  IF walk.over THEN walk
  ELSE IF Back(k).checkers THEN [chase |-> [c \in Color |-> {}], over |-> TRUE]
  ELSE IF walk.chase[mover] # {} THEN [walk EXCEPT !.chase[mover] = @ \cap NewChase(k)]
  ELSE [walk EXCEPT !.over = walk.chase[Other(mover)] = {}]

\* detect_chases(): a side that has begun to chase the same piece with each of
\* its last moves loses, if the other side has not; a check makes it a draw.
DetectChases(d) ==
  LET walk[n \in 0 .. d] == IF n = 0 THEN [chase |-> [c \in Color |-> Piece], over |-> FALSE]
                            ELSE Roll(walk[n - 1], n - 1)
      Chases(c) == walk[d].chase[c] # {}
  IN Verdict(Chases(st.key[2]), Chases(Other(st.key[2])))

Nothing == [done |-> FALSE, over |-> FALSE, result |-> "none"]

\* One turn of the loop, over the state i plies back: cnt are the repetitions so
\* far, them and us whether the opponent and the side to move have given check
\* with each of their moves since.
Look(seen, i, ply) ==
  LET them == seen.them /\ Back(i).checkers
      cnt == seen.cnt + IF Back(i).key = st.key THEN 1 ELSE 0
      judged == cnt > seen.cnt /\ (cnt = 2 \/ ply > i)
      result == IF ~judged THEN seen.result
                ELSE IF ~them /\ ~seen.us THEN DetectChases(i)
                ELSE Verdict(seen.us, them)
      final == judged /\ (result = "draw" \/ cnt = 2)
      last == judged /\ ~final /\ filter[Slot[st.key]] <= 1
      forced == /\ last
                /\ st.rule60 < Rule60
                /\ Back(1).key = Back(i + 1).key
                /\ \A j \in 2 .. i - 1 : filter[Slot[Back(j).key]] <= 1
  IN IF seen.done THEN seen
     ELSE [done |-> final \/ last, over |-> final \/ forced, result |-> result,
           cnt |-> cnt, them |-> them,
           us |-> seen.us /\ (i + 1 <= Window => Back(i + 1).checkers)]

\* The loop over the states i plies back, i even, that may equal the current one.
Repetition(ply) ==
  LET seen[n \in 0 .. Window \div 2 - 1] ==
        IF n = 0
        THEN [done |-> FALSE, over |-> FALSE, result |-> "none", cnt |-> 0,
              them |-> st.checkers /\ Back(2).checkers, us |-> Back(1).checkers /\ Back(3).checkers]
        ELSE Look(seen[n - 1], 2 * n + 2, ply)
  IN IF Window >= 4 /\ filter[Slot[st.key]] >= 1 THEN seen[Window \div 2 - 1] ELSE Nothing

CanMove == \E by \in {"quiet", "capture"}, b \in Board : <<st.key[1], st.key[2], b>> \in Legal(by)

\* Mutant of RuleJudge: rule 60 before the repetitions.
RuleJudgeClockFirst(ply) ==
  IF st.rule60 >= Rule60
  THEN [over |-> TRUE, result |-> IF CanMove THEN "draw" ELSE "loss"]
  ELSE [over |-> Repetition(ply).over, result |-> Repetition(ply).result]

RuleJudge(ply) ==
  LET repetition == Repetition(ply) IN
  IF ~repetition.over /\ st.rule60 >= Rule60
  THEN [over |-> TRUE, result |-> IF CanMove THEN "draw" ELSE "loss"]
  ELSE [over |-> repetition.over, result |-> repetition.result]

-----------------------------------------------------------------------------
(***************************************************************************)
(* The rules themselves, read off the chain without a counter or a table.  *)
(***************************************************************************)
MovedQuietly(i) == states[i].by = "quiet"

\* The uninterrupted quiet moves that led to the current state.
QuietRun == Max({n \in 0 .. Len(states) - 1 : \A k \in 0 .. n - 1 : Back(k).by = "quiet"})

Visits(s) == Cardinality({i \in 1 .. Len(states) - 1 : Slot[states[i].key] = s})

Mover(i) == states[i - 1].key[2]

\* The plies on which rule 60 runs: those after the last capture.
SinceCapture(i) == \A j \in i .. Len(states) : states[j].by # "capture"

\* How many checks side c has given on plies up to i since the last capture.
Checks(c, i) ==
  Cardinality({j \in 2 .. i : /\ MovedQuietly(j) /\ SinceCapture(j)
                              /\ Mover(j) = c /\ states[j].checkers})

\* A ply that the clock passes over: a check beyond the limit, or the answer to
\* one of a side that is beyond it.
PassedOver(i) ==
  \/ states[i].checkers /\ Checks(Mover(i), i) > CheckLimit
  \/ states[i - 1].checkers /\ Checks(states[i].key[2], i - 1) > CheckLimit

Repeats == {k \in 4 .. QuietRun : Back(k).key = st.key}

EveryMove(c, k, Does(_)) == \A j \in 0 .. k - 1 : Back(j + 1).key[2] = c => Does(j)

Sentence(k) ==
  LET us == st.key[2]
      Check(j) == Back(j).checkers
      Pursues(c) == \E p \in Piece : EveryMove(c, k, LAMBDA j : p \in NewChase(j))
  IN IF \E c \in Color : EveryMove(c, k, Check)
     THEN Verdict(EveryMove(us, k, Check), EveryMove(Other(us), k, Check))
     ELSE IF \E j \in 0 .. k - 1 : Check(j) THEN "draw"
     ELSE Verdict(Pursues(us), Pursues(Other(us)))

\* The last cycle of k plies was entered as it is left and met no other.
Inevitable(k) ==
  /\ st.rule60 < Rule60
  /\ Back(1).key = Back(k + 1).key
  /\ \A j \in {0} \cup 2 .. k - 1 : Visits(Slot[Back(j).key]) <= 1

\* A repetition after the root of the search counts once for a draw, any other
\* only the second time.
Ruling(ply) ==
  LET first == Min(Repeats)
      early == Repeats # {} /\ ply > first
      folds == Cardinality(Repeats)
  IN IF early /\ Sentence(first) = "draw" THEN [over |-> TRUE, result |-> "draw"]
     ELSE IF folds >= 2 THEN [over |-> TRUE, result |-> Sentence(Min(Repeats \ {first}))]
     ELSE IF early /\ Inevitable(first) THEN [over |-> TRUE, result |-> Sentence(first)]
     ELSE IF st.rule60 >= Rule60
     THEN [over |-> TRUE, result |-> IF CanMove THEN "draw" ELSE "loss"]
     ELSE [over |-> FALSE, result |-> IF early THEN Sentence(first) ELSE "none"]

-----------------------------------------------------------------------------
\* The stretch of the chain that rule_judge() searches for repetitions, and
\* that detect_chases() takes back with undo_move(), is the longest one of quiet
\* moves: it never reaches over a capture, a null move or the first state, and
\* no repetition lies outside it.
WindowIsQuietRun == Window = QuietRun

\* The table counts the states before the current one, slot by slot.
FilterCountsVisits == TypeOK /\ \A s \in Slots : filter[s] = Visits(s)

\* Rule 60 counts the plies since the last capture except those that a side
\* spends on checks beyond its limit.
ClockFollowsRule ==
  LET quiet == {i \in 2 .. Len(states) : MovedQuietly(i) /\ SinceCapture(i)}
  IN st.rule60 = Cardinality({i \in quiet : ~PassedOver(i)})
                 + IF SinceCapture(1) THEN states[1].rule60 ELSE 0

\* The search hears from rule_judge() what the rules say.
JudgedByTheRules == root > 0 => RuleJudge(Len(states) - root) = Ruling(Len(states) - root)
=============================================================================
