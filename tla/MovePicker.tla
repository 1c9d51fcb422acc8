------------------------------ MODULE MovePicker ------------------------------
(***************************************************************************)
(* The staged move picker of movepick.cpp, on its one array of moves: the  *)
(* captures are generated at its front, the bad ones among them gathered   *)
(* there again while the rest is still read, and the quiet moves generated *)
(* behind them.  An action is a case of the switch of next_move(); a call  *)
(* runs from Call to a move that is given.                                 *)
(*                                                                         *)
(* A move is a model value; its score, its static exchange and what the    *)
(* generators give are chosen in the initial state.                        *)
(***************************************************************************)
EXTENDS Integers, Sequences, SequencesExt, FiniteSets

CONSTANTS
  Captures,       \* the captures, as the generator orders them
  Quiets,         \* the quiet moves, as the generator orders them
  CaptureScores, QuietScores,
  Depths,         \* of the search; 0 is qsearch()
  NoMove

GoodQuiet == -14000   \* above it a quiet move is good
INT_MIN == -2147483647 - 1   \* the limit that sorts all moves

ASSUME PickerAssumption ==
  /\ Captures \in Seq(Range(Captures)) /\ Quiets \in Seq(Range(Quiets))
  /\ IsInjective(Captures \o Quiets) /\ NoMove \notin Range(Captures \o Quiets)
  /\ CaptureScores \subseteq Int /\ QuietScores \subseteq Int
  /\ \A v \in CaptureScores \cup QuietScores : v >= INT_MIN
  /\ Depths \subseteq Nat

Generated == Range(Captures) \cup Range(Quiets)
IsCapture(m) == m \in Range(Captures)

VARIABLES
  kind,       \* "main", "qsearch", "evasion" or "probcut"
  depth, ttMove, score,
  seeGood,    \* the captures whose exchange is good enough
  stage, moves,
  cur, endCur, endBadCaptures, endBadQuiets,   \* as in the code, counted from 1
  skipQuiets,
  calling,    \* next_move() is running
  given       \* the moves it gave so far

pickerVars ==
  <<kind, depth, ttMove, score, seeGood, stage, moves, cur, endCur, endBadCaptures,
    endBadQuiets, skipQuiets, calling, given>>
input == <<kind, depth, ttMove, score, seeGood>>
list == <<moves, cur, endCur, endBadCaptures, endBadQuiets>>

\* score() may give a move anything, the captures and the quiet moves from
\* different tables.
Scorings ==
  {s \in [Generated -> CaptureScores \cup QuietScores] :
     \A m \in Generated : s[m] \in IF IsCapture(m) THEN CaptureScores ELSE QuietScores}

\* The constructors: the move of the table comes first if it is pseudo-legal,
\* and for ProbCut if it is a capture as well.
PickerInit ==
  /\ kind \in {"main", "qsearch", "evasion", "probcut"}
  /\ depth \in Depths /\ (kind = "main") = (depth > 0)
  /\ ttMove \in Generated \cup {NoMove} /\ (kind = "probcut" => ~ttMove \in Range(Quiets))
  /\ score \in Scorings
  /\ seeGood \in SUBSET Range(Captures)
  /\ stage = IF ttMove = NoMove THEN "init" ELSE "tt"
  /\ moves = <<>> /\ cur = 1 /\ endCur = 1 /\ endBadCaptures = 1 /\ endBadQuiets = 1
  /\ skipQuiets = FALSE /\ calling = FALSE /\ given = <<>>

-----------------------------------------------------------------------------
(***************************************************************************)
(* partial_insertion_sort(): the moves of the limit and above come first,  *)
(* in descending order.                                                    *)
(***************************************************************************)
\* Where m goes among the first places of b, up to the end of the sorted ones: the first
\* move from that end that is not worse is before it.
PlaceFor(b, sortedEnd, m) ==
  CHOOSE q \in 1 .. sortedEnd :
    /\ q > 1 => score[b[q - 1]] >= score[m]
    /\ \A i \in q .. sortedEnd - 1 : score[b[i]] < score[m]

\* [a |-> the moves, sortedEnd |-> the end of the sorted ones] after move p
Insert(s, p, limit) ==
  IF score[s.a[p]] < limit THEN s
  ELSE LET sortedEnd == s.sortedEnd + 1
           m == s.a[p]
           b == [s.a EXCEPT ![p] = s.a[sortedEnd]]
           q == PlaceFor(b, sortedEnd, m)
       IN [a |-> [i \in DOMAIN b |->
                    IF i \in q + 1 .. sortedEnd THEN b[i - 1] ELSE IF i = q THEN m ELSE b[i]],
           sortedEnd |-> sortedEnd]

\* The first p moves of the list are read.
Inserted(list0, limit) ==
  LET upTo[p \in 0 .. Len(list0)] ==
        IF p <= 1 THEN [a |-> list0, sortedEnd |-> 1] ELSE Insert(upTo[p - 1], p, limit)
  IN upTo

PartialInsertionSort(list0, limit) == Inserted(list0, limit)[Len(list0)].a

\* Put a sorted list into the array from position `from' on.
Generate(from, list0) ==
  [i \in 1 .. from - 1 + Len(list0) |-> IF i < from THEN moves[i] ELSE list0[i - from + 1]]

-----------------------------------------------------------------------------
Call ==
  /\ ~calling /\ stage # "done"
  /\ calling' = TRUE
  /\ UNCHANGED <<input, stage, list, skipQuiets, given>>

\* search() may ask for it after any move it was given, in check too.
SkipQuietMoves ==
  /\ ~calling /\ given # <<>> /\ kind \in {"main", "evasion"} /\ ~skipQuiets
  /\ skipQuiets' = TRUE
  /\ UNCHANGED <<input, stage, list, calling, given>>

Give(m) == calling' = FALSE /\ given' = Append(given, m)
None == calling' = FALSE /\ stage' = "done" /\ UNCHANGED given
Enter(s) == stage' = s /\ UNCHANGED <<calling, given>>

GiveTTMove ==
  /\ calling /\ stage = "tt"
  /\ stage' = "init" /\ Give(ttMove)
  /\ UNCHANGED <<input, list, skipQuiets>>

\* CAPTURE_INIT, PROBCUT_INIT, QCAPTURE_INIT and EVASION_INIT
GenerateCaptures ==
  /\ calling /\ stage = "init"
  /\ LET all == IF kind = "evasion" THEN Captures \o Quiets ELSE Captures
     IN moves' = Generate(1, PartialInsertionSort(all, INT_MIN)) /\ endCur' = Len(all) + 1
  /\ cur' = 1 /\ endBadCaptures' = 1
  /\ Enter(IF kind = "main" THEN "goodCapture" ELSE "all")
  /\ UNCHANGED <<input, endBadQuiets, skipQuiets>>

\* select(): pass by the move of the table
SkipTTMove ==
  /\ calling /\ stage \in {"goodCapture", "goodQuiet", "badCapture", "badQuiet", "all"}
  /\ cur < endCur /\ moves[cur] = ttMove /\ cur' = cur + 1
  /\ stage \in {"goodQuiet", "badQuiet"} => ~skipQuiets
  /\ UNCHANGED <<input, stage, moves, endCur, endBadCaptures, endBadQuiets, skipQuiets, calling, given>>

Selecting(s) == calling /\ stage = s /\ cur < endCur /\ moves[cur] # ttMove

\* A losing capture goes to the front of the array, to be tried later.
GoodCapture ==
  /\ Selecting("goodCapture")
  /\ cur' = cur + 1
  /\ IF moves[cur] \in seeGood
     THEN Give(moves[cur]) /\ UNCHANGED <<moves, endBadCaptures>>
     ELSE /\ moves' = [moves EXCEPT ![endBadCaptures] = moves[cur]]
          /\ endBadCaptures' = endBadCaptures + 1
          /\ UNCHANGED <<calling, given>>
  /\ UNCHANGED <<input, stage, endCur, endBadQuiets, skipQuiets>>

\* Mutant of QuietInit: the quiet moves are generated at the front of the array.
QuietInitFront ==
  /\ calling /\ stage = "goodCapture" /\ cur >= endCur
  /\ IF skipQuiets THEN UNCHANGED list
     ELSE /\ moves' = Generate(1, PartialInsertionSort(Quiets, -3330 * depth))
          /\ cur' = 1 /\ endBadQuiets' = 1
          /\ endCur' = Len(Quiets) + 1 /\ UNCHANGED endBadCaptures
  /\ Enter("goodQuiet")
  /\ UNCHANGED <<input, skipQuiets>>

QuietInit ==
  /\ calling /\ stage = "goodCapture" /\ cur >= endCur
  /\ IF skipQuiets THEN UNCHANGED list
     ELSE /\ moves' = Generate(endBadCaptures, PartialInsertionSort(Quiets, -3330 * depth))
          /\ cur' = endBadCaptures /\ endBadQuiets' = endBadCaptures
          /\ endCur' = endBadCaptures + Len(Quiets) /\ UNCHANGED endBadCaptures
  /\ Enter("goodQuiet")
  /\ UNCHANGED <<input, skipQuiets>>

QuietScore(m) == score[m] > GoodQuiet

\* A bad quiet move goes to the front of the quiet moves.
GoodQuietMove ==
  /\ Selecting("goodQuiet") /\ ~skipQuiets
  /\ cur' = cur + 1
  /\ IF QuietScore(moves[cur])
     THEN Give(moves[cur]) /\ UNCHANGED <<moves, endBadQuiets>>
     ELSE /\ moves' = [moves EXCEPT ![endBadQuiets] = moves[cur]]
          /\ endBadQuiets' = endBadQuiets + 1
          /\ UNCHANGED <<calling, given>>
  /\ UNCHANGED <<input, stage, endCur, endBadCaptures, skipQuiets>>

\* Back to the bad captures
BadCaptureInit ==
  /\ calling /\ stage = "goodQuiet" /\ (skipQuiets \/ cur >= endCur)
  /\ cur' = 1 /\ endCur' = endBadCaptures
  /\ Enter("badCapture")
  /\ UNCHANGED <<input, moves, endBadCaptures, endBadQuiets, skipQuiets>>

\* All that is left of a list: BAD_CAPTURE, BAD_QUIET, EVASION, QCAPTURE
GiveRest ==
  /\ Selecting("badCapture") \/ (Selecting("badQuiet") /\ ~skipQuiets)
     \/ (Selecting("all") /\ (kind = "probcut" => moves[cur] \in seeGood))
  /\ Give(moves[cur]) /\ cur' = cur + 1
  /\ UNCHANGED <<input, stage, moves, endCur, endBadCaptures, endBadQuiets, skipQuiets>>

PassProbCut ==
  /\ Selecting("all") /\ kind = "probcut" /\ moves[cur] \notin seeGood
  /\ cur' = cur + 1
  /\ UNCHANGED <<input, stage, moves, endCur, endBadCaptures, endBadQuiets, skipQuiets, calling, given>>

BadQuietInit ==
  /\ calling /\ stage = "badCapture" /\ cur >= endCur
  /\ cur' = endBadCaptures /\ endCur' = endBadQuiets
  /\ Enter("badQuiet")
  /\ UNCHANGED <<input, moves, endBadCaptures, endBadQuiets, skipQuiets>>

OutOfMoves ==
  /\ calling
  /\ (stage = "badQuiet" /\ (skipQuiets \/ cur >= endCur)) \/ (stage = "all" /\ cur >= endCur)
  /\ None
  /\ UNCHANGED <<input, list, skipQuiets>>

PickerNext ==
  \/ Call \/ SkipQuietMoves \/ GiveTTMove \/ GenerateCaptures \/ SkipTTMove
  \/ GoodCapture \/ QuietInit \/ GoodQuietMove \/ BadCaptureInit
  \/ GiveRest \/ PassProbCut \/ BadQuietInit \/ OutOfMoves

PickerSpec == PickerInit /\ [][PickerNext]_pickerVars

-----------------------------------------------------------------------------
(***************************************************************************)
(* Properties                                                              *)
(***************************************************************************)
\* The moves that a caller is to see in the end
Wanted ==
  CASE kind = "main" -> Generated
    [] kind = "evasion" -> Generated
    [] kind = "qsearch" -> Range(Captures) \cup ({ttMove} \ {NoMove})
    [] kind = "probcut" -> seeGood \cup ({ttMove} \ {NoMove})

\* No move is given twice or made up, and in the end none is missing but the
\* quiet moves that were skipped, however the array was written while it was read.
GivesEachOnce ==
  /\ IsInjective(given) /\ Range(given) \subseteq Wanted
  /\ stage = "done" => Wanted \subseteq Range(given) \cup IF skipQuiets /\ kind = "main" THEN Range(Quiets) ELSE {}

\* The class of a move of the main search: the move of the table, winning
\* captures, good quiet moves, losing captures, bad quiet moves
Class(m) ==
  IF m = ttMove THEN 0
  ELSE IF IsCapture(m) THEN IF m \in seeGood THEN 1 ELSE 3
  ELSE IF score[m] > GoodQuiet THEN 2 ELSE 4

\* The classes come in their order; within one, and among the evasions and
\* the captures of the other searches, a better score comes first, down to
\* the limit of the sort for quiet moves.
BestFirst ==
  \A i, j \in DOMAIN given :
    LET m == given[i] n == given[j]
        sorted == IsCapture(n) \/ kind = "evasion" \/ score[n] >= -3330 * depth
    IN i < j =>
         /\ kind = "main" => Class(m) <= Class(n)
         /\ (m # ttMove /\ (kind = "main" => Class(m) = Class(n)) /\ sorted) => score[m] >= score[n]

\* The moves that next_move() gives are those that were asked for, each of them
\* once, in the order that was promised, although one array holds the captures,
\* those that were put back and the quiet moves.
GivesAllInOrder == GivesEachOnce /\ BestFirst
=============================================================================
