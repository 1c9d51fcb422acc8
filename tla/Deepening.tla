------------------------------- MODULE Deepening -------------------------------
(***************************************************************************)
(* The iterative deepening of one worker (iterative_deepening() of         *)
(* search.cpp) over its list of root moves: MultiPV lines, aspiration      *)
(* windows, and what becomes of scores and lines when the search is        *)
(* stopped in the middle.  The tree below a root move is any value.        *)
(*                                                                         *)
(* An action ends where the code reads threads.stop again, which another   *)
(* thread may raise between any two actions.                               *)
(***************************************************************************)
EXTENDS Integers, Sequences, SequencesExt, FiniteSets, FiniteSetsExt

CONSTANTS
  RootMoves,       \* the root moves, a sequence
  MaxPly,      \* MAX_PLY
  Growth,      \* of a window that failed
  QuietDepth,  \* up to here there are not more than NODES_LIMIT_OUTPUT nodes
  Decisive,    \* VALUE_TB_WIN_IN_MAX_PLY: from here on a value is a win
  Infinite,    \* VALUE_INFINITE
  MateIn3, MatedIn2,   \* no reason to search on
  Limits       \* what go may ask for, see limits below

\* A window is delta wide to both sides of averageScore, which is no more than
\* the values it is the average of.
Windows == [average : -Infinite..Infinite, delta : Nat \ {0}]

ASSUME DeepeningAssumption ==
  /\ RootMoves \in Seq(Range(RootMoves)) /\ Len(RootMoves) > 0 /\ IsInjective(RootMoves)
  /\ {MaxPly, Growth, QuietDepth, Decisive, Infinite} \subseteq Nat /\ {MateIn3, MatedIn2} \subseteq Int
  /\ MaxPly > 1 /\ Growth > 0
  /\ 0 < Decisive /\ Decisive <= MateIn3 /\ MateIn3 < Infinite /\ MatedIn2 <= -Decisive
  /\ \A l \in Limits :
       /\ l.values \subseteq (1 - Infinite)..(Infinite - 1)
       /\ l.multiPV \in Nat \ {0} /\ {l.main, l.timed, l.pondering} \subseteq BOOLEAN
       /\ {l.depth, l.mate} \subseteq Nat
       /\ \A d \in 1..(MaxPly - 1) : l.windows[d] \subseteq Windows

VARIABLES
  limits,      \* main: of the main thread; depth, mate (as a score): 0 if there is no
               \* limit; timed: use_time_management(); pondering: ponderMode;
               \* the option MultiPV; values: what searches may
               \* return; windows: those that lines begin with, by iteration
  rootDepth, pvIdx,               \* pvIdx counts from 1
  rm,          \* rootMoves
  alpha, beta, delta,
  best,        \* bestValue
  last,        \* lastBestMovePV and lastBestMoveScore
  uciPvSent, shown,               \* the lines shown last
  stop, ponder, stopOnPonderhit,
  cut,         \* the last root search was left because of stop
  pc

window == <<alpha, beta, delta>>
flags == <<ponder, stopOnPonderhit>>
deepeningVars == <<limits, rootDepth, pvIdx, rm, window, best, last, uciPvSent, shown, stop,
          flags, cut, pc>>

--------------------------------------------------------------------------------
(* Root moves *)

MultiPV == Min({limits.multiPV, Len(rm)})
IsLoss(v) == v <= -Decisive
IsDecisive(v) == IsLoss(v) \/ v >= Decisive

\* A line: the value of the search that found it and where it was found.
NoLine == [value |-> Infinite, at |-> <<0, 0>>]

RootMove(m) ==
  [move |-> m, score |-> -Infinite, uci |-> -Infinite, previous |-> -Infinite,
   exact |-> FALSE, lower |-> FALSE, upper |-> FALSE, pv |-> NoLine, previousPV |-> NoLine]

IsBound(r) == r.lower \/ r.upper
IsExactLoss(r) == r.score # -Infinite /\ IsLoss(r.score) /\ ~IsBound(r)

\* operator<, which sorts in descending order.
Before(r, s) == r.score > s.score \/ (r.score = s.score /\ r.previous > s.previous)

\* std::stable_sort of the positions from first to end.
Sorted(s, first, end) ==
  LET Ahead(i, j) == Before(s[i], s[j]) \/ (~Before(s[j], s[i]) /\ i < j)
      Rank(i) == Cardinality({j \in first..end : Ahead(j, i)})
  IN [k \in DOMAIN s |->
        IF k \in first..end THEN s[CHOOSE i \in first..end : Rank(i) = k - first] ELSE s[k]]

\* Utility::move_to_front()
MovedToFront(s, i) == <<s[i]>> \o RemoveAt(s, i)

\* output_pv(): a move without a score is shown with its last one, and not at
\* all in the first iteration, where it has none.
Lines(s) ==
  LET Hidden(i) == rootDepth = 1 /\ i > 1 /\ s[i].score = -Infinite
      Line(r) ==
        IF r.score # -Infinite
        THEN <<r.move, r.uci, r.pv, r.lower, r.upper>>
        ELSE <<r.move, IF r.previous = -Infinite THEN 0 ELSE r.previous, r.previousPV, FALSE, FALSE>>
  IN [i \in 1..MultiPV |-> IF Hidden(i) THEN <<>> ELSE Line(s[i])]

--------------------------------------------------------------------------------
DeepeningInit ==
  /\ limits \in Limits /\ ponder = limits.pondering
  /\ rootDepth = 0 /\ pvIdx = 1
  /\ rm = [i \in DOMAIN RootMoves |-> RootMove(RootMoves[i])]
  /\ alpha = 0 /\ beta = 0 /\ delta = 0 /\ best = 0
  /\ last = [move |-> "none", score |-> -Infinite, pv |-> NoLine]
  /\ uciPvSent = FALSE /\ shown = <<>>
  /\ stop = FALSE /\ stopOnPonderhit = FALSE /\ cut = FALSE
  /\ pc = "iterate"

\* Mutant of SentYet: uciPvSent is never taken back.
SentYetForGood(changed) == uciPvSent

\* uciPvSent of the main thread is taken back when the lines change.
SentYet(changed) == uciPvSent /\ ~(limits.main /\ changed)

\* A line is begun with a window around averageScore.
StartLine(i, depth) ==
  /\ pvIdx' = i
  /\ \E w \in limits.windows[depth] :
       /\ alpha' = Max({w.average - w.delta, -Infinite})
       /\ beta' = Min({w.average + w.delta, Infinite})
       /\ delta' = w.delta
  /\ pc' = "search"

\* The condition of the loop.
GoesOn ==
  /\ rootDepth + 1 < MaxPly /\ ~stop
  /\ ~(limits.depth # 0 /\ limits.main /\ rootDepth >= limits.depth)

\* The root move at place i goes into the next iteration with what the last one found.
Renewed(r, i) == [r EXCEPT !.previous = r.score, !.previousPV = r.pv, !.exact = i <= MultiPV]

Iterate ==
  /\ pc = "iterate" /\ GoesOn
  /\ rootDepth' = rootDepth + 1
  /\ uciPvSent' = SentYet(TRUE)
  /\ rm' = [i \in DOMAIN rm |-> Renewed(rm[i], i)]
  /\ StartLine(1, rootDepth + 1)
  /\ UNCHANGED <<limits, best, last, shown, stop, flags, cut>>

EndLoop ==
  /\ pc = "iterate" /\ ~GoesOn
  /\ pc' = "done"
  /\ UNCHANGED <<limits, rootDepth, pvIdx, rm, window, best, last, uciPvSent, shown, stop,
                 flags, cut>>

--------------------------------------------------------------------------------
(* search<Root>() *)

\* The value of a move that is first or beats a; the line goes with it.
Scored(r, v, a) ==
  [r EXCEPT !.score = v, !.lower = v >= beta, !.upper = v < beta /\ v <= a,
            !.uci = IF v >= beta THEN beta ELSE IF v <= a THEN a ELSE v,
            !.pv = [value |-> v, at |-> <<rootDepth, pvIdx>>]]

\* One move is searched; if it does not beat alpha it loses its score.
AfterMove(r, i, v) ==
  LET a == Max({alpha, r.best})
      new == IF r.best = -Infinite \/ v > a THEN Scored(r.rm[i], v, a)
             ELSE [r.rm[i] EXCEPT !.score = -Infinite]
  IN [rm |-> [r.rm EXCEPT ![i] = new], best |-> Max({r.best, v})]

\* The moves that are searched, by their places: rm[pvIdx] first, the others in
\* the order of the move picker.
Orders ==
  {order \in UNION {[1..n -> pvIdx..Len(rm)] : n \in 0..(Len(rm) - pvIdx + 1)} :
     IsInjective(order) /\ (order # <<>> => order[1] = pvIdx)}

\* rm and the best value before the first of the moves and after each of them
Searched(order, values) ==
  LET after[k \in 0..Len(order)] ==
        IF k = 0 THEN [rm |-> rm, best |-> -Infinite]
        ELSE AfterMove(after[k - 1], order[k], values[k])
  IN after

\* The search ends with a cutoff or the last move, or anywhere if stop is raised;
\* then the move it is at is not scored.  A best value above beta may be reduced
\* towards it.  The lines not finished yet are sorted.
Search ==
  /\ pc = "search"
  /\ \E order \in Orders : \E values \in [DOMAIN order -> limits.values] :
       LET n == Len(order)
           after == Searched(order, values)
           over == after[n].best >= beta \/ n = Len(rm) - pvIdx + 1
       IN /\ stop => n = 0
          /\ \A k \in 0..(n - 1) : after[k].best < beta
          /\ cut' = ~over /\ stop' = (stop \/ ~over)
          /\ rm' = Sorted(after[n].rm, pvIdx, Len(rm))
          /\ \E b \in IF after[n].best >= beta /\ ~IsDecisive(after[n].best)
                      THEN beta..after[n].best ELSE {after[n].best} : best' = b
  /\ pc' = "judge"
  /\ UNCHANGED <<limits, rootDepth, pvIdx, window, last, uciPvSent, shown, flags>>

\* ProbCut, or its small variant, leaves the root before any move: the value is
\* beta or more and no mate, and no move has a new score.
Pruned ==
  /\ pc = "search" /\ ~IsDecisive(beta)
  /\ best' \in {v \in beta..(Decisive - 1) : ~IsDecisive(v)}
  /\ rm' = Sorted(rm, pvIdx, Len(rm))
  /\ cut' = stop
  /\ pc' = "judge"
  /\ UNCHANGED <<limits, rootDepth, pvIdx, window, last, uciPvSent, shown, stop, flags>>

--------------------------------------------------------------------------------
(* The aspiration window *)

\* After NODES_LIMIT_OUTPUT nodes the lines are shown before a search is repeated.
MayShow == IF limits.main /\ MultiPV = 1 /\ rootDepth > QuietDepth
           THEN shown' = Lines(rm) ELSE UNCHANGED shown

\* The window grows, in the end to all there is.
Wider == Min({Growth * delta, 2 * Infinite})

FailLow ==
  /\ pc = "judge" /\ ~stop /\ best <= alpha
  /\ MayShow
  /\ beta' = alpha /\ alpha' = Max({best - delta, -Infinite}) /\ delta' = Wider
  /\ best' = 0 /\ pc' = "search"
  /\ stopOnPonderhit' = (stopOnPonderhit /\ ~limits.main)
  /\ UNCHANGED <<limits, rootDepth, pvIdx, rm, last, uciPvSent, stop, ponder, cut>>

FailHigh ==
  /\ pc = "judge" /\ ~stop /\ best > alpha /\ best >= beta
  /\ MayShow
  /\ alpha' = Max({beta - delta, alpha}) /\ beta' = Min({best + delta, Infinite})
  /\ delta' = Wider
  /\ best' = 0 /\ pc' = "search"
  /\ UNCHANGED <<limits, rootDepth, pvIdx, rm, last, uciPvSent, stop, flags, cut>>

--------------------------------------------------------------------------------
(* The end of a line *)

\* The line above was proved lost and this one would overtake it, or this one
\* is an exact loss.
IsSuspect(s) ==
  LET r == s[pvIdx]  above == s[pvIdx - 1]
  IN (IsLoss(above.score) /\ Before(r, above)) \/ IsExactLoss(r)

\* Mutant of Mistrusted: the capped score keeps its last score to break ties.
MistrustedInTies(s) ==
  LET r == s[pvIdx]  above == s[pvIdx - 1]
  IN IF r.previous # -Infinite /\ r.exact /\ r.previous <= above.score
     THEN [r EXCEPT !.score = r.previous, !.uci = r.previous, !.previous = -Infinite,
                    !.pv = r.previousPV, !.lower = FALSE, !.upper = FALSE]
     ELSE IF IsLoss(above.score)
     THEN [r EXCEPT !.score = above.score, !.uci = above.score,
                    !.pv = NoLine, !.upper = TRUE, !.lower = FALSE]
     ELSE [r EXCEPT !.upper = FALSE, !.lower = TRUE]

\* The last score if it is exact and no better than the line above, or else
\* that line's score as a bound.
Mistrusted(s) ==
  LET r == s[pvIdx]  above == s[pvIdx - 1]
  IN IF r.previous # -Infinite /\ r.exact /\ r.previous <= above.score
     THEN [r EXCEPT !.score = r.previous, !.uci = r.previous, !.previous = -Infinite,
                    !.pv = r.previousPV, !.lower = FALSE, !.upper = FALSE]
     ELSE IF IsLoss(above.score)
     THEN [r EXCEPT !.score = above.score, !.uci = above.score, !.previous = -Infinite,
                    !.pv = NoLine, !.upper = TRUE, !.lower = FALSE]
     ELSE [r EXCEPT !.upper = FALSE, !.lower = TRUE]

\* Mutant of Guarded: the lines after the aborted one are believed.
GuardedOneLine(s) ==
  [i \in DOMAIN s |-> IF i = pvIdx /\ IsSuspect(s) THEN Mistrusted(s) ELSE s[i]]

\* A stopped search has no say on losses, its own or those of the lines above.
Guarded(s) ==
  [i \in DOMAIN s |->
     CASE i = pvIdx /\ IsSuspect(s) -> Mistrusted(s)
       [] i > pvIdx /\ i <= MultiPV /\ IsExactLoss(s[i]) -> [s[i] EXCEPT !.lower = TRUE]
       [] OTHER -> s[i]]

\* The search is stopped, or within its window.
EndLine ==
  /\ pc = "judge" /\ (stop \/ (best > alpha /\ best < beta))
  /\ rm' = Sorted(IF stop /\ pvIdx > 1 THEN Guarded(rm) ELSE rm, 1, pvIdx)
  /\ alpha' = 0 /\ beta' = 0 /\ delta' = 0 /\ best' = 0
  /\ pc' = "show"
  /\ UNCHANGED <<limits, rootDepth, pvIdx, last, uciPvSent, shown, stop, flags, cut>>

\* After NODES_LIMIT_OUTPUT nodes every line is shown, before that the last.
ShowLine ==
  /\ pc = "show"
  /\ IF limits.main /\ ~stop /\ (pvIdx = MultiPV \/ rootDepth > QuietDepth)
     THEN shown' = Lines(rm) /\ uciPvSent' = (pvIdx = MultiPV)
     ELSE UNCHANGED <<shown, uciPvSent>>
  /\ pc' = "next"
  /\ UNCHANGED <<limits, rootDepth, pvIdx, rm, window, best, last, stop, flags, cut>>

NextLine ==
  /\ pc = "next" /\ ~stop /\ pvIdx < MultiPV
  /\ StartLine(pvIdx + 1, rootDepth)
  /\ UNCHANGED <<limits, rootDepth, rm, best, last, uciPvSent, shown, stop, flags, cut>>

LastLine ==
  /\ pc = "next" /\ (stop \/ pvIdx = MultiPV)
  /\ pvIdx' = IF stop THEN pvIdx ELSE pvIdx + 1
  /\ pc' = "end"
  /\ UNCHANGED <<limits, rootDepth, rm, window, best, last, uciPvSent, shown, stop, flags, cut>>

--------------------------------------------------------------------------------
(* The end of an iteration *)

AbsVal(v) == IF v < 0 THEN -v ELSE v

ForgottenMate ==
  /\ last.score # -Infinite /\ IsDecisive(last.score)
  /\ AbsVal(rm[1].score) < AbsVal(last.score) \/ IsBound(rm[1])

AbortedLossSearch == stop /\ pvIdx = 1 /\ IsExactLoss(rm[1])

\* An iteration that was not stopped gives the best move, unless it forgot a mate.
LastBest ==
  IF stop \/ ForgottenMate THEN last
  ELSE [move |-> rm[1].move, score |-> rm[1].score, pv |-> rm[1].pv]

\* An exact loss of a search that was stopped, or a mate that was forgotten.
Mistaken == AbortedLossSearch \/ (rm[1].score # -Infinite /\ ForgottenMate)

\* The last best move b is brought back with its score and its line.
Restored(r, b) == [r EXCEPT !.score = b.score, !.uci = b.score, !.pv = b.pv,
                            !.lower = FALSE, !.upper = FALSE]

RolledBack(b) ==
  LET i == CHOOSE j \in DOMAIN rm : rm[j].move = b.move
  IN [MovedToFront(rm, i) EXCEPT ![1] = Restored(@, b)]

\* A mate within limits.mate ends the search.
MateFound(s) ==
  limits.mate # 0 /\ IsDecisive(s[1].score) /\ AbsVal(s[1].score) >= limits.mate

\* Nothing more is to be found by searching on.
NothingBetter(s) == s[MultiPV].score >= MateIn3 \/ s[1].score = MatedIn2

\* late stands for the clock.  When stop is raised in here, it is as if it were
\* right after: what was decided without it stands.
EndIteration ==
  /\ pc = "end"
  /\ last' = LastBest
  /\ rm' = IF Mistaken /\ LastBest.pv # NoLine THEN RolledBack(LastBest)
           ELSE IF AbortedLossSearch THEN [rm EXCEPT ![1].lower = TRUE] ELSE rm
  /\ uciPvSent' = SentYet(Mistaken /\ LastBest.pv # NoLine)
  /\ \E late \in BOOLEAN :
       LET found == stop \/ MateFound(rm')
           judges == limits.main /\ limits.timed /\ ~found /\ ~stopOnPonderhit
           enough == judges /\ (late \/ NothingBetter(rm'))
       IN /\ stop' = (found \/ (judges /\ Len(rm) = 1) \/ (enough /\ ~ponder))
          /\ stopOnPonderhit' = (stopOnPonderhit \/ (enough /\ ponder))
  /\ pc' = "iterate"
  /\ UNCHANGED <<limits, rootDepth, pvIdx, window, best, shown, ponder, cut>>

--------------------------------------------------------------------------------
(* Others: the GUI, the other threads and check_time() *)

Stop ==
  /\ pc # "done" /\ ~stop
  /\ stop' = TRUE
  /\ UNCHANGED <<limits, rootDepth, pvIdx, rm, window, best, last, uciPvSent, shown, flags,
                 cut, pc>>

Ponderhit ==
  /\ pc # "done" /\ ponder
  /\ ponder' = FALSE
  /\ UNCHANGED <<limits, rootDepth, pvIdx, rm, window, best, last, uciPvSent, shown, stop,
                 stopOnPonderhit, cut, pc>>

DeepeningNext ==
  \/ Iterate \/ EndLoop \/ Search \/ Pruned \/ FailLow \/ FailHigh
  \/ EndLine \/ ShowLine \/ NextLine \/ LastLine \/ EndIteration
  \/ Stop \/ Ponderhit

DeepeningSpec == DeepeningInit /\ [][DeepeningNext]_deepeningVars

--------------------------------------------------------------------------------
(* Properties *)

Ended == pc = "done"

\* When the main thread returns and says the lines it sent are the final ones,
\* they are those of its root moves, each with its value: nothing was sorted,
\* rolled back or restored since (uciPvSent; else the GUI would never see the
\* line of bestmove).  Of a bound they say nothing, see ShownAsIs.
ShownIsFinal ==
  Ended /\ limits.main /\ uciPvSent =>
    [i \in DOMAIN shown |-> SubSeq(shown[i], 1, 3)] =
    [i \in 1..MultiPV |-> SubSeq(Lines(rm)[i], 1, 3)]

\* The same with the bounds: this does not hold.  When stop is raised just after
\* the lines of the first iteration were shown, the best one is taken for aborted
\* and a loss marked as a bound that the GUI was told is exact.
ShownAsIs == Ended /\ limits.main /\ uciPvSent => shown = Lines(rm)

\* A mate that an iteration proved is not lost by later ones: the best move has
\* that score or a shorter mate, and not as a bound.
MateIsKept ==
  pc \in {"iterate", "done"} /\ IsDecisive(last.score) /\ last.pv # NoLine =>
    AbsVal(rm[1].score) >= AbsVal(last.score) /\ ~IsBound(rm[1])

\* A score without a bound comes with the line that proves it, through every
\* sort, restoration and roll back.
ScoreHasItsLine ==
  Ended => \A i \in 1..MultiPV :
             LET r == rm[i]
             IN /\ r.score # -Infinite /\ ~IsBound(r) => r.pv.value = r.score
                /\ r.score = -Infinite /\ r.exact /\ r.previous # -Infinite =>
                     r.previousPV.value = r.previous

FromTheCutSearch(r) == cut /\ r.pv.at = <<rootDepth, pvIdx>>

\* A search that was cut short leaves no exact loss behind in the lines from its
\* own on, or, if it was the first, in the best one.
UnprovenLossesAreBounds ==
  Ended => \A i \in 1..MultiPV :
             (pvIdx > 1 \/ i = 1) /\ IsExactLoss(rm[i]) => ~FromTheCutSearch(rm[i])

\* What is reported in the end has been searched for, and is the best that was.
LinesAreSound == ScoreHasItsLine /\ UnprovenLossesAreBounds /\ MateIsKept

\* Lines proved lost in this iteration are not overtaken by one that was stopped.
LossesKeepTheirPlace ==
  [][pc = "judge" /\ stop =>
       \A k \in 1..(pvIdx - 1) : IsLoss(rm[k].score) => rm'[k] = rm[k]]_deepeningVars

\* No exact loss of an aborted search in any line: this does not hold.  When the first line is aborted with a
\* loss and the last best move is brought back, the move it replaces keeps its
\* exact loss in the second line.
AbortedLossesAreBounds ==
  Ended => \A i \in 1..MultiPV : IsExactLoss(rm[i]) => ~FromTheCutSearch(rm[i])
=============================================================================
