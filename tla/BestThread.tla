------------------------------- MODULE BestThread -------------------------------
(***************************************************************************)
(* ThreadPool::get_best_thread(): the threads of a finished search vote on  *)
(* the move to play, each for the first move of its first line.  The three *)
(* loops over the threads are the steps of this module.                    *)
(***************************************************************************)
EXTENDS SearchValues

CONSTANTS
  N,      \* the number of threads, the main thread first
  Moves,  \* root moves
  line    \* what each thread found: its rootMoves[0]

VARIABLES loop, th, minScore, votes, best

bestVars == <<loop, th, minScore, votes, best>>

Threads == 1 .. N

\* A thread that found nothing has the score -VALUE_INFINITE.
Line == [move : Moves, score : Int, bound : BOOLEAN, length : Nat]
Finished ==
  /\ N \in Nat \ {0}
  /\ line \in [Threads -> Line]
  /\ \A t \in Threads : -VALUE_INFINITE <= line[t].score /\ line[t].score <= VALUE_INFINITE

\* Aborted searches may lead to inexact win or loss scores.
Decisive(t) ==
  /\ line[t].score # -VALUE_INFINITE
  /\ is_win(line[t].score) \/ is_loss(line[t].score)
  /\ ~line[t].bound

BestInit ==
  /\ loop = "min" /\ th = 1
  /\ minScore = VALUE_INFINITE
  /\ votes = [m \in Moves |-> 0]
  /\ best = 1

\* The next thread, or the next loop.
Advance(next) ==
  IF th < N THEN th' = th + 1 /\ UNCHANGED loop ELSE th' = 1 /\ loop' = next

\* The lowest score, so that no vote counts less than 14.
FindMin ==
  /\ loop = "min"
  /\ minScore' = IF line[th].score < minScore THEN line[th].score ELSE minScore
  /\ Advance("vote")
  /\ UNCHANGED <<votes, best>>

\* Vote according to score.
Vote ==
  /\ loop = "vote"
  /\ votes' = [votes EXCEPT ![line[th].move] = @ + (line[th].score - minScore + 14)]
  /\ Advance("choose")
  /\ UNCHANGED <<minScore, best>>

\* The shortest mate among those that are exact.
Shorter(t, b) == Decisive(t) /\ Abs(line[t].score) > Abs(line[b].score)

\* The more votes, and the longer line for the same votes.
Outvotes(t, b) ==
  LET tv == votes[line[t].move]
      bv == votes[line[b].move]
  IN tv > bv \/ (tv = bv /\ line[t].length > line[b].length)

\* Is a thread better than the best so far?
Better(t, b) ==
  IF Decisive(b) THEN Shorter(t, b)
  ELSE Decisive(t) \/ (~is_loss(line[t].score) /\ Outvotes(t, b))

Choose ==
  /\ loop = "choose"
  /\ best' = IF Better(th, best) THEN th ELSE best
  /\ Advance("done")
  /\ UNCHANGED <<minScore, votes>>

BestNext == FindMin \/ Vote \/ Choose

BestSpec == BestInit /\ [][BestNext]_bestVars

-----------------------------------------------------------------------------

\* A mate or table win that some thread has proved is played, the shortest of those proved,
\* whatever was voted: no number of votes for a quiet move outweighs it.
ProvedMatesWin ==
  loop = "done" => \A t \in Threads : Decisive(t) =>
    Decisive(best) /\ Abs(line[t].score) <= Abs(line[best].score)

\* Otherwise the move is one with the most votes of those that lose for nobody, and a losing
\* bound is played only for the main thread, when nobody outvotes it.
MostVotesWin ==
  loop = "done" /\ ~Decisive(best) =>
    /\ \A t \in Threads : ~is_loss(line[t].score) => ~Outvotes(t, best)
    /\ is_loss(line[best].score) => best = 1

\* Every move that is voted for has at least the 14 of one vote: votes cannot cancel out.
VotesCount ==
  loop \in {"choose", "done"} => \A t \in Threads : votes[line[t].move] >= 14
================================================================================
