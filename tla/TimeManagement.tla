----------------------------- MODULE TimeManagement -----------------------------
(***************************************************************************)
(* The bounds that TimeManagement::init() sets for a move, the budget of   *)
(* `nodes as time', and SearchManager::check_time(), which counts its calls *)
(* down before it looks at the clock.                                      *)
(*                                                                         *)
(* The logarithms and powers that share the remaining time out are left    *)
(* open: what they may give is a whole number within the caps the code     *)
(* applies to them.  originalTimeAdjust is in hundredths.                  *)
(***************************************************************************)
EXTENDS SearchValues

CONSTANTS
  Commands,  \* the limits a "go" may state: records of Command
  Options,   \* the settings of the options it is read with: records of Setting
  MaxAdjust  \* the largest originalTimeAdjust

VARIABLES
  availableNodes, useNodesTime, optimumTime, maximumTime,  \* TimeManagement
  originalTimeAdjust, callsCnt, ponder, stopOnPonderhit,   \* SearchManager
  limits,     \* of the search; `fits' is history: its bounds came of defined conversions
  searching, stop,
  now, nodes, \* since the search began
  overdue     \* history: calls of check_time() since there was a reason to stop

tm == <<availableNodes, useNodesTime, optimumTime, maximumTime>>
vars == <<availableNodes, useNodesTime, optimumTime, maximumTime, originalTimeAdjust, callsCnt,
          ponder, stopOnPonderhit, limits, searching, stop, now, nodes, overdue>>

Larger(a, b) == IF a >= b THEN a ELSE b
Smaller(a, b) == IF a <= b THEN a ELSE b

\* What "go" and the options hold; `time' is of the side to move and may be negative.
Command == [time : Int, otherTime : Int, inc : Nat, movestogo : Nat, nodes : Nat, movetime : Nat,
            ponder : BOOLEAN]
Setting == [nodestime : Nat, overhead : Nat, ponder : BOOLEAN]

\* The constants: a node limit below 2^41, and at most 2^44 milliseconds to play with.
Bounded ==
  /\ Commands \subseteq Command
  /\ Options \subseteq Setting
  /\ \A go \in Commands : go.nodes \div 1024 <= 2147483647
  /\ MaxAdjust \in 0 .. 400

use_time_management(go) == go.time # 0 \/ go.otherTime # 0

NoLimits == [time |-> 0, inc |-> 0, npmsec |-> 0, nodes |-> 0, movetime |-> 0,
             managed |-> FALSE, fresh |-> FALSE, fits |-> TRUE]

\* ThreadPool::clear() has run when the engine takes its first command.
Init ==
  /\ availableNodes = -1 /\ useNodesTime = FALSE
  /\ optimumTime \in Int /\ maximumTime \in Int
  /\ originalTimeAdjust = -100 /\ callsCnt = 0
  /\ ponder = FALSE /\ stopOnPonderhit = FALSE
  /\ limits = NoLimits /\ searching = FALSE /\ stop = FALSE
  /\ now = 0 /\ nodes = 0 /\ overdue = 0

\* ThreadPool::clear()
NewGame ==
  /\ ~searching
  /\ availableNodes' = -1 /\ originalTimeAdjust' = -100 /\ callsCnt' = 0
  /\ UNCHANGED <<useNodesTime, optimumTime, maximumTime, ponder, stopOnPonderhit, limits,
                 searching, stop, now, nodes, overdue>>

-----------------------------------------------------------------------------
(* init().                                                                  *)

\* The budget in nodes, computed once in a game.
Budget(go, o) == IF availableNodes = -1 THEN o.nodestime * go.time ELSE availableNodes

\* What is left to play with, in milliseconds or in nodes, and what a move loses.
Clock(go, o) == IF o.nodestime # 0 THEN Budget(go, o) ELSE go.time
moveOverhead(o) == IF o.nodestime # 0 THEN o.overhead * o.nodestime ELSE o.overhead
scaledTime(go, o) == IF o.nodestime # 0 THEN Quotient(Clock(go, o), o.nodestime) ELSE Clock(go, o)

\* It is computed when it is negative, and there is no fixed number of moves.
Adjusted(go, adjust) ==
  IF go.movestogo = 0 /\ originalTimeAdjust < 0 THEN adjust ELSE originalTimeAdjust

\* The share of the clock that caps optScale * timeLeft.
Cap(go, o, adjust) ==
  IF go.movestogo # 0 THEN Quotient(22 * Clock(go, o), 25)
  ELSE IF adjust < 0 THEN 0
  ELSE Quotient(20577 * adjust * Clock(go, o), 10000000)

\* The logarithm of a clock that shows nothing is minus infinity, and times a negative
\* adjustment infinity, which no TimePoint holds.
Undefined(go, o, adjust) == go.movestogo = 0 /\ adjust < 0 /\ scaledTime(go, o) = 0

\* optimumTime before the bonus for pondering, and maximumTime after it.
IsOptimum(opt, go, o, adjust) ==
  \/ Undefined(go, o, adjust)
  \/ 1 <= opt /\ opt <= Larger(1, Cap(go, o, adjust))
IsMaximum(max, opt, go, o) ==
  opt <= max /\ max <= Larger(opt, Quotient(8237 * Clock(go, o), 10000) - moveOverhead(o))

\* There is no time for this side: the bounds of an earlier search stay.
InitUntimed(go) ==
  /\ go.time = 0
  /\ UNCHANGED <<availableNodes, optimumTime, maximumTime, originalTimeAdjust>>

InitTimed(go, o, adjust, opt, max) ==
  /\ go.time # 0
  /\ availableNodes' = IF o.nodestime # 0 THEN Budget(go, o) ELSE availableNodes
  /\ originalTimeAdjust' = Adjusted(go, adjust)
  /\ IsOptimum(opt, go, o, Adjusted(go, adjust))
  /\ IsMaximum(max, opt, go, o)
  /\ optimumTime' = IF o.ponder THEN opt + Quotient(opt, 4) ELSE opt
  /\ maximumTime' = max

\* ThreadPool::start_thinking() resets the flags, and the main thread calls init().
Start(go, o, adjust, opt, max) ==
  /\ ~searching
  /\ useNodesTime' = (o.nodestime # 0)
  /\ InitUntimed(go) \/ InitTimed(go, o, adjust, opt, max)
  /\ limits' = [time |-> IF go.time = 0 THEN 0 ELSE Clock(go, o),
                inc |-> go.inc * (IF go.time # 0 /\ o.nodestime # 0 THEN o.nodestime ELSE 1),
                npmsec |-> IF go.time = 0 THEN 0 ELSE o.nodestime,
                nodes |-> go.nodes, movetime |-> go.movetime,
                managed |-> use_time_management(go), fresh |-> go.time # 0,
                fits |-> go.time = 0 \/ ~Undefined(go, o, Adjusted(go, adjust))]
  /\ searching' = TRUE /\ stop' = FALSE
  /\ ponder' = go.ponder /\ stopOnPonderhit' = FALSE
  /\ now' = 0 /\ nodes' = 0 /\ overdue' = 0
  /\ UNCHANGED callsCnt

-----------------------------------------------------------------------------
(* During the search.                                                       *)

\* elapsed() counts nodes when nodes are time, even for "movetime".
elapsed == IF useNodesTime THEN nodes ELSE now

OutOfTime ==
  \/ limits.managed /\ (elapsed > maximumTime \/ stopOnPonderhit)
  \/ limits.movetime # 0 /\ elapsed >= limits.movetime
  \/ limits.nodes # 0 /\ nodes >= limits.nodes

\* Time passes and all the threads count nodes.
Work ==
  /\ searching
  /\ \E t \in Nat, n \in Nat : now' = now + t /\ nodes' = nodes + n
  /\ UNCHANGED <<tm, originalTimeAdjust, callsCnt, ponder, stopOnPonderhit, limits, searching, stop,
                 overdue>>

\* The next number of calls, not less often than every 0.1 % of the nodes.
Calls == IF limits.nodes # 0 THEN Smaller(512, limits.nodes \div 1024) ELSE 512

\* The call only counts.
CountDown ==
  /\ searching /\ callsCnt - 1 > 0
  /\ callsCnt' = callsCnt - 1
  /\ overdue' = IF OutOfTime /\ ~ponder /\ ~stop THEN overdue + 1 ELSE 0
  /\ UNCHANGED <<tm, originalTimeAdjust, ponder, stopOnPonderhit, limits, searching, stop, now, nodes>>

\* The call looks at the clock.
Look ==
  /\ searching /\ callsCnt - 1 <= 0
  /\ callsCnt' = Calls
  /\ stop' = (stop \/ (~ponder /\ OutOfTime))
  /\ overdue' = 0
  /\ UNCHANGED <<tm, originalTimeAdjust, ponder, stopOnPonderhit, limits, searching, now, nodes>>

\* An iteration ends with no need for another one: totalTime may be any share of the
\* optimum.  While pondering only a single root move ends the search.
IterationEnds ==
  /\ searching /\ limits.managed /\ ~stop /\ ~stopOnPonderhit
  /\ \/ stop' = TRUE /\ UNCHANGED stopOnPonderhit
     \/ ponder /\ stopOnPonderhit' = TRUE /\ stop' \in BOOLEAN
  /\ UNCHANGED <<tm, originalTimeAdjust, callsCnt, ponder, limits, searching, now, nodes, overdue>>

\* The best move failed low: it has to be searched again before any ponder hit.
FailLow ==
  /\ searching /\ stopOnPonderhit' = FALSE
  /\ UNCHANGED <<tm, originalTimeAdjust, callsCnt, ponder, limits, searching, stop, now, nodes, overdue>>

\* "ponderhit" and "stop" from the GUI.
PonderHit ==
  /\ ponder' = FALSE
  /\ UNCHANGED <<tm, originalTimeAdjust, callsCnt, stopOnPonderhit, limits, searching, stop, now,
                 nodes, overdue>>
StopCommand ==
  /\ stop' = TRUE
  /\ UNCHANGED <<tm, originalTimeAdjust, callsCnt, ponder, stopOnPonderhit, limits, searching, now,
                 nodes, overdue>>

\* The search is over and its nodes are charged, less the increment; not when there was
\* no move to search.
Finish ==
  /\ searching
  /\ searching' = FALSE
  /\ \/ /\ limits.npmsec # 0
        /\ availableNodes' = Larger(0, availableNodes - (nodes - limits.inc))
     \/ limits.npmsec = 0 /\ UNCHANGED availableNodes
     \/ nodes = 0 /\ UNCHANGED availableNodes
  /\ stop' = TRUE
  /\ UNCHANGED <<useNodesTime, optimumTime, maximumTime, originalTimeAdjust, callsCnt, ponder,
                 stopOnPonderhit, limits, now, nodes, overdue>>

Next ==
  \/ NewGame
  \/ \E go \in Commands, o \in Options, adjust \in -50 .. MaxAdjust, opt \in Int, max \in Int :
       Start(go, o, adjust, opt, max)
  \/ Work \/ CountDown \/ Look \/ IterationEnds \/ FailLow \/ PonderHit \/ StopCommand \/ Finish

Spec == Init /\ [][Next]_vars

-----------------------------------------------------------------------------

\* A move is given at least a millisecond or node, and at the most never more than the clock
\* shows, however the formulas come out: what init() set for this search is within it.  With
\* the option Ponder the optimum is raised last and may pass the maximum, and so the clock.
MoveFitsTheClock ==
  limits.fresh /\ limits.fits =>
    /\ 1 <= maximumTime /\ maximumTime <= Larger(1, limits.time)
    /\ 1 <= optimumTime /\ optimumTime <= maximumTime + maximumTime \div 4

\* The budget of a game in nodes as time never runs below nothing, nor back to the mark
\* for one not yet computed, which would fill it up again.
BudgetIsKept == availableNodes >= -1 /\ (searching /\ limits.npmsec # 0 => availableNodes >= 0)

\* A search that has used its time or its nodes up is stopped within 512 calls of check_time(),
\* with whatever the searches before left in callsCnt, which "go" does not reset.
StopsInTime == searching => overdue < 512
================================================================================
