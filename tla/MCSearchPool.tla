---------------------------- MODULE MCSearchPool ----------------------------
(***************************************************************************)
(* SearchPool on a small pool, with the kinds of go a GUI sends.           *)
(***************************************************************************)
EXTENDS SearchPool

TimedPonder == [NoLimits EXCEPT !.tm = TRUE, !.ponder = TRUE]
Infinite == [NoLimits EXCEPT !.infinite = TRUE]
DepthOrTime == [NoLimits EXCEPT !.depth = TRUE, !.budget = TRUE]
ForMate == [NoLimits EXCEPT !.mate = TRUE]

\* A search on the clock is one that pondered and was hit.
AllLimits == {TimedPonder, Infinite, DepthOrTime, ForMate}
HeldLimits == {TimedPonder, Infinite}
PonderLimits == {TimedPonder}
InfiniteLimits == {Infinite}

\* The commands that have a bearing on one search, and those that stop it,
\* take the pool to pieces and build it up again.
SearchCommands == {"stop", "ponderhit", "position", "go"}
PoolCommands == {"stop", "go", "ucinewgame", "Hash", "EvalFile", "Threads", "quit"}
=============================================================================
