----------------------------- MODULE SearchPool -----------------------------
(***************************************************************************)
(* The life of a search: the UCI thread (uci.cpp, engine.cpp, the          *)
(* ThreadPool of thread.cpp), the main search thread and its helpers       *)
(* (Search::Worker of search.cpp), the flags they share without a lock     *)
(* (stop, ponder, stopOnPonderhit) and the objects they hand over (limits, *)
(* root moves, the list of StateInfo).  The threads themselves are the     *)
(* Thread objects of WorkerThread.                                         *)
(*                                                                         *)
(* Each command of the GUI is an action, which makes the first blocking    *)
(* call of its handler; ui.loc is the next statement of the handler and is *)
(* reached when the call returned, ui.at the index of its loop over the    *)
(* pool.  `search' is the same for Worker::start_searching() in the main   *)
(* thread.  The tree search is left out: an iteration ends when it likes,  *)
(* and what it found shows only in the decisions it leads to.              *)
(***************************************************************************)
EXTENDS Integers, FiniteSets

CONSTANTS
  MaxThreads,  \* the largest value of the option Threads
  UI,          \* the UCI thread
  NoJob,       \* an empty std::function
  Limits,      \* what a go command may ask for
  Roots,       \* how many root moves a position may have, cut at 2
  Commands,    \* the commands the GUI sends
  Polite,      \* the GUI sends no blocking command during an endless search
  Spurious     \* condition variables wake up for no reason, too

Job == {"create", "clear", "ttclear", "setup", "search"}

ASSUME PoolAssumption ==
  /\ MaxThreads \in Nat \ {0}
  /\ UI \notin Int
  /\ NoJob \notin Job
  /\ Limits \subseteq [ponder : BOOLEAN, infinite : BOOLEAN, tm : BOOLEAN,
                       budget : BOOLEAN, depth : BOOLEAN, mate : BOOLEAN]
  /\ Roots \subseteq 0 .. 2
  /\ Commands \subseteq {"stop", "ponderhit", "position", "go", "ucinewgame",
                         "Hash", "EvalFile", "Threads", "quit"}
  /\ Polite \in BOOLEAN
  /\ Spurious \in BOOLEAN

Thread == 0 .. MaxThreads - 1
Main == 0
Helper == Thread \ {Main}

\* The lists of StateInfo; 0 is the null pointer.  Two are in use at most, and
\* the third is the one set_position() allocates before it frees the old one.
Deque == 0 .. 3

VARIABLES own, searching, exit, jobFunc, job, cv, call,  \* see WorkerThread
  ui,               \* the UCI thread: [loc, at, cmd]
  want,             \* the option Threads
  goal,             \* start_thinking()'s limits and rootMoves
  size,             \* threads.size()
  stop, ponder, stopOnPonderhit,
  states,           \* Engine::states
  setupStates,      \* ThreadPool::setupStates
  built,            \* built[t]: Thread::worker is not null
  worker,           \* worker[t]: the worker's limits, rootMoves and rootState
  search,           \* the main thread in start_searching(): [loc, at]
  late,             \* the time or the nodes of the search have run out
  told              \* the GUI has said stop or quit during this search

threadVars == <<own, searching, exit, jobFunc, job, cv, call>>
flags == <<stop, ponder, stopOnPonderhit>>
lists == <<states, setupStates>>
vars == <<threadVars, ui, want, goal, size, flags, lists, built, worker, search, late, told>>

T == INSTANCE WorkerThread WITH Client <- {UI, Main}

NoLimits == [ponder |-> FALSE, infinite |-> FALSE, tm |-> FALSE,
             budget |-> FALSE, depth |-> FALSE, mate |-> FALSE]

\* The local variables of start_thinking() while it does not run.
NoGoal == [limits |-> NoLimits, roots |-> 0]

UiLoc == {"read", "reset", "setup", "setupWait", "start", "ttClear", "ttClearWait",
          "poolClear", "poolClearWait", "helpersWait", "mainWait", "destroy", "create",
          "ctorWait", "ctorRun", "ctorRunWait", "created", "setDone", "hashWait", "exited"}

Handler == [loc : UiLoc, at : 0 .. MaxThreads,
            cmd : {"go", "newgame", "hash", "net", "resize", "quit"}]

Goal == [limits : Limits \cup {NoLimits}, roots : 0 .. 2]

Worker == [limits : Limits \cup {NoLimits}, roots : 0 .. 2, list : Deque]

SearchState == [loc : {"off", "launch", "iterate", "hold", "join", "best"},
                at : 0 .. MaxThreads]

TypeOK ==
  /\ T!TypeOK
  /\ ui \in Handler
  /\ want \in 1 .. MaxThreads
  /\ goal \in Goal
  /\ size \in 0 .. MaxThreads
  /\ stop \in BOOLEAN /\ ponder \in BOOLEAN /\ stopOnPonderhit \in BOOLEAN
  /\ states \in Deque /\ setupStates \in Deque
  /\ built \in [Thread -> BOOLEAN]
  /\ worker \in [Thread -> Worker]
  /\ search \in SearchState
  /\ late \in BOOLEAN /\ told \in BOOLEAN

\* Engine::Engine(): a first list of states, and resize_threads() on an empty
\* pool, which comes down to creating its threads: one, the default, or as
\* many as a setoption that came before the first go has asked for.
Init ==
  /\ T!Init
  /\ ui = [loc |-> "create", at |-> 0, cmd |-> "resize"]
  /\ want \in 1 .. MaxThreads
  /\ goal = NoGoal
  /\ size = 0
  /\ stop = FALSE /\ ponder = FALSE /\ stopOnPonderhit = FALSE
  /\ states = 1 /\ setupStates = 0
  /\ built = [t \in Thread |-> FALSE]
  /\ worker = [t \in Thread |-> [limits |-> NoLimits, roots |-> 0, list |-> 0]]
  /\ search = [loc |-> "off", at |-> 0]
  /\ late = FALSE /\ told = FALSE

-----------------------------------------------------------------------------
(***************************************************************************)
(* What the GUI can tell about the search.                                 *)
(***************************************************************************)
Posted(j, t) ==
  /\ ~exit[t]
  /\ \/ job[t] = j
     \/ jobFunc[t] = j
     \/ \E p \in {UI, Main} : call[p].op = "run" /\ call[p].on = t /\ call[p].job = j

InSetup == ui.loc \in {"setup", "setupWait"}

Thinking == InSetup \/ ui.loc = "start" \/ Posted("search", Main)

Current == IF InSetup THEN goal ELSE [limits |-> worker[Main].limits, roots |-> worker[Main].roots]

Held == Thinking /\ ~told /\ (ponder \/ Current.limits.infinite)

Forced == Thinking /\ (Current.roots < 2 \/ Current.limits.mate)

Bounded ==
  /\ Thinking
  /\ told \/ Current.limits.tm \/ Current.limits.budget \/ Current.limits.depth

Uci == INSTANCE UciProtocol
         WITH thinking <- Thinking, held <- Held, forced <- Forced, bounded <- Bounded

-----------------------------------------------------------------------------
(***************************************************************************)
(* The UCI thread: UCIEngine::loop().                                      *)
(***************************************************************************)
At(l) == ui.loc = l /\ T!Free(UI)

Read(c) == At("read") /\ c \in Commands

Goto(l, i) == ui' = [ui EXCEPT !.loc = l, !.at = i]

Handle(c, l, i) == ui' = [loc |-> l, at |-> i, cmd |-> c]

\* A loop over the pool at statement l, with one call for each thread.
ForEach(l, Do(_), next) ==
  /\ At(l)
  /\ \/ ui.at < size /\ Do(ui.at) /\ Goto(l, ui.at + 1)
     \/ ui.at = size /\ Goto(next, 0) /\ UNCHANGED threadVars

RunJob(j, t) == T!CallRun(UI, t, j)

WaitFor(t) == T!CallWait(UI, t)

ElseUnchanged == UNCHANGED <<goal, size, flags, lists, built, worker, search, late, told>>

\* A GUI that knows the protocol sends a command whose handler waits for the
\* search only when it has stopped the search or the search has a limit.
Patient == Polite /\ Thinking => ~Held /\ Bounded

\* The token "stop".
Stop ==
  /\ Read("stop")
  /\ stop' = TRUE
  /\ told' = Thinking
  /\ UNCHANGED <<threadVars, ui, want, goal, size, ponder, stopOnPonderhit, lists,
                 built, worker, search, late>>

\* The token "ponderhit".
Ponderhit ==
  /\ Read("ponderhit")
  /\ ponder' = FALSE
  /\ UNCHANGED <<threadVars, ui, want, goal, size, stop, stopOnPonderhit, lists,
                 built, worker, search, late, told>>

\* The token "position": Engine::set_position() does not wait for the search.
SetPosition ==
  /\ Read("position")
  /\ states' = CHOOSE d \in Deque : d \notin {0, states, setupStates}
  /\ UNCHANGED <<threadVars, ui, want, goal, size, flags, setupStates,
                 built, worker, search, late, told>>

\* Mutant of Go: start_thinking() does not wait for the search before.
GoAtOnce ==
  /\ Read("go") /\ Patient
  /\ \E l \in Limits, r \in Roots : goal' = [limits |-> l, roots |-> r]
  /\ Handle("go", "reset", 0)
  /\ UNCHANGED <<threadVars, want, size, flags, lists, built, worker, search, late, told>>

\* The token "go", as far as the first wait of ThreadPool::start_thinking().
Go ==
  /\ Read("go") /\ Patient
  /\ \E l \in Limits, r \in Roots : goal' = [limits |-> l, roots |-> r]
  /\ WaitFor(Main)
  /\ Handle("go", "reset", 0)
  /\ UNCHANGED <<want, size, flags, lists, built, worker, search, late, told>>

\* Mutant of NewGame: search_clear() does not wait.
NewGameAtOnce ==
  /\ Read("ucinewgame") /\ Patient
  /\ Handle("newgame", "ttClear", 0)
  /\ UNCHANGED <<threadVars, want>> /\ ElseUnchanged

\* The token "ucinewgame": Engine::search_clear() waits, then clears the table.
NewGame ==
  /\ Read("ucinewgame") /\ Patient
  /\ WaitFor(Main)
  /\ Handle("newgame", "ttClear", 0)
  /\ UNCHANGED want /\ ElseUnchanged

\* "setoption": UCIEngine::setoption() waits, then the option's on_change runs.
SetHash ==
  /\ Read("Hash") /\ Patient
  /\ WaitFor(Main)
  /\ Handle("hash", "hashWait", 0)
  /\ UNCHANGED want /\ ElseUnchanged

SetEvalFile ==
  /\ Read("EvalFile") /\ Patient
  /\ WaitFor(Main)
  /\ Handle("net", "poolClear", 0)
  /\ UNCHANGED want /\ ElseUnchanged

\* Mutant of SetThreads: setoption() does not wait.
SetThreadsAtOnce ==
  /\ Read("Threads") /\ Patient
  /\ want' \in 1 .. MaxThreads
  /\ Handle("resize", "helpersWait", 1)
  /\ UNCHANGED threadVars /\ ElseUnchanged

\* The value is the one of the command; the option is written after the wait,
\* and read when the threads are created.
SetThreads ==
  /\ Read("Threads") /\ Patient
  /\ want' \in 1 .. MaxThreads
  /\ WaitFor(Main)
  /\ Handle("resize", "helpersWait", 1)
  /\ ElseUnchanged

\* Mutant of Quit: without engine.stop().
QuitOnly ==
  /\ Read("quit")
  /\ WaitFor(Main)
  /\ Handle("quit", "mainWait", 0)
  /\ UNCHANGED want /\ ElseUnchanged

\* "quit", or the end of the input: engine.stop(), and ~Engine() waits.
Quit ==
  /\ Read("quit")
  /\ stop' = TRUE
  /\ told' = Thinking
  /\ WaitFor(Main)
  /\ Handle("quit", "mainWait", 0)
  /\ UNCHANGED <<want, goal, size, ponder, stopOnPonderhit, lists, built, worker, search, late>>

Command == \/ Stop \/ Ponderhit \/ SetPosition \/ Go \/ NewGame
           \/ SetHash \/ SetEvalFile \/ SetThreads \/ Quit

\* start_thinking() after its wait: the flags, then the list of states.
Reset ==
  /\ At("reset")
  /\ stop' = FALSE
  /\ stopOnPonderhit' = FALSE
  /\ ponder' = goal.limits.ponder
  /\ setupStates' = IF states # 0 THEN states ELSE setupStates
  /\ states' = 0
  /\ late' = FALSE
  /\ told' = FALSE
  /\ Goto("setup", 0)
  /\ UNCHANGED <<threadVars, want, goal, size, built, worker, search>>

\* Mutant of SetUpWorkers: the jobs are posted and not waited for.
SetUpWorkersOnly ==
  /\ ForEach("setup", LAMBDA t : RunJob("setup", t), "start")
  /\ UNCHANGED want /\ ElseUnchanged

\* start_thinking() copies the search into every worker, waits for the copies
\* and starts the main thread.
SetUpWorkers ==
  /\ \/ ForEach("setup", LAMBDA t : RunJob("setup", t), "setupWait")
     \/ ForEach("setupWait", WaitFor, "start")
  /\ UNCHANGED want /\ ElseUnchanged

StartMain ==
  /\ At("start")
  /\ RunJob("search", Main)
  /\ Goto("read", 0)
  /\ goal' = NoGoal
  /\ UNCHANGED <<want, size, flags, lists, built, worker, search, late, told>>

\* TranspositionTable::clear(), and what its caller does next.
ClearTable ==
  /\ \/ ForEach("ttClear", LAMBDA t : RunJob("ttclear", t), "ttClearWait")
     \/ ForEach("ttClearWait", WaitFor, IF ui.cmd = "newgame" THEN "poolClear" ELSE "read")
  /\ UNCHANGED want /\ ElseUnchanged

\* ThreadPool::clear(), and what its caller does next.
ClearPool ==
  /\ \/ ForEach("poolClear", LAMBDA t : RunJob("clear", t), "poolClearWait")
     \/ ForEach("poolClearWait", WaitFor, IF ui.cmd = "resize" THEN "setDone" ELSE "read")
  /\ UNCHANGED want /\ ElseUnchanged

\* Engine::resize_threads() waits for the helpers, ThreadPool::set() and the
\* destructor of the pool for the main thread.
WaitBeforeDestroy ==
  /\ \/ ForEach("helpersWait", WaitFor, "mainWait")
     \/ At("mainWait") /\ WaitFor(Main) /\ Goto("destroy", 0)
  /\ UNCHANGED want /\ ElseUnchanged

\* threads.clear(): the destructors, one thread after the other.
DestroyThreads ==
  /\ At("destroy")
  /\ \/ /\ ui.at < size
        /\ T!Destroy(UI, ui.at, "search")
        /\ Goto("destroy", ui.at + 1)
        /\ UNCHANGED <<size, built>>
     \/ /\ ui.at = size
        /\ size' = 0
        /\ built' = [t \in Thread |-> FALSE]
        /\ Goto(IF ui.cmd = "quit" THEN "exited" ELSE "create", 0)
        /\ UNCHANGED threadVars
  /\ UNCHANGED <<want, goal, flags, lists, worker, search, late, told>>

\* ThreadPool::set(): the constructors of the wanted threads, each of which
\* waits for the thread to park, has it create its worker and waits again.
CreateThreads ==
  /\ \/ At("create") /\ size < want /\ T!Construct(UI, size) /\ Goto("ctorWait", 0)
     \/ At("create") /\ size = want /\ Goto("poolClear", 0) /\ UNCHANGED threadVars
     \/ At("ctorWait") /\ WaitFor(size) /\ Goto("ctorRun", 0)
     \/ At("ctorRun") /\ RunJob("create", size) /\ Goto("ctorRunWait", 0)
     \/ At("ctorRunWait") /\ WaitFor(size) /\ Goto("created", 0)
     \/ At("created") /\ Goto("create", 0) /\ UNCHANGED threadVars
  /\ size' = IF At("created") THEN size + 1 ELSE size
  /\ UNCHANGED <<want, goal, flags, lists, built, worker, search, late, told>>

\* The last wait of ThreadPool::set() and the wait of Engine::set_tt_size().
WaitBeforeHash ==
  /\ \/ At("setDone") /\ WaitFor(Main) /\ Goto("hashWait", 0)
     \/ At("hashWait") /\ WaitFor(Main) /\ Goto("ttClear", 0)
  /\ UNCHANGED want /\ ElseUnchanged

UiStep == \/ Reset \/ SetUpWorkers \/ StartMain \/ ClearTable \/ ClearPool
          \/ WaitBeforeDestroy \/ DestroyThreads \/ CreateThreads \/ WaitBeforeHash

-----------------------------------------------------------------------------
(***************************************************************************)
(* The jobs.                                                               *)
(***************************************************************************)
Busy(t, j) == own[t] = "busy" /\ job[t] = j

UiUnchanged == UNCHANGED <<ui, want, goal, size, lists>>

\* The Thread constructor's job: the worker exists from now on.
CreateWorker(t) ==
  /\ Busy(t, "create")
  /\ built' = [built EXCEPT ![t] = TRUE]
  /\ T!FinishJob(t)
  /\ UiUnchanged /\ UNCHANGED <<flags, worker, search, late, told>>

\* start_thinking()'s job: the worker's own copy of the search.
SetUpWorker(t) ==
  /\ Busy(t, "setup")
  /\ worker' = [worker EXCEPT ![t] =
                  [limits |-> goal.limits, roots |-> goal.roots, list |-> setupStates]]
  /\ T!FinishJob(t)
  /\ UiUnchanged /\ UNCHANGED <<flags, built, search, late, told>>

\* Worker::clear(), or a thread's share of TranspositionTable::clear().
Clear(t) ==
  /\ Busy(t, "clear") \/ Busy(t, "ttclear")
  /\ T!FinishJob(t)
  /\ UiUnchanged /\ UNCHANGED <<flags, built, worker, search, late, told>>

MainAt(l) == Busy(Main, "search") /\ search.loc = l /\ T!Free(Main)

MainGoto(l, i) == search' = [loc |-> l, at |-> i]

MainUnchanged == UiUnchanged /\ UNCHANGED <<built, worker, late, told>>

\* The bestmove is printed and the job of the main thread is done.
PrintBestmove ==
  /\ T!FinishJob(Main)
  /\ MainGoto("off", 0)
  /\ late' = FALSE
  /\ told' = FALSE
  /\ UiUnchanged /\ UNCHANGED <<built, worker, flags>>

MyLimits == worker[Main].limits

\* start_searching() of the main thread: without a move to choose from the
\* (empty) bestmove is printed at once, or else the helpers are started.
BeginSearch ==
  /\ MainAt("off")
  /\ \/ worker[Main].roots = 0 /\ PrintBestmove
     \/ /\ worker[Main].roots > 0
        /\ MainGoto("launch", 1)
        /\ UNCHANGED <<threadVars, flags>> /\ MainUnchanged

\* ThreadPool::start_searching() and, at the end, wait_for_search_finished().
ForEachHelper(l, Do(_), next) ==
  /\ MainAt(l)
  /\ \/ search.at < size /\ Do(search.at) /\ MainGoto(l, search.at + 1)
     \/ search.at = size /\ MainGoto(next, 0) /\ UNCHANGED threadVars
  /\ MainUnchanged /\ UNCHANGED flags

LaunchHelpers == ForEachHelper("launch", LAMBDA t : T!CallRun(Main, t, "search"), "iterate")

\* Mutant of JoinHelpers: the helpers are not waited for.
JoinNobody ==
  /\ MainAt("join")
  /\ MainGoto("best", 0)
  /\ UNCHANGED <<threadVars, flags>> /\ MainUnchanged

JoinHelpers == ForEachHelper("join", LAMBDA t : T!CallWait(Main, t), "best")

\* SearchManager::check_time() at a node of the main thread's search.
CheckTime ==
  /\ MainAt("iterate")
  /\ ~ponder
  /\ \/ MyLimits.tm /\ (late \/ stopOnPonderhit)
     \/ MyLimits.budget /\ late
  /\ stop' = TRUE
  /\ UNCHANGED <<threadVars, search, ponder, stopOnPonderhit>> /\ MainUnchanged

\* The aspiration window failed low: there is something to think about.
FailLow ==
  /\ MainAt("iterate")
  /\ ~stop
  /\ stopOnPonderhit' = FALSE
  /\ UNCHANGED <<threadVars, search, stop, ponder>> /\ MainUnchanged

\* A mate within the limit was found after a completed iteration.
MateFound(t) ==
  /\ Busy(t, "search") /\ (t = Main => MainAt("iterate"))
  /\ worker[t].limits.mate
  /\ ~stop
  /\ stop' = TRUE
  /\ UNCHANGED <<threadVars, search, ponder, stopOnPonderhit>> /\ MainUnchanged

\* The end of an iteration under time management: a single root move stops
\* the search, and so does time spent beyond what was allotted, except that
\* a pondering search only remembers it.
AfterIteration ==
  /\ MainAt("iterate")
  /\ MyLimits.tm /\ ~stop /\ ~stopOnPonderhit
  /\ \E enough \in BOOLEAN :
       /\ stop' = (worker[Main].roots = 1 \/ (enough /\ ~ponder))
       /\ stopOnPonderhit' = (enough /\ ponder)
  /\ UNCHANGED <<threadVars, search, ponder>> /\ MainUnchanged

\* iterative_deepening() returns: the search was stopped, or the main thread
\* has reached the depth asked for, or the maximum depth.
LeaveIterations(why) ==
  /\ MainAt("iterate")
  /\ why
  /\ MainGoto("hold", 0)
  /\ UNCHANGED <<threadVars, flags>> /\ MainUnchanged

\* Mutants of Hold: without the busy wait, and with one that only ponderhit ends.
HoldNot ==
  /\ MainAt("hold")
  /\ stop' = TRUE
  /\ MainGoto("join", 1)
  /\ UNCHANGED <<threadVars, ponder, stopOnPonderhit>> /\ MainUnchanged

HoldForPonderhit ==
  /\ MainAt("hold")
  /\ ~(ponder \/ MyLimits.infinite)
  /\ stop' = TRUE
  /\ MainGoto("join", 1)
  /\ UNCHANGED <<threadVars, ponder, stopOnPonderhit>> /\ MainUnchanged

\* The busy wait for stop or ponderhit, and threads.stop = true after it.
Hold ==
  /\ MainAt("hold")
  /\ stop \/ ~(ponder \/ MyLimits.infinite)
  /\ stop' = TRUE
  /\ MainGoto("join", 1)
  /\ UNCHANGED <<threadVars, ponder, stopOnPonderhit>> /\ MainUnchanged

\* The best thread is chosen and its move printed.
Bestmove == MainAt("best") /\ PrintBestmove

\* A helper leaves its iterations because it was told to or, at the maximum
\* depth, by itself.
HelperFinish(t, why) ==
  /\ Busy(t, "search") /\ t # Main
  /\ why
  /\ T!FinishJob(t)
  /\ UNCHANGED <<flags, search>> /\ MainUnchanged

\* The clock.
TimeRunsOut ==
  /\ Thinking /\ ~InSetup
  /\ late' = TRUE
  /\ UNCHANGED <<threadVars, flags, search, built, worker, told>> /\ UiUnchanged

\* The steps of the Thread objects that touch nothing else.
ThreadStep(A) ==
  /\ A
  /\ UNCHANGED <<flags, search, built, worker, late, told>> /\ UiUnchanged

MainStep ==
  \/ BeginSearch \/ LaunchHelpers \/ CheckTime
  \/ LeaveIterations(stop) \/ LeaveIterations(MyLimits.depth)
  \/ Hold \/ JoinHelpers \/ Bestmove

JobStep(t) == CreateWorker(t) \/ SetUpWorker(t) \/ Clear(t) \/ HelperFinish(t, stop)

Exited == ui.loc = "exited" /\ UNCHANGED vars

Next ==
  \/ Command \/ UiStep
  \/ MainStep \/ FailLow \/ AfterIteration \/ LeaveIterations(TRUE)
  \/ \E t \in Thread : JobStep(t) \/ HelperFinish(t, TRUE) \/ MateFound(t)
  \/ \E p \in {UI, Main} : ThreadStep(T!ClientStep(p))
  \/ \E t \in Thread : ThreadStep(T!OwnerStep(t))
  \/ Spurious /\ \E t \in Thread : ThreadStep(T!SpuriousWake(t))
  \/ TimeRunsOut
  \/ Exited

Spec == Init /\ [][Next]_vars

\* The operating system runs every thread; a search notices threads.stop and
\* the end of its depth, its time and its nodes; the GUI owes nothing.
Fairness ==
  /\ WF_vars(UiStep)
  /\ WF_vars(MainStep)
  /\ WF_vars(TimeRunsOut)
  /\ \A t \in Thread : WF_vars(JobStep(t)) /\ WF_vars(ThreadStep(T!OwnerStep(t)))
  /\ \A p \in {UI, Main} : WF_vars(ThreadStep(T!ClientStep(p)))

FairSpec == Spec /\ Fairness

-----------------------------------------------------------------------------
\* The pool keeps the contract of its threads: the main search thread and the
\* UCI thread never have a call in flight on the same thread, nothing is asked
\* of a thread that does not exist, and only idle threads are destroyed.
KeepsThreadContract == T!Spec

\* The engine as the GUI sees it: one bestmove for each go, and none while the
\* search is held, save for the two cases UciProtocol calls forced.
KeepsProtocol == Uci!Spec

\* Histories, hash table, limits and root positions are only written by jobs
\* while no thread searches and no search is about to begin; and when the wait at
\* the head of a handler is over, and the UCI thread itself writes an option, the
\* flags and the list of the search, the memory of the table or the pool, none does.
QuietWhenWritten ==
  /\ TypeOK
  /\ \A t, u \in Thread :
       (\E j \in Job \ {"search"} : Posted(j, t)) => ~Posted("search", u)
  /\ ui.loc # "read" /\ T!Free(UI) => \A u \in Thread : ~Posted("search", u)

\* Every thread that searches works on the search of the last go: the limits
\* and root moves of the main thread, and a root state whose predecessors are
\* in the list the pool still owns.
SameSearch ==
  \A t \in Thread : Posted("search", t) =>
    /\ built[t]
    /\ worker[t] = worker[Main]
    /\ worker[t].list = setupStates
    /\ setupStates # 0

\* start_thinking()'s jobs capture its local variables by reference: they are
\* over before it goes on to start the main thread.
CapturesLive == \A t \in Thread : Posted("setup", t) => InSetup

\* The vote on the best thread reads root moves that no helper still writes.
VoteReadsFinishedHelpers ==
  search.loc = "best" => \A t \in 1 .. size - 1 : own[t] = "parked" /\ ~searching[t]

\* Once nothing holds a search back, and it has a limit, its bestmove comes.
AnswersGui == Uci!Answers

\* Every command of the GUI is carried out, and the UCI thread reads on.
HandlersReturn == (ui.loc # "read") ~> (ui.loc \in {"read", "exited"} /\ T!Free(UI))

-----------------------------------------------------------------------------
(***************************************************************************)
(* What comments of the code promise and the code does not keep (README,   *)
(* section 4).                                                             *)
(***************************************************************************)
\* HandlersReturn for "go" without a stop to come, which engine.h:65 declares a
\* non blocking call: the wait for an endless search before it never ends.
GoReturns == (ui.loc = "reset") ~> (ui.loc # "reset")

\* search.cpp:204: the best move is not printed before the GUI sends "stop" or
\* "ponderhit" while pondering or in an infinite search.  It is when there is no
\* legal move.
BestmoveAwaitsGui == [][Held => Thinking']_vars

\* search.cpp:569: a search that is allowed to ponder is not stopped by its own
\* time management but goes on until the GUI sends "ponderhit" or "stop".  With
\* one legal move it is stopped.
PonderingGoesOn == [][ponder /\ Thinking /\ ~told /\ ~stop /\ stop' => told']_vars
=============================================================================
