--------------------------- MODULE SearchPoolProofs ---------------------------
(***************************************************************************)
(* For any number of threads, any limits a go command may carry and any    *)
(* sequence of commands: the pool keeps the contract of its threads, what  *)
(* a search reads is written while nobody searches, all the threads search *)
(* the same, the vote comes after the last helper, and the GUI sees one    *)
(* bestmove for each go and none before its time.                          *)
(*                                                                         *)
(* None of these is inductive.  Who may be searching follows from where    *)
(* the UCI thread is in its handlers and in its loops over the pool, from  *)
(* the call it is in, and from where the main thread is in its own loops.  *)
(* The invariant has three layers:                                         *)
(*  - Control: a thread is Settled when the loops and the waits that are   *)
(*    over say that it is done; settled threads are idle (SettledIsIdle),  *)
(*    and a job that is posted is the one the handler has come to and on a *)
(*    thread that is not settled (PostedIsWork).  It rests on what         *)
(*    WorkerThreadProofs shows of a thread and a call (TP!IInv), and every *)
(*    step of the pool is shown to be one that WorkerThread allows;        *)
(*  - DataInv: what the workers have been given, and by which jobs;        *)
(*  - StopIsJustified: why `stop' is up.                                   *)
(***************************************************************************)
EXTENDS SearchPool, TLAPS

TP == INSTANCE WorkerThreadProofs WITH Client <- {UI, Main}

-----------------------------------------------------------------------------
(***************************************************************************)
(* The inductive invariant.                                                *)
(***************************************************************************)
\* A thread that has nothing to do and waits for a job.
Idle(t) == own[t] = "parked" /\ ~searching[t]

Calling == call[UI].op # "none"

\* The calls of the loop over the pool that have returned.
Done == IF Calling THEN ui.at - 1 ELSE ui.at

WaitsForMain == call[UI].op = "wait" /\ call[UI].on = Main

\* The handlers that begin with a wait for the main thread.
FirstWait == {"reset", "ttClear", "poolClear", "helpersWait", "hashWait", "mainWait"}

SearchMayRun == ui.loc = "read" \/ (ui.loc \in FirstWait /\ WaitsForMain)

MainSearches == Busy(Main, "search")

Joined == IF call[Main].op = "none" THEN search.at ELSE search.at - 1

\* The helpers that are not part of the search, not yet or not any more.
Calm(u) ==
  \/ ~MainSearches
  \/ search.loc \in {"off", "best"}
  \/ search.loc = "launch" /\ u >= search.at
  \/ search.loc = "join" /\ u < Joined

PostLoop == {"setup", "ttClear", "poolClear", "destroy"}
WaitLoop == {"setupWait", "ttClearWait", "poolClearWait"}
Ctor == {"ctorWait", "ctorRun", "ctorRunWait", "created"}

\* The threads that are known to be idle.
Settled(t) ==
  \/ /\ t < size
     /\ SearchMayRun => t # Main /\ Calm(t)
     /\ ~SearchMayRun /\ ui.loc \in PostLoop => t >= ui.at
     /\ ui.loc \in WaitLoop => t < Done
  \/ t = size /\ ui.loc \in {"ctorRun", "created"} /\ ~Calling

\* The job that the others may have been given.
Work(j) ==
  IF SearchMayRun THEN j = "search"
  ELSE \/ InSetup /\ j = "setup"
       \/ ui.loc \in {"ttClear", "ttClearWait"} /\ j = "ttclear"
       \/ ui.loc \in {"poolClear", "poolClearWait"} /\ j = "clear"
       \/ ui.loc \in {"ctorRunWait", "created"} /\ j = "create"

SettledIsIdle == \A t \in Thread : Settled(t) => Idle(t)

PostedIsWork == \A t \in Thread, j \in Job : Posted(j, t) => ~Settled(t) /\ Work(j)

\* The threads there are.
Exists(t) ==
  IF ui.loc = "destroy" THEN Done <= t /\ t < size
  ELSE IF ui.loc \in Ctor THEN t <= size ELSE t < size

Existence ==
  \A t \in Thread :
    /\ own[t] # "none" <=> Exists(t)
    /\ own[t] = "gone" => exit[t]
    /\ exit[t] /\ own[t] # "none" =>
         own[t] \in {"parked", "gone"} /\ ui.loc = "destroy" /\ Calling /\ t = ui.at - 1

\* The call that the UCI thread is in.
Posts(p, j) == call[p].op \in {"run", "notify"} /\ call[p].job = j

UiCalls ==
  LET c == call[UI] last == c.on = ui.at - 1
  IN Calling =>
       \/ ui.loc = "read" /\ c.on = Main /\ Posts(UI, "search")
       \/ ui.loc \in FirstWait /\ WaitsForMain /\ ui.at = IF ui.loc = "helpersWait" THEN 1 ELSE 0
       \/ ui.loc = "setup" /\ last /\ Posts(UI, "setup")
       \/ ui.loc = "ttClear" /\ last /\ Posts(UI, "ttclear")
       \/ ui.loc = "poolClear" /\ last /\ Posts(UI, "clear")
       \/ ui.loc \in WaitLoop \cup {"helpersWait"} /\ last /\ c.op = "wait"
       \/ ui.loc = "destroy" /\ ui.at = 0 /\ WaitsForMain
       \/ ui.loc = "destroy" /\ last /\ c.op \in {"run", "notify", "join"} /\ exit[c.on]
       \/ ui.loc \in {"ctorRun", "created"} /\ c.on = size /\ c.op = "wait"
       \/ ui.loc = "ctorRunWait" /\ c.on = size /\ Posts(UI, "create")

MainCalls ==
  call[Main].op # "none" =>
    /\ MainSearches
    /\ call[Main].on = search.at - 1 /\ call[Main].on \in 1 .. size - 1
    /\ \/ search.loc = "launch" /\ Posts(Main, "search")
       \/ search.loc = "join" /\ call[Main].op = "wait"

\* Where the loops over the pool are.
Sizes ==
  /\ size \in Nat /\ want \in 1 .. MaxThreads /\ size <= MaxThreads
  /\ ui.loc \notin Ctor \cup {"create", "exited"} => size >= 1
  /\ ui.loc \in Ctor => size < want
  /\ ui.loc = "create" => size <= want
  /\ ui.at \in 0 .. size
  /\ ui.loc \in Ctor \cup {"create"} => ui.at = 0
  /\ ui.loc = "helpersWait" => ui.at >= 1
  /\ search.loc # "off" => MainSearches
  /\ search.loc \in {"launch", "join"} => search.at \in 1 .. size

Control == Sizes /\ Existence /\ UiCalls /\ MainCalls /\ SettledIsIdle /\ PostedIsWork

\* The first layer.
PoolInv == TypeOK /\ TP!IInv /\ Control

-----------------------------------------------------------------------------
\* The copy of the search that a worker is to get.
Given(t) == worker[t] = [limits |-> goal.limits, roots |-> goal.roots, list |-> setupStates]

\* During start_thinking() a worker has its copy, or the job that makes it is
\* posted, or comes later in the loop.
Copied ==
  InSetup => \A t \in Thread : t < size =>
    \/ ui.loc = "setup" /\ t >= ui.at
    \/ Posted("setup", t)
    \/ Given(t)

\* The threads of the pool have their workers, the last one may be waiting for it.
Built ==
  /\ \A t \in Thread : t < size => built[t]
  /\ ui.loc \in {"ctorRunWait", "created"} => built[size] \/ Posted("create", size)

\* From the end of the copies to the bestmove all workers hold the same search.
SearchIsOne ==
  ui.loc = "start" \/ Posted("search", Main) =>
    \A t \in Thread : t < size => worker[t] = worker[Main] /\ worker[t].list = setupStates

\* There is a list of states to hand over, and the search keeps it alive.
Lists ==
  /\ states # 0 \/ setupStates # 0
  /\ Thinking => setupStates # 0

\* run_custom_job() is only called on a thread that is idle: nobody waits in it
\* for a job to end.
RunsOnIdle == \A p \in {UI, Main} : call[p].op = "run" => Idle(call[p].on)

\* `stop' is up because the GUI said so, because there is nothing to choose or
\* the mate was found, or in a search that may end by itself.
StopIsJustified ==
  /\ Thinking /\ stop => told \/ Forced \/ ~(ponder \/ Current.limits.infinite)
  /\ search.loc \in {"join", "best"} => stop

\* The second layer, and the whole invariant.
DataInv == RunsOnIdle /\ Copied /\ Built /\ SearchIsOne /\ Lists

IInv == PoolInv /\ DataInv /\ StopIsJustified

-----------------------------------------------------------------------------
\* What WorkerThread asks of its constants.
LEMMA ThreadAssumed == TP!ThreadAssumption
BY PoolAssumption DEF TP!ThreadAssumption, Thread, Job

\* A step that WorkerThread allows keeps what its invariant says.
LEMMA ThreadInv ==
  ASSUME TP!IInv, [T!Next]_threadVars
  PROVE  TP!IInv'
<1>1. T!Next => TP!Next
  BY DEF T!MayConstruct, TP!MayConstruct, T!MayCall, TP!MayCall, T!MayDestroy,
         TP!MayDestroy, T!NobodyElse, TP!NobodyElse, T!Construct, TP!Construct,
         T!CallRun, TP!CallRun, T!CallWait, TP!CallWait, T!Destroy, TP!Destroy, T!Free,
         TP!Free, T!SetCall, TP!SetCall, T!Return, TP!Return, T!ClientStep,
         TP!ClientStep, T!OwnerStep, TP!OwnerStep, T!RunCustomJob, TP!RunCustomJob,
         T!Notify, TP!Notify, T!NotifyOne, TP!NotifyOne, T!Sleep, TP!Sleep,
         T!WaitForSearchFinished, TP!WaitForSearchFinished, T!Join, TP!Join,
         T!IdleEnter, TP!IdleEnter, T!IdleWake, TP!IdleWake, T!FinishJob, TP!FinishJob,
         T!SpuriousWake, TP!SpuriousWake, T!NoCall, TP!NoCall, T!Next, TP!Next
<1> QED BY ThreadAssumed, <1>1, TP!NextIInv DEF threadVars, TP!vars

-----------------------------------------------------------------------------
\* What the invariant of WorkerThread says of one thread and of one call.
ThreadFacts ==
  /\ own \in [Thread -> {"none", "enter", "parked", "busy", "gone"}]
  /\ searching \in [Thread -> BOOLEAN] /\ exit \in [Thread -> BOOLEAN]
  /\ jobFunc \in [Thread -> Job \cup {NoJob}] /\ job \in [Thread -> Job \cup {NoJob}]
  /\ call \in [{UI, Main} -> [op : {"none", "run", "notify", "wait", "join"},
                              on : Thread, job : Job \cup {NoJob}]]
  /\ \A t \in Thread :
       /\ job[t] # NoJob <=> own[t] = "busy"
       /\ jobFunc[t] # NoJob => searching[t] /\ own[t] \in {"parked", "gone"}
       /\ own[t] \in {"enter", "busy"} => searching[t]
       /\ own[t] = "parked" /\ searching[t] => jobFunc[t] # NoJob
  /\ \A p \in {UI, Main} :
       /\ call[p].op # "none" => own[call[p].on] # "none"
       /\ call[p].op = "run" => call[p].job # NoJob

\* They follow from that invariant alone.
LEMMA Facts == TP!IInv => ThreadFacts
BY DEF TP!IInv, TP!TypeOK, TP!OwnState, TP!Call, TP!CallOp, TP!BusySearching, TP!JobPosted, TP!CallsInOrder, ThreadFacts

\* Only an existing thread has something to do.
LEMMA PostedExists ==
  ASSUME PoolInv, NEW t \in Thread, NEW j \in Job, Posted(j, t)
  PROVE  own[t] # "none" /\ Exists(t) /\ ~Settled(t) /\ Work(j)
<1>1. ThreadFacts
  BY Facts DEF PoolInv
<1>2. own[t] # "none"
  BY <1>1, PoolAssumption DEF Posted, ThreadFacts
<1> QED BY <1>2 DEF PoolInv, Control, Existence, PostedIsWork

\* The main thread searches in the handlers that let it.
LEMMA SearchBeforeWait ==
  ASSUME PoolInv
  PROVE  /\ MainSearches => SearchMayRun
         /\ call[Main].op # "none" => SearchMayRun
<1>1. ThreadFacts
  BY Facts DEF PoolInv
<1>0. Main \in Thread /\ "search" \in Job
  BY PoolAssumption DEF Main, Thread, Job
<1>2. MainSearches => ~exit[Main]
  BY <1>0 DEF PoolInv, Control, Existence, MainSearches, Busy
<1>3. MainSearches => Work("search")
  BY <1>0, <1>2 DEF PoolInv, Control, PostedIsWork, Posted, MainSearches, Busy
<1>4. MainSearches => SearchMayRun
  BY <1>3 DEF Work
<1> QED BY <1>4 DEF PoolInv, Control, MainCalls

\* The UCI thread may call on a thread that exists and on which the main thread
\* has no call.
LEMMA UiMayCall ==
  ASSUME PoolInv, T!Free(UI), NEW t \in Thread, Exists(t), t = Main \/ ~SearchMayRun
  PROVE  T!MayCall(UI, t)
<1>1. UI # t
  BY PoolAssumption DEF Thread
<1>2. own[t] # "none" /\ ~exit[t]
  BY DEF PoolInv, Control, Existence, Calling, T!Free
<1>3. call[Main].op = "none" \/ call[Main].on # t
  BY SearchBeforeWait DEF PoolInv, Control, MainCalls, Main
<1> QED BY <1>1, <1>2, <1>3 DEF T!MayCall, T!NobodyElse

\* They hold after a step that WorkerThread allows, too.
LEMMA StepFacts ==
  ASSUME PoolInv, [T!Next]_threadVars
  PROVE  ThreadFacts /\ ThreadFacts'
<1>1. TP!IInv' => ThreadFacts'
  BY Facts, PTL
<1> QED BY <1>1, ThreadInv, Facts DEF PoolInv

\* One turn of a loop that posts a job to every thread.
LEMMA PostOne ==
  ASSUME PoolInv, NEW l, NEW j,
         <<l, j>> \in {<<"setup", "setup">>, <<"ttClear", "ttclear">>, <<"poolClear", "clear">>},
         At(l), ui.at < size, RunJob(j, ui.at), Goto(l, ui.at + 1),
         UNCHANGED <<want, size, search>>
  PROVE  [T!Next]_threadVars /\ Control'
<1> DEFINE t == ui.at
<1>1. /\ t \in Thread /\ t < size /\ j \in Job \ {"search", "create"}
      /\ ui.loc = l /\ l \in {"setup", "ttClear", "poolClear"} /\ ~Calling /\ call[UI].op = "none"
  BY PoolAssumption DEF PoolInv, Control, Sizes, Job, At, Thread, T!Free, Calling
<1>2. ~SearchMayRun
  BY <1>1 DEF SearchMayRun, WaitsForMain
<1>3. T!CallRun(UI, t, j) /\ T!MayCall(UI, t)
  BY <1>1, <1>2, UiMayCall DEF Exists, RunJob, At, Ctor
<1>4. T!Next
  BY <1>1, <1>3 DEF T!Next
<1>5. ThreadFacts /\ ThreadFacts'
  BY <1>4, StepFacts
<1>6. /\ call' = [call EXCEPT ![UI] = [op |-> "run", on |-> t, job |-> j]]
      /\ UNCHANGED <<own, searching, exit, jobFunc, job>>
      /\ ui' = [ui EXCEPT !.loc = l, !.at = t + 1]
  BY <1>3 DEF T!CallRun, T!SetCall, Goto
<1>7. /\ ui'.loc = l /\ ui'.at = t + 1
      /\ call'[UI] = [op |-> "run", on |-> t, job |-> j] /\ call'[Main] = call[Main]
  BY <1>5, <1>6, PoolAssumption DEF PoolInv, TypeOK, Handler, ThreadFacts, Main
<1>8. Calling'
  BY <1>7 DEF Calling
<1>9. ~SearchMayRun'
  BY <1>7, <1>1 DEF SearchMayRun, WaitsForMain
<1>10. \A u \in Thread : Settled(u)' => Settled(u) /\ u # t
  BY <1>1, <1>2, <1>6, <1>7, <1>8, <1>9 DEF Settled, PoolInv, Control, Sizes, PostLoop, WaitLoop, Done, Thread
<1>11. SettledIsIdle'
  BY <1>10, <1>6 DEF SettledIsIdle, Idle, PoolInv, Control
<1>12. \A u \in Thread, k \in Job : Posted(k, u)' => Posted(k, u) \/ (k = j /\ u = t)
  BY <1>5, <1>6, <1>7 DEF Posted
<1>13. Work(j)' /\ (\A k \in Job : Work(k) => Work(k)')
  BY <1>1, <1>2, <1>7, <1>9 DEF Work, InSetup
<1>14. PostedIsWork'
  BY <1>10, <1>12, <1>13 DEF PostedIsWork, PoolInv, Control
<1>15. Sizes'
  BY <1>1, <1>6, <1>7 DEF Sizes, PoolInv, Control, MainSearches, Busy, Ctor
<1>16. Existence'
  BY <1>1, <1>6, <1>7, <1>8 DEF Existence, Exists, PoolInv, Control, Calling, Ctor
<1>17. UiCalls'
  BY <1>1, <1>7 DEF UiCalls, Posts, Calling, PoolInv, Control, Sizes
<1>18. MainCalls'
  BY <1>6, <1>7 DEF MainCalls, MainSearches, Busy, Posts, PoolInv, Control
<1> QED BY <1>4, <1>11, <1>14, <1>15, <1>16, <1>17, <1>18 DEF Control

-----------------------------------------------------------------------------
\* Nobody works and nobody is about to.
Quiet ==
  /\ \A t \in Thread : t < size => Idle(t)
  /\ \A t \in Thread, j \in Job : ~Posted(j, t)

\* After the loops that wait for every thread, and before the next ones, the
\* pool is quiet.
LEMMA QuietWhen ==
  ASSUME PoolInv, T!Free(UI),
         \/ ui.loc \notin {"read", "ctorRunWait", "created"} \cup PostLoop \cup WaitLoop
         \/ ui.loc \in PostLoop /\ ui.at = 0
         \/ ui.loc \in WaitLoop /\ ui.at = size
  PROVE  Quiet
<1>1. ~SearchMayRun
  BY DEF SearchMayRun, WaitsForMain, T!Free, PostLoop, WaitLoop, FirstWait
<1>2. \A t \in Thread : t < size => Settled(t)
  BY <1>1 DEF Settled, T!Free, Calling, Done, PostLoop, WaitLoop, Thread
<1>3. ASSUME NEW t \in Thread, NEW j \in Job, Posted(j, t) PROVE FALSE
  <2>1. own[t] # "none" /\ Exists(t) /\ ~Settled(t) /\ Work(j)
    BY <1>3, PostedExists
  <2>2. ~(t < size) /\ t \in Int /\ size \in Int
    BY <1>2, <2>1 DEF Thread, PoolInv, Control, Sizes
  <2>4. ui.loc \in Ctor /\ t = size
    BY <2>1, <2>2 DEF Exists
  <2>3. ui.loc = "ctorRun" \/ ui.loc = "ctorWait"
    BY <2>4 DEF Ctor, PostLoop, WaitLoop
  <2> QED BY <1>1, <2>1, <2>3 DEF Work, InSetup
<1> QED BY <1>2, <1>3 DEF Quiet, PoolInv, Control, SettledIsIdle

\* One turn of a loop that waits for every thread.
LEMMA WaitOne ==
  ASSUME PoolInv, NEW l \in WaitLoop \cup {"helpersWait"},
         At(l), ui.at < size, WaitFor(ui.at), Goto(l, ui.at + 1),
         UNCHANGED <<want, size, search>>
  PROVE  [T!Next]_threadVars /\ Control'
<1> DEFINE t == ui.at
<1>1. /\ t \in Thread /\ t < size /\ l \in {"setupWait", "ttClearWait", "poolClearWait", "helpersWait"}
      /\ ui.loc = l /\ ~Calling /\ call[UI].op = "none"
      /\ l = "helpersWait" => t >= 1
  BY PoolAssumption DEF PoolInv, Control, Sizes, At, Thread, T!Free, Calling, WaitLoop
<1>2. ~SearchMayRun
  BY <1>1 DEF SearchMayRun, WaitsForMain
<1>3. T!CallWait(UI, t) /\ T!MayCall(UI, t)
  BY <1>1, <1>2, UiMayCall DEF Exists, WaitFor, At, Ctor
<1>4. T!Next
  BY <1>1, <1>3 DEF T!Next
<1>5. ThreadFacts /\ ThreadFacts'
  BY <1>4, StepFacts
<1>6. /\ call' = [call EXCEPT ![UI] = [op |-> "wait", on |-> t, job |-> NoJob]]
      /\ UNCHANGED <<own, searching, exit, jobFunc, job>>
      /\ ui' = [ui EXCEPT !.loc = l, !.at = t + 1]
  BY <1>3 DEF T!CallWait, T!SetCall, Goto
<1>7. /\ ui'.loc = l /\ ui'.at = t + 1
      /\ call'[UI] = [op |-> "wait", on |-> t, job |-> NoJob] /\ call'[Main] = call[Main]
  BY <1>5, <1>6, PoolAssumption DEF PoolInv, TypeOK, Handler, ThreadFacts, Main
<1>8. Calling'
  BY <1>7 DEF Calling
<1>9. ~SearchMayRun'
  BY <1>7, <1>1 DEF SearchMayRun, WaitsForMain, FirstWait, Main
<1>10. \A u \in Thread : Settled(u)' <=> Settled(u)
  BY <1>1, <1>2, <1>6, <1>7, <1>8, <1>9 DEF Settled, PoolInv, Control, Sizes, PostLoop, WaitLoop, Done, Thread
<1>11. SettledIsIdle'
  BY <1>10, <1>6 DEF SettledIsIdle, Idle, PoolInv, Control
<1>12. \A u \in Thread, k \in Job : Posted(k, u)' => Posted(k, u)
  BY <1>5, <1>6, <1>7 DEF Posted
<1>13. \A k \in Job : Work(k) => Work(k)'
  BY <1>1, <1>2, <1>7, <1>9 DEF Work, InSetup
<1>14. PostedIsWork'
  BY <1>10, <1>12, <1>13 DEF PostedIsWork, PoolInv, Control
<1>15. Sizes'
  BY <1>1, <1>6, <1>7 DEF Sizes, PoolInv, Control, MainSearches, Busy, Ctor
<1>16. Existence'
  BY <1>1, <1>6, <1>7, <1>8 DEF Existence, Exists, PoolInv, Control, Calling, Ctor
<1>17. UiCalls'
  BY <1>1, <1>7 DEF UiCalls, Posts, Calling, PoolInv, Control, Sizes, WaitLoop
<1>18. MainCalls'
  BY <1>6, <1>7 DEF MainCalls, MainSearches, Busy, Posts, PoolInv, Control
<1> QED BY <1>4, <1>11, <1>14, <1>15, <1>16, <1>17, <1>18 DEF Control

\* A command whose handler first waits for the main thread.
LEMMA FirstWaitStep ==
  ASSUME PoolInv, At("read"), WaitFor(Main), want' \in 1 .. MaxThreads,
         NEW l \in FirstWait, NEW c, Handle(c, l, IF l = "helpersWait" THEN 1 ELSE 0),
         UNCHANGED <<size, search>>
  PROVE  [T!Next]_threadVars /\ Control'
<1>1. /\ Main \in Thread /\ Main < size /\ ui.loc = "read" /\ ~Calling /\ call[UI].op = "none"
      /\ l \in {"reset", "ttClear", "poolClear", "helpersWait", "hashWait", "mainWait"}
      /\ SearchMayRun
  BY PoolAssumption DEF PoolInv, Control, Sizes, At, Thread, T!Free, Calling, Main, Ctor, FirstWait, SearchMayRun
<1>3. T!CallWait(UI, Main) /\ T!MayCall(UI, Main)
  BY <1>1, UiMayCall DEF Exists, WaitFor, At, Ctor
<1>4. T!Next
  BY <1>1, <1>3 DEF T!Next
<1>5. ThreadFacts /\ ThreadFacts'
  BY <1>4, StepFacts
<1>6. /\ call' = [call EXCEPT ![UI] = [op |-> "wait", on |-> Main, job |-> NoJob]]
      /\ UNCHANGED <<own, searching, exit, jobFunc, job>>
  BY <1>3 DEF T!CallWait, T!SetCall
<1>7. /\ ui'.loc = l /\ ui'.at = IF l = "helpersWait" THEN 1 ELSE 0
      /\ call'[UI] = [op |-> "wait", on |-> Main, job |-> NoJob] /\ call'[Main] = call[Main]
  BY <1>5, <1>6, PoolAssumption DEF ThreadFacts, Main, Handle
<1>8. Calling' /\ WaitsForMain'
  BY <1>7 DEF Calling, WaitsForMain
<1>9. SearchMayRun'
  BY <1>7, <1>8, <1>1 DEF SearchMayRun, FirstWait
<1>10. \A u \in Thread : Settled(u)' => Settled(u)
  BY <1>1, <1>6, <1>7, <1>8, <1>9 DEF Settled, PostLoop, WaitLoop, Calm, Joined, MainSearches, Busy
<1>11. SettledIsIdle'
  BY <1>10, <1>6 DEF SettledIsIdle, Idle, PoolInv, Control
<1>12. \A u \in Thread, k \in Job : Posted(k, u)' => Posted(k, u)
  BY <1>5, <1>6, <1>7 DEF Posted
<1>13. \A k \in Job : Work(k) => Work(k)'
  BY <1>1, <1>9 DEF Work
<1>14. PostedIsWork'
  BY <1>10, <1>12, <1>13 DEF PostedIsWork, PoolInv, Control
<1>15. Sizes'
  BY <1>1, <1>6, <1>7 DEF Sizes, PoolInv, Control, MainSearches, Busy, Ctor
<1>16. Existence'
  BY <1>1, <1>6, <1>7, <1>8 DEF Existence, Exists, PoolInv, Control, Calling, Ctor
<1>17. UiCalls'
  BY <1>1, <1>7, <1>8 DEF UiCalls, FirstWait
<1>18. MainCalls'
  BY <1>6, <1>7 DEF MainCalls, MainSearches, Busy, Posts, PoolInv, Control
<1> QED BY <1>4, <1>11, <1>14, <1>15, <1>16, <1>17, <1>18 DEF Control

-----------------------------------------------------------------------------
\* A step of the UCI thread that makes no call, in a quiet pool.
LEMMA QuietMove ==
  ASSUME PoolInv, Quiet, T!Free(UI), UNCHANGED <<threadVars, want, size, search>>,
         NEW l, ui'.loc = l, ui'.at = 0, l \notin Ctor \cup {"create", "destroy", "exited", "helpersWait"},
         ui.loc \notin Ctor \cup {"create", "destroy", "exited"}
  PROVE  Control'
<1>1. /\ UNCHANGED <<own, searching, exit, jobFunc, job, call>> /\ call[UI].op = "none"
      /\ ~Calling /\ ~Calling'
      /\ ui.loc \notin {"destroy", "create", "ctorWait", "ctorRun", "ctorRunWait", "created", "exited"}
      /\ l \notin {"destroy", "create", "ctorWait", "ctorRun", "ctorRunWait", "created", "exited", "helpersWait"}
  BY DEF threadVars, Calling, T!Free, Ctor
<1>2. SettledIsIdle'
  BY <1>1 DEF SettledIsIdle, Settled, Quiet, Idle
<1>3. PostedIsWork'
  BY <1>1 DEF PostedIsWork, Posted, Quiet
<1>4. Sizes'
  BY <1>1 DEF Sizes, PoolInv, Control, MainSearches, Busy, Ctor
<1>5. Existence'
  BY <1>1 DEF Existence, Exists, PoolInv, Control, Ctor
<1>6. UiCalls'
  BY <1>1 DEF UiCalls
<1>7. MainCalls'
  BY <1>1 DEF MainCalls, MainSearches, Busy, Posts, PoolInv, Control
<1> QED BY <1>2, <1>3, <1>4, <1>5, <1>6, <1>7 DEF Control

\* The loops that post are over: those that wait begin.
LEMMA PostsOver ==
  ASSUME PoolInv, NEW l, NEW m,
         <<l, m>> \in {<<"setup", "setupWait">>, <<"ttClear", "ttClearWait">>,
                       <<"poolClear", "poolClearWait">>},
         At(l), ui.at = size, Goto(m, 0), UNCHANGED <<threadVars, want, size, search>>
  PROVE  Control'
<1>1. /\ UNCHANGED <<own, searching, exit, jobFunc, job, call>> /\ call[UI].op = "none"
      /\ ~Calling /\ ~Calling' /\ ui.loc = l /\ ui'.loc = m /\ ui'.at = 0
      /\ l \in {"setup", "ttClear", "poolClear"} /\ m \in {"setupWait", "ttClearWait", "poolClearWait"}
      /\ ui \in Handler
  BY DEF threadVars, Calling, T!Free, At, Goto, PoolInv, TypeOK, Handler
<1>2. ~SearchMayRun /\ ~SearchMayRun'
  BY <1>1 DEF SearchMayRun, WaitsForMain, FirstWait
<1>3. \A t \in Thread : ~Settled(t)'
  BY <1>1 DEF Settled, WaitLoop, Done, Thread
<1>4. SettledIsIdle'
  BY <1>3 DEF SettledIsIdle
<1>5. \A k \in Job : Work(k) => Work(k)'
  BY <1>1, <1>2 DEF Work, InSetup
<1>6. PostedIsWork'
  BY <1>1, <1>3, <1>5 DEF PostedIsWork, Posted, PoolInv, Control
<1>7. Sizes'
  BY <1>1 DEF Sizes, PoolInv, Control, MainSearches, Busy, Ctor
<1>8. Existence'
  BY <1>1 DEF Existence, Exists, PoolInv, Control, Ctor
<1>9. UiCalls'
  BY <1>1 DEF UiCalls
<1>10. MainCalls'
  BY <1>1 DEF MainCalls, MainSearches, Busy, Posts, PoolInv, Control
<1> QED BY <1>4, <1>6, <1>7, <1>8, <1>9, <1>10 DEF Control

\* The waits for the main thread within a handler, in a quiet pool.
LEMMA QuietWait ==
  ASSUME PoolInv, Quiet, NEW l, NEW m,
         <<l, m>> \in {<<"mainWait", "destroy">>, <<"setDone", "hashWait">>, <<"hashWait", "ttClear">>},
         At(l), WaitFor(Main), Goto(m, 0), UNCHANGED <<want, size, search>>
  PROVE  [T!Next]_threadVars /\ Control'
<1>1. /\ Main \in Thread /\ 0 < size /\ call[UI].op = "none" /\ ~Calling
      /\ ui.loc = l /\ ui'.loc = m /\ ui'.at = 0
      /\ l \in {"mainWait", "setDone", "hashWait"} /\ m \in {"destroy", "hashWait", "ttClear"}
  BY PoolAssumption DEF Calling, T!Free, At, Goto, PoolInv, TypeOK, Control, Sizes, Ctor, Main, Thread, Handler
<1>3. T!CallWait(UI, Main) /\ T!MayCall(UI, Main)
  BY <1>1, UiMayCall DEF Exists, WaitFor, At, Ctor, Main
<1>4. T!Next
  BY <1>1, <1>3 DEF T!Next
<1>5. ThreadFacts /\ ThreadFacts'
  BY <1>4, StepFacts
<1>6. /\ call' = [call EXCEPT ![UI] = [op |-> "wait", on |-> Main, job |-> NoJob]]
      /\ UNCHANGED <<own, searching, exit, jobFunc, job>>
  BY <1>3 DEF T!CallWait, T!SetCall
<1>7. call'[UI] = [op |-> "wait", on |-> Main, job |-> NoJob] /\ call'[Main] = call[Main]
  BY <1>5, <1>6, PoolAssumption DEF ThreadFacts, Main
<1>8. Calling' /\ WaitsForMain'
  BY <1>7 DEF Calling, WaitsForMain
<1>10. SettledIsIdle'
  BY <1>1, <1>6 DEF SettledIsIdle, Settled, Quiet, Idle
<1>11. PostedIsWork'
  BY <1>6, <1>7, <1>5 DEF PostedIsWork, Posted, Quiet
<1>12. Sizes'
  BY <1>1, <1>6 DEF Sizes, PoolInv, Control, MainSearches, Busy, Ctor
<1>13. Existence'
  BY <1>1, <1>6, <1>7, <1>8 DEF Existence, Exists, PoolInv, Control, Ctor, Done, Thread
<1>14. UiCalls'
  BY <1>1, <1>8 DEF UiCalls, FirstWait
<1>15. MainCalls'
  BY <1>1, <1>6, <1>7 DEF MainCalls, MainSearches, Busy, Posts, PoolInv, Control
<1> QED BY <1>4, <1>10, <1>11, <1>12, <1>13, <1>14, <1>15 DEF Control

\* The main thread is started.
LEMMA StartMainControl ==
  ASSUME PoolInv, Quiet, At("start"), RunJob("search", Main), Goto("read", 0),
         UNCHANGED <<want, size, search>>
  PROVE  [T!Next]_threadVars /\ Control'
<1>1. /\ Main \in Thread /\ "search" \in Job /\ 0 < size /\ call[UI].op = "none" /\ ~Calling
      /\ ui.loc = "start" /\ ui'.loc = "read" /\ ui'.at = 0
  BY PoolAssumption DEF Calling, T!Free, At, Goto, PoolInv, TypeOK, Control, Sizes, Ctor, Main, Thread, Job, Handler
<1>2. T!CallRun(UI, Main, "search") /\ T!MayCall(UI, Main)
  BY <1>1, UiMayCall DEF Exists, RunJob, At, Ctor, Main
<1>3. T!Next
  BY <1>1, <1>2 DEF T!Next
<1>4. ThreadFacts /\ ThreadFacts'
  BY <1>3, StepFacts
<1>5. /\ call' = [call EXCEPT ![UI] = [op |-> "run", on |-> Main, job |-> "search"]]
      /\ UNCHANGED <<own, searching, exit, jobFunc, job>>
  BY <1>2 DEF T!CallRun, T!SetCall
<1>6. call'[UI] = [op |-> "run", on |-> Main, job |-> "search"] /\ call'[Main] = call[Main]
  BY <1>4, <1>5, PoolAssumption DEF ThreadFacts, Main
<1>7. SettledIsIdle'
  BY <1>1, <1>5 DEF SettledIsIdle, Settled, Quiet, Idle
<1>8. \A t \in Thread, j \in Job : Posted(j, t)' => j = "search" /\ t = Main
  BY <1>4, <1>5, <1>6 DEF Posted, Quiet
<1>9. PostedIsWork'
  BY <1>1, <1>8 DEF PostedIsWork, Settled, Work, SearchMayRun
<1>10. Sizes'
  BY <1>1, <1>5 DEF Sizes, PoolInv, Control, MainSearches, Busy, Ctor
<1>11. Existence'
  BY <1>1, <1>5 DEF Existence, Exists, PoolInv, Control, Ctor
<1>12. UiCalls'
  BY <1>1, <1>6 DEF UiCalls, Posts
<1>13. MainCalls'
  BY <1>1, <1>5, <1>6 DEF MainCalls, MainSearches, Busy, Posts, PoolInv, Control
<1> QED BY <1>3, <1>7, <1>9, <1>10, <1>11, <1>12, <1>13 DEF Control

\* A destructor begins.
LEMMA DestroyOne ==
  ASSUME PoolInv, At("destroy"), ui.at < size, T!Destroy(UI, ui.at, "search"),
         Goto("destroy", ui.at + 1), UNCHANGED <<want, size, search>>
  PROVE  [T!Next]_threadVars /\ Control'
<1> DEFINE t == ui.at
<1>1. /\ t \in Thread /\ "search" \in Job /\ t < size /\ size \in Nat /\ call[UI].op = "none"
      /\ ~Calling /\ ui.loc = "destroy" /\ ui'.loc = "destroy" /\ ui'.at = t + 1
  BY PoolAssumption DEF Calling, T!Free, At, Goto, PoolInv, TypeOK, Control, Sizes, Ctor, Thread, Job, Handler
<1>2. ~SearchMayRun /\ ~SearchMayRun'
  BY <1>1 DEF SearchMayRun, FirstWait
<1>3. Idle(t)
  BY <1>1, <1>2 DEF PoolInv, Control, SettledIsIdle, Settled, PostLoop, WaitLoop, Thread
<1>4. T!MayDestroy(UI, t)
  BY <1>1, <1>2, <1>3, UiMayCall DEF Exists, T!MayDestroy, At, Idle, Done, Thread
<1>5. T!Next
  BY <1>1, <1>4 DEF T!Next
<1>6. ThreadFacts /\ ThreadFacts'
  BY <1>5, StepFacts
<1>7. /\ call' = [call EXCEPT ![UI] = [op |-> "run", on |-> t, job |-> "search"]]
      /\ exit' = [exit EXCEPT ![t] = TRUE]
      /\ UNCHANGED <<own, searching, jobFunc, job>>
  BY DEF T!Destroy, T!SetCall
<1>8. call'[UI] = [op |-> "run", on |-> t, job |-> "search"] /\ call'[Main] = call[Main]
  BY <1>6, <1>7, PoolAssumption DEF ThreadFacts, Main
<1>9. Calling' /\ call[Main].op = "none"
  BY <1>2, <1>8, SearchBeforeWait DEF Calling
<1>10. \A u \in Thread : Settled(u)' => Settled(u)
  BY <1>1, <1>2 DEF Settled, PostLoop, WaitLoop, Thread
<1>11. SettledIsIdle'
  BY <1>7, <1>10 DEF SettledIsIdle, Idle, PoolInv, Control
<1>12. \A u \in Thread, j \in Job : Posted(j, u)' => Posted(j, u)
  BY <1>6, <1>7, <1>8 DEF Posted, ThreadFacts
<1>13. PostedIsWork'
  BY <1>1, <1>2, <1>10, <1>12 DEF PostedIsWork, Work, InSetup, PoolInv, Control
<1>14. Sizes'
  BY <1>1, <1>7 DEF Sizes, PoolInv, Control, MainSearches, Busy, Ctor
<1>15. Existence'
  BY <1>1, <1>3, <1>6, <1>7, <1>9 DEF Existence, Exists, PoolInv, Control, Done, Idle, ThreadFacts, Thread
<1>16. UiCalls'
  BY <1>1, <1>6, <1>7, <1>8 DEF UiCalls, ThreadFacts, Thread
<1>17. MainCalls'
  BY <1>8, <1>9 DEF MainCalls
<1> QED BY <1>5, <1>11, <1>13, <1>14, <1>15, <1>16, <1>17 DEF Control

\* The last destructor has returned.
LEMMA DestroyDone ==
  ASSUME PoolInv, At("destroy"), ui.at = size, size' = 0,
         NEW l \in {"exited", "create"}, Goto(l, 0), UNCHANGED <<threadVars, want, search>>
  PROVE  Control'
<1>1. /\ call[UI].op = "none" /\ ~Calling /\ ~Calling' /\ ui.loc = "destroy" /\ ui'.loc = l /\ ui'.at = 0
      /\ UNCHANGED <<own, searching, exit, jobFunc, job, call>> /\ size \in Nat
  BY DEF Calling, T!Free, At, Goto, PoolInv, TypeOK, Control, Sizes, threadVars, Handler
<1>2. ~SearchMayRun
  BY <1>1 DEF SearchMayRun, FirstWait
<1>3. ~MainSearches /\ call[Main].op = "none" /\ search.loc = "off"
  BY <1>2, SearchBeforeWait DEF PoolInv, Control, Sizes
<1>4. \A t \in Thread : own[t] = "none"
  BY <1>1 DEF PoolInv, Control, Existence, Exists, Done, Thread
<1>5. \A t \in Thread, j \in Job : ~Posted(j, t)
  BY <1>4, PostedExists
<1>6. SettledIsIdle'
  BY <1>1 DEF SettledIsIdle, Settled, Thread
<1>7. PostedIsWork'
  BY <1>1, <1>5 DEF PostedIsWork, Posted
<1>8. Sizes'
  BY <1>1, <1>3, PoolAssumption DEF Sizes, PoolInv, Control, Ctor
<1>9. Existence'
  BY <1>1, <1>4 DEF Existence, Exists, Ctor, Thread
<1>10. UiCalls'
  BY <1>1 DEF UiCalls
<1>11. MainCalls'
  BY <1>1, <1>3 DEF MainCalls
<1> QED BY <1>6, <1>7, <1>8, <1>9, <1>10, <1>11 DEF Control

\* What the constructors rely on: there is no search.
LEMMA NoSearchWhile ==
  ASSUME PoolInv, ui.loc \in Ctor \cup {"create"}
  PROVE  /\ ~SearchMayRun /\ ~MainSearches /\ call[Main].op = "none" /\ search.loc = "off"
         /\ size \in Nat /\ ui.at = 0 /\ size <= MaxThreads
         /\ ui.loc \in Ctor => size \in Thread
<1>1. ~SearchMayRun
  BY DEF SearchMayRun, FirstWait, Ctor
<1>2. ~MainSearches /\ call[Main].op = "none" /\ search.loc = "off"
  BY <1>1, SearchBeforeWait DEF PoolInv, Control, Sizes
<1> QED BY <1>1, <1>2, PoolAssumption DEF PoolInv, Control, Sizes, Thread

\* The native thread of a constructor starts.
LEMMA ConstructOne ==
  ASSUME PoolInv, Quiet, At("create"), size < want, T!Construct(UI, size), Goto("ctorWait", 0),
         UNCHANGED <<want, size, search>>
  PROVE  [T!Next]_threadVars /\ Control'
<1>1. /\ call[UI].op = "none" /\ ~Calling /\ ui.loc = "create" /\ ui'.loc = "ctorWait" /\ ui'.at = 0
  BY DEF Calling, T!Free, At, Goto, PoolInv, TypeOK, Handler
<1>2. /\ ~SearchMayRun /\ ~MainSearches /\ call[Main].op = "none" /\ search.loc = "off"
      /\ size \in Nat /\ size < want /\ size \in Thread
  BY <1>1, NoSearchWhile, PoolAssumption DEF PoolInv, Control, Sizes, Thread
<1>3. own[size] = "none"
  BY <1>1, <1>2 DEF PoolInv, Control, Existence, Exists, Ctor
<1>4. T!MayConstruct(UI, size)
  BY <1>2, <1>3, PoolAssumption DEF T!MayConstruct, T!NobodyElse, Thread
<1>5. T!Next
  BY <1>2, <1>4 DEF T!Next
<1>6. ThreadFacts /\ ThreadFacts'
  BY <1>5, StepFacts
<1>7. /\ own' = [own EXCEPT ![size] = "enter"] /\ exit' = [exit EXCEPT ![size] = FALSE]
      /\ searching' = [searching EXCEPT ![size] = TRUE]
      /\ UNCHANGED <<jobFunc, job, call>>
  BY DEF T!Construct
<1>8. ~Calling'
  BY <1>1, <1>7 DEF Calling
<1>9. SettledIsIdle'
  BY <1>1, <1>2, <1>6, <1>7 DEF SettledIsIdle, Settled, Quiet, Idle, ThreadFacts, Thread
<1>10. jobFunc[size] = NoJob /\ job[size] = NoJob
  BY <1>2, <1>3, <1>6 DEF ThreadFacts
<1>11. \A t \in Thread, j \in Job : ~Posted(j, t)'
  <2>1. ASSUME NEW t \in Thread, NEW j \in Job, Posted(j, t)' PROVE t = size
    BY <1>2, <1>6, <1>7, <2>1 DEF Posted, Quiet, ThreadFacts
  <2>2. ASSUME NEW j \in Job, Posted(j, size)' PROVE FALSE
    BY <1>1, <1>2, <1>7, <1>10, <2>2, PoolAssumption DEF Posted
  <2> QED BY <2>1, <2>2
<1>12. PostedIsWork'
  BY <1>11 DEF PostedIsWork
<1>13. Sizes'
  BY <1>1, <1>2 DEF Sizes, PoolInv, Control, Ctor
<1>14. Existence'
  BY <1>1, <1>2, <1>6, <1>7 DEF Existence, Exists, PoolInv, Control, Ctor, ThreadFacts, Thread
<1>15. UiCalls'
  BY <1>8 DEF UiCalls
<1>16. MainCalls'
  BY <1>2, <1>7 DEF MainCalls
<1> QED BY <1>5, <1>9, <1>12, <1>13, <1>14, <1>15, <1>16 DEF Control

\* A constructor waits for its thread.
LEMMA CtorWaits ==
  ASSUME PoolInv, NEW l, NEW m,
         <<l, m>> \in {<<"ctorWait", "ctorRun">>, <<"ctorRunWait", "created">>},
         At(l), WaitFor(size), Goto(m, 0), UNCHANGED <<want, size, search>>
  PROVE  [T!Next]_threadVars /\ Control'
<1>1. /\ call[UI].op = "none" /\ ~Calling /\ ui.loc = l /\ ui'.loc = m /\ ui'.at = 0
      /\ l \in {"ctorWait", "ctorRunWait"} /\ m \in {"ctorRun", "created"}
  BY DEF Calling, T!Free, At, Goto, PoolInv, TypeOK, Handler
<1>2. /\ ~SearchMayRun /\ ~MainSearches /\ call[Main].op = "none" /\ search.loc = "off"
      /\ size \in Nat /\ size \in Thread
  BY <1>1, NoSearchWhile DEF Ctor
<1>3. T!CallWait(UI, size) /\ T!MayCall(UI, size)
  BY <1>1, <1>2, UiMayCall DEF Exists, WaitFor, At, Ctor
<1>4. T!Next
  BY <1>2, <1>3 DEF T!Next
<1>5. ThreadFacts /\ ThreadFacts'
  BY <1>4, StepFacts
<1>6. /\ call' = [call EXCEPT ![UI] = [op |-> "wait", on |-> size, job |-> NoJob]]
      /\ UNCHANGED <<own, searching, exit, jobFunc, job>>
  BY <1>3 DEF T!CallWait, T!SetCall
<1>7. call'[UI] = [op |-> "wait", on |-> size, job |-> NoJob] /\ call'[Main] = call[Main]
  BY <1>2, <1>5, <1>6, PoolAssumption DEF ThreadFacts, Main
<1>8. Calling' /\ ~SearchMayRun'
  BY <1>1, <1>7 DEF Calling, SearchMayRun, FirstWait
<1>9. \A u \in Thread : Settled(u)' => Settled(u)
  BY <1>1, <1>2, <1>8 DEF Settled, PostLoop, WaitLoop
<1>10. SettledIsIdle'
  BY <1>6, <1>9 DEF SettledIsIdle, Idle, PoolInv, Control
<1>11. \A u \in Thread, j \in Job : Posted(j, u)' => Posted(j, u)
  BY <1>5, <1>6, <1>7 DEF Posted
<1>12. \A j \in Job : Work(j) => Work(j)'
  BY <1>1, <1>2, <1>8 DEF Work, InSetup
<1>13. PostedIsWork'
  BY <1>9, <1>11, <1>12 DEF PostedIsWork, PoolInv, Control
<1>14. Sizes'
  BY <1>1, <1>2 DEF Sizes, PoolInv, Control, Ctor
<1>15. Existence'
  BY <1>1, <1>6 DEF Existence, Exists, PoolInv, Control, Ctor
<1>16. UiCalls'
  BY <1>1, <1>7 DEF UiCalls
<1>17. MainCalls'
  BY <1>2, <1>7 DEF MainCalls
<1> QED BY <1>4, <1>10, <1>13, <1>14, <1>15, <1>16, <1>17 DEF Control

\* A constructor has its thread create the worker.
LEMMA CtorRuns ==
  ASSUME PoolInv, Quiet, At("ctorRun"), RunJob("create", size), Goto("ctorRunWait", 0),
         UNCHANGED <<want, size, search>>
  PROVE  [T!Next]_threadVars /\ Control'
<1>1. /\ call[UI].op = "none" /\ ~Calling /\ ui.loc = "ctorRun" /\ ui'.loc = "ctorRunWait" /\ ui'.at = 0
      /\ "create" \in Job
  BY DEF Calling, T!Free, At, Goto, PoolInv, TypeOK, Job, Handler
<1>2. /\ ~SearchMayRun /\ ~MainSearches /\ call[Main].op = "none" /\ search.loc = "off"
      /\ size \in Nat /\ size \in Thread
  BY <1>1, NoSearchWhile DEF Ctor
<1>3. T!CallRun(UI, size, "create") /\ T!MayCall(UI, size)
  BY <1>1, <1>2, UiMayCall DEF Exists, RunJob, At, Ctor
<1>4. T!Next
  BY <1>1, <1>2, <1>3 DEF T!Next
<1>5. ThreadFacts /\ ThreadFacts'
  BY <1>4, StepFacts
<1>6. /\ call' = [call EXCEPT ![UI] = [op |-> "run", on |-> size, job |-> "create"]]
      /\ UNCHANGED <<own, searching, exit, jobFunc, job>>
  BY <1>3 DEF T!CallRun, T!SetCall
<1>7. call'[UI] = [op |-> "run", on |-> size, job |-> "create"] /\ call'[Main] = call[Main]
  BY <1>2, <1>5, <1>6, PoolAssumption DEF ThreadFacts, Main
<1>8. Calling' /\ ~SearchMayRun'
  BY <1>1, <1>7 DEF Calling, SearchMayRun, FirstWait
<1>9. SettledIsIdle'
  BY <1>1, <1>6 DEF SettledIsIdle, Settled, Idle, Quiet
<1>11. \A u \in Thread, j \in Job : Posted(j, u)' => j = "create" /\ u = size
  BY <1>5, <1>6, <1>7 DEF Posted, Quiet
<1>12. PostedIsWork'
  BY <1>1, <1>2, <1>8, <1>11 DEF PostedIsWork, Settled, Work
<1>14. Sizes'
  BY <1>1, <1>2 DEF Sizes, PoolInv, Control, Ctor
<1>15. Existence'
  BY <1>1, <1>6 DEF Existence, Exists, PoolInv, Control, Ctor
<1>16. UiCalls'
  BY <1>1, <1>7 DEF UiCalls, Posts
<1>17. MainCalls'
  BY <1>2, <1>7 DEF MainCalls
<1> QED BY <1>4, <1>9, <1>12, <1>14, <1>15, <1>16, <1>17 DEF Control

\* One constructor, or the last one, has returned.
LEMMA CtorDone ==
  ASSUME PoolInv, UNCHANGED <<threadVars, want, search>>,
         \/ At("created") /\ Goto("create", 0) /\ size' = size + 1
         \/ At("create") /\ size = want /\ Goto("poolClear", 0) /\ size' = size /\ Quiet
  PROVE  Control'
<1>1. /\ call[UI].op = "none" /\ ~Calling /\ ~Calling' /\ ui'.at = 0
      /\ UNCHANGED <<own, searching, exit, jobFunc, job, call>>
      /\ \/ ui.loc = "created" /\ ui'.loc = "create" /\ size' = size + 1
         \/ ui.loc = "create" /\ ui'.loc = "poolClear" /\ size' = size /\ size = want
  BY DEF Calling, T!Free, At, Goto, PoolInv, TypeOK, threadVars, Handler
<1>2. /\ ~SearchMayRun /\ ~MainSearches /\ call[Main].op = "none" /\ search.loc = "off"
      /\ size \in Nat /\ (ui.loc = "created" => size \in Thread /\ size < want)
      /\ want \in 1 .. MaxThreads
  BY <1>1, NoSearchWhile DEF Ctor, PoolInv, Control, Sizes
<1>3. \A t \in Thread : t < size' => Idle(t)
  BY <1>1, <1>2 DEF PoolInv, Control, SettledIsIdle, Settled, PostLoop, WaitLoop, Thread, Quiet
<1>4. \A t \in Thread, j \in Job : ~Posted(j, t)
  <2>1. CASE ui.loc = "create"
    BY <1>1, <2>1 DEF Quiet, At
  <2>2. CASE ui.loc = "created"
    <3>1. ASSUME NEW t \in Thread, NEW j \in Job, Posted(j, t) PROVE FALSE
      <4>1. Exists(t) /\ ~Settled(t)
        BY <3>1, PostedExists
      <4>2. t <= size
        BY <2>2, <4>1 DEF Exists, Ctor
      <4> QED BY <1>1, <1>2, <2>2, <4>1, <4>2 DEF Settled, PostLoop, WaitLoop, Thread
    <3> QED BY <3>1
  <2> QED BY <1>1, <2>1, <2>2
<1>5. SettledIsIdle'
  BY <1>1, <1>3 DEF SettledIsIdle, Settled, Idle
<1>6. PostedIsWork'
  BY <1>1, <1>4 DEF PostedIsWork, Posted
<1>7. Sizes'
  BY <1>1, <1>2, PoolAssumption DEF Sizes, PoolInv, Control, Ctor
<1>8. Existence'
  BY <1>1, <1>2 DEF Existence, Exists, PoolInv, Control, Ctor, Thread
<1>9. UiCalls'
  BY <1>1 DEF UiCalls
<1>10. MainCalls'
  BY <1>1, <1>2 DEF MainCalls
<1> QED BY <1>5, <1>6, <1>7, <1>8, <1>9, <1>10 DEF Control

-----------------------------------------------------------------------------
(***************************************************************************)
(* The steps of the Thread objects.                                        *)
(***************************************************************************)
Unmoved == UNCHANGED <<ui, want, size, search>>

\* A thread that does not search, exists and is not being destroyed is idle.
LEMMA NotSearching ==
  ASSUME PoolInv, NEW t \in Thread, own[t] # "none", ~exit[t], ~searching[t]
  PROVE  Idle(t) /\ job[t] = NoJob /\ jobFunc[t] = NoJob
<1>1. ThreadFacts
  BY Facts DEF PoolInv
<1>2. own[t] # "gone"
  BY DEF PoolInv, Control, Existence
<1> QED BY <1>1, <1>2 DEF ThreadFacts, Idle

\* The thread that is called is not among those known to be idle.
LEMMA CalledUnsettled ==
  ASSUME PoolInv, NEW p \in {UI, Main}, call[p].op = "run"
  PROVE  ~Settled(call[p].on)
<1> DEFINE t == call[p].on
<1>1. ThreadFacts
  BY Facts DEF PoolInv
<1>2. t \in Thread /\ call[p].job \in Job /\ own[t] # "none"
  BY <1>1 DEF ThreadFacts
<1>3. CASE ~exit[t]
  BY <1>2, <1>3, PostedExists DEF Posted
<1>4. CASE exit[t]
  <2>1. ui.loc = "destroy" /\ Calling /\ t = ui.at - 1
    BY <1>2, <1>4 DEF PoolInv, Control, Existence
  <2>2. ~SearchMayRun
    BY <2>1 DEF SearchMayRun, FirstWait
  <2> QED BY <1>2, <2>1, <2>2 DEF Settled, PostLoop, PoolInv, Control, Sizes, Thread
<1> QED BY <1>3, <1>4

\* A client falls asleep in its call, and the idle loop of a thread.
LEMMA SleepControl ==
  ASSUME PoolInv, Unmoved, UNCHANGED <<own, searching, exit, jobFunc, job, call>>
  PROVE  Control'
<1>1. Sizes'
  BY DEF Unmoved, PoolInv, Control, Sizes, MainSearches, Busy
<1>2. Existence'
  BY DEF Unmoved, PoolInv, Control, Existence, Exists, Done, Calling
<1>3. UiCalls' /\ MainCalls'
  BY DEF Unmoved, PoolInv, Control, UiCalls, MainCalls, Calling, Posts, WaitsForMain, MainSearches, Busy
<1>4. \A t \in Thread : Settled(t)' <=> Settled(t)
  BY DEF Unmoved, Settled, SearchMayRun, WaitsForMain, Calm, MainSearches, Busy, Joined, Done, Calling
<1>5. SettledIsIdle'
  BY <1>4 DEF PoolInv, Control, SettledIsIdle, Idle
<1>6. PostedIsWork'
  BY <1>4 DEF Unmoved, PoolInv, Control, PostedIsWork, Posted, Work, SearchMayRun, WaitsForMain, InSetup
<1> QED BY <1>1, <1>2, <1>3, <1>5, <1>6 DEF Control

\* run_custom_job() hands its function over.
LEMMA RunCustomJobControl ==
  ASSUME PoolInv, Unmoved, NEW p \in {UI, Main}, T!RunCustomJob(p)
  PROVE  [T!Next]_threadVars /\ Control'
<1> DEFINE t == call[p].on
<1>1. T!Next
  BY DEF T!Next, T!ClientStep
<1>2. ThreadFacts /\ ThreadFacts'
  BY <1>1, StepFacts
<1>3. CASE T!Sleep(p, t)
  BY <1>1, <1>3, SleepControl DEF T!Sleep
<1>4. CASE /\ ~searching[t]
           /\ jobFunc' = [jobFunc EXCEPT ![t] = call[p].job]
           /\ searching' = [searching EXCEPT ![t] = TRUE]
           /\ call' = [call EXCEPT ![p].op = "notify"]
           /\ UNCHANGED <<own, exit, job, cv>>
  <2>1. t \in Thread /\ call[p].op = "run" /\ own[t] # "none" /\ UI # Main /\ Main \in Thread
    BY <1>2, PoolAssumption DEF T!RunCustomJob, ThreadFacts, Main, Thread
  <2>2. /\ call'[p].op = "notify" /\ call'[p].on = t /\ call'[p].job = call[p].job
        /\ \A q \in {UI, Main} \ {p} : call'[q] = call[q]
    BY <1>2, <1>4 DEF ThreadFacts
  <2>3. \A q \in {UI, Main} : /\ (call'[q].op = "none" <=> call[q].op = "none")
                              /\ (call'[q].op = "wait" <=> call[q].op = "wait")
                              /\ (call'[q].op = "join" <=> call[q].op = "join")
                              /\ call'[q].on = call[q].on /\ call'[q].job = call[q].job
                              /\ (call[q].op \in {"run", "notify"} <=> call'[q].op \in {"run", "notify"})
    BY <2>1, <2>2
  <2>4. Calling' = Calling /\ WaitsForMain' = WaitsForMain /\ MainSearches' = MainSearches
    BY <1>4, <2>1, <2>3 DEF Calling, WaitsForMain, MainSearches, Busy
  <2>5. Joined' = Joined /\ Done' = Done /\ SearchMayRun' = SearchMayRun
    BY <2>1, <2>3, <2>4 DEF Unmoved, Joined, Done, SearchMayRun
  <2>6. \A u \in Thread : Settled(u)' <=> Settled(u)
    BY <2>4, <2>5 DEF Unmoved, Settled, Calm
  <2>7. SettledIsIdle'
    BY <1>2, <1>4, <2>1, <2>6, CalledUnsettled DEF PoolInv, Control, SettledIsIdle, Idle, ThreadFacts
  <2>8. \A u \in Thread, j \in Job : Posted(j, u)' => Posted(j, u)
    BY <1>2, <1>4, <2>1, <2>2 DEF Posted, ThreadFacts
  <2>9. PostedIsWork'
    BY <2>5, <2>6, <2>8 DEF Unmoved, PoolInv, Control, PostedIsWork, Work, InSetup
  <2>10. Sizes'
    BY <2>4 DEF Unmoved, PoolInv, Control, Sizes
  <2>11. Existence'
    BY <1>4, <2>4, <2>5 DEF Unmoved, PoolInv, Control, Existence, Exists
  <2>12. UiCalls'
    BY <1>4, <2>1, <2>2, <2>3, <2>4 DEF Unmoved, PoolInv, Control, UiCalls, Posts
  <2>13. MainCalls'
    BY <1>4, <2>1, <2>3, <2>4 DEF Unmoved, PoolInv, Control, MainCalls, Posts
  <2> QED BY <1>1, <2>7, <2>9, <2>10, <2>11, <2>12, <2>13 DEF Control
<1> QED BY <1>3, <1>4 DEF T!RunCustomJob

\* The notify_one() of run_custom_job(), after which it returns.
LEMMA NotifyControl ==
  ASSUME PoolInv, Unmoved, NEW p \in {UI, Main}, T!Notify(p)
  PROVE  [T!Next]_threadVars /\ Control'
<1> DEFINE t == call[p].on
<1>1. T!Next
  BY DEF T!Next, T!ClientStep
<1>2. ThreadFacts /\ ThreadFacts'
  BY <1>1, StepFacts
<1>3. t \in Thread /\ call[p].op = "notify" /\ own[t] # "none" /\ UI # Main /\ Main \in Thread
  BY <1>2, PoolAssumption DEF T!Notify, ThreadFacts, Main, Thread
<1>4. UNCHANGED <<own, searching, exit, jobFunc, job>>
  BY DEF T!Notify
<1>5. /\ \A q \in {UI, Main} \ {p} : call'[q] = call[q]
      /\ IF exit[t] THEN call'[p].op = "join" /\ call'[p].on = t ELSE call'[p].op = "none"
  BY <1>2 DEF T!Notify, T!Return, T!NoCall, ThreadFacts
<1>6. CASE p = UI
  <2>1. call'[Main] = call[Main] /\ Calling
    BY <1>3, <1>5, <1>6 DEF Calling
  <2>2. /\ ui.loc \notin WaitLoop \cup {"helpersWait", "ctorRun", "created"}
        /\ ui.loc = "destroy" => exit[t]
        /\ exit[t] => ui.loc = "destroy" /\ t = ui.at - 1
    BY <1>3, <1>6, <2>1 DEF PoolInv, Control, UiCalls, WaitsForMain, FirstWait, Posts, WaitLoop, Existence
  <2>3. /\ ui.loc = "destroy" => Calling' /\ Done' = Done
        /\ SearchMayRun' = SearchMayRun /\ MainSearches' = MainSearches /\ Joined' = Joined
    BY <1>3, <1>4, <1>5, <1>6, <2>1, <2>2
    DEF Unmoved, Calling, Done, SearchMayRun, WaitsForMain, MainSearches, Busy, Joined
  <2>4. \A u \in Thread : Settled(u)' <=> Settled(u)
    BY <2>2, <2>3 DEF Unmoved, Settled, Calm
  <2>5. SettledIsIdle'
    BY <1>4, <2>4 DEF PoolInv, Control, SettledIsIdle, Idle
  <2>6. \A u \in Thread, j \in Job : Posted(j, u)' => Posted(j, u)
    BY <1>3, <1>4, <1>5 DEF Posted
  <2>7. PostedIsWork'
    BY <2>3, <2>4, <2>6 DEF Unmoved, PoolInv, Control, PostedIsWork, Work, InSetup
  <2>8. Sizes' /\ MainCalls'
    BY <2>1, <2>3 DEF Unmoved, PoolInv, Control, Sizes, MainCalls, Posts
  <2>9. Existence'
    BY <1>4, <2>1, <2>3 DEF Unmoved, PoolInv, Control, Existence, Exists
  <2>10. UiCalls'
    BY <1>3, <1>4, <1>5, <1>6, <2>2 DEF Unmoved, UiCalls, Calling, Thread
  <2> QED BY <1>1, <2>5, <2>7, <2>8, <2>9, <2>10 DEF Control
<1>7. CASE p = Main
  <2>1. call'[UI] = call[UI] /\ call[Main].op = "notify" /\ search.loc = "launch"
    BY <1>3, <1>5, <1>7 DEF PoolInv, Control, MainCalls
  <2>2. ~exit[t]
    <3>1. SearchMayRun
      BY <2>1, SearchBeforeWait
    <3> QED BY <1>3, <3>1 DEF PoolInv, Control, Existence, SearchMayRun, FirstWait
  <2>3. /\ Calling' = Calling /\ Done' = Done /\ SearchMayRun' = SearchMayRun
        /\ WaitsForMain' = WaitsForMain /\ MainSearches' = MainSearches
    BY <1>4, <2>1 DEF Unmoved, Calling, Done, SearchMayRun, WaitsForMain, MainSearches, Busy
  <2>4. \A u \in Thread : Settled(u)' <=> Settled(u)
    BY <2>1, <2>3 DEF Unmoved, Settled, Calm
  <2>5. SettledIsIdle'
    BY <1>4, <2>4 DEF PoolInv, Control, SettledIsIdle, Idle
  <2>6. \A u \in Thread, j \in Job : Posted(j, u)' => Posted(j, u)
    BY <1>3, <1>4, <1>5 DEF Posted
  <2>7. PostedIsWork'
    BY <2>3, <2>4, <2>6 DEF Unmoved, PoolInv, Control, PostedIsWork, Work, InSetup
  <2>8. Sizes' /\ UiCalls'
    BY <1>4, <2>1, <2>3 DEF Unmoved, PoolInv, Control, Sizes, UiCalls, Posts
  <2>9. Existence'
    BY <1>4, <2>3 DEF Unmoved, PoolInv, Control, Existence, Exists
  <2>10. MainCalls'
    BY <1>5, <1>7, <2>2 DEF MainCalls
  <2> QED BY <1>1, <2>5, <2>7, <2>8, <2>9, <2>10 DEF Control
<1> QED BY <1>6, <1>7

\* A wait of the UCI thread is over.
LEMMA UiWaitOver ==
  ASSUME PoolInv, Unmoved, call[UI].op = "wait", T!WaitForSearchFinished(UI), ~searching[call[UI].on],
         T!Return(UI), UNCHANGED <<own, searching, exit, jobFunc, job, cv>>
  PROVE  Control'
<1> DEFINE t == call[UI].on
<1>1. T!Next
  BY DEF T!Next, T!ClientStep
<1>2. ThreadFacts /\ ThreadFacts'
  BY <1>1, StepFacts
<1>3. t \in Thread /\ own[t] # "none" /\ UI # Main /\ Main \in Thread
  BY <1>2, PoolAssumption DEF ThreadFacts, Main, Thread
<1>4. call'[Main] = call[Main] /\ call'[UI].op = "none" /\ Calling /\ ~Calling' /\ ~WaitsForMain'
  BY <1>2, <1>3 DEF T!Return, T!NoCall, ThreadFacts, Calling, WaitsForMain
<1>5. ~exit[t]
  BY <1>3, <1>4 DEF PoolInv, Control, Existence, UiCalls, WaitsForMain, Main, FirstWait, WaitLoop, Posts, Sizes
<1>6. Idle(t) /\ job[t] = NoJob /\ jobFunc[t] = NoJob
  BY <1>3, <1>5, NotSearching
<1>7. MainSearches' = MainSearches /\ Joined' = Joined
  BY <1>4 DEF Unmoved, MainSearches, Busy, Joined
<1>8. \A u \in Thread, j \in Job : Posted(j, u)' => Posted(j, u) /\ u # t
  <2>1. \A u \in Thread, j \in Job : Posted(j, u)' => Posted(j, u)
    BY <1>4 DEF Posted
  <2>2. call[Main].op = "run" => call[Main].on # t
    <3>1. ASSUME call[Main].op = "run" PROVE SearchMayRun /\ call[Main].on # Main
      BY <3>1, SearchBeforeWait DEF PoolInv, Control, MainCalls, Main
    <3>2. SearchMayRun => t = Main
      BY <1>4 DEF SearchMayRun, WaitsForMain, PoolInv, Control, UiCalls, Posts, FirstWait, WaitLoop
    <3> QED BY <3>1, <3>2
  <2>3. \A j \in Job : ~Posted(j, t)
    BY <1>6, <2>2, PoolAssumption DEF Posted
  <2> QED BY <2>1, <2>3
<1>9. CASE SearchMayRun
  <2>1. t = Main /\ ui.loc \in FirstWait /\ ui.loc # "read" /\ WaitsForMain
        /\ ui.at = IF ui.loc = "helpersWait" THEN 1 ELSE 0
    BY <1>4, <1>9
    DEF SearchMayRun, WaitsForMain, PoolInv, Control, UiCalls, Posts, FirstWait, WaitLoop, Main, Sizes
  <2>2. ~SearchMayRun' /\ ~MainSearches
    BY <1>4, <1>6, <2>1 DEF Unmoved, SearchMayRun, MainSearches, Busy, Idle
  <2>3. \A u \in Thread : u < size /\ u # Main => Settled(u)
    BY <1>9, <2>1, <2>2 DEF Settled, Calm, PostLoop, WaitLoop, FirstWait
  <2>4. SettledIsIdle'
    BY <1>3, <1>6, <2>1, <2>3 DEF Unmoved, PoolInv, Control, SettledIsIdle, Settled, Idle, FirstWait
  <2>5. \A u \in Thread, j \in Job : ~Posted(j, u)'
    <3>1. ASSUME NEW u \in Thread, NEW j \in Job, Posted(j, u)' PROVE FALSE
      <4>1. Exists(u) /\ ~Settled(u) /\ u # Main
        BY <1>8, <2>1, <3>1, PostedExists
      <4> QED BY <2>1, <2>3, <4>1 DEF Exists, FirstWait, Ctor
    <3> QED BY <3>1
  <2>6. PostedIsWork'
    BY <2>5 DEF PostedIsWork
  <2>7. Sizes'
    BY <1>7 DEF Unmoved, PoolInv, Control, Sizes
  <2>8. Existence'
    BY <2>1 DEF Unmoved, PoolInv, Control, Existence, Exists, FirstWait
  <2>9. UiCalls' /\ MainCalls'
    BY <1>4, <1>7 DEF Unmoved, UiCalls, PoolInv, Control, MainCalls, Posts
  <2> QED BY <2>4, <2>6, <2>7, <2>8, <2>9 DEF Control
<1>10. CASE ~SearchMayRun
  <2>1. ~SearchMayRun'
    BY <1>4, <1>10 DEF Unmoved, SearchMayRun
  <2>2. /\ ui.loc \notin {"read", "setup", "ttClear", "poolClear", "reset", "hashWait", "ctorRunWait"}
        /\ ui.loc \in WaitLoop \cup {"helpersWait"} => t = ui.at - 1
        /\ ui.loc = "destroy" => ui.at = 0
        /\ ui.loc \in {"ctorRun", "created"} => t = size
    BY <1>4, <1>10 DEF SearchMayRun, PoolInv, Control, UiCalls, Posts, FirstWait, Existence, WaitLoop
  <2>3. \A u \in Thread : Settled(u)' => Settled(u) \/ u = t
    BY <1>3, <1>4, <1>10, <2>1, <2>2
    DEF Unmoved, Settled, PostLoop, WaitLoop, Done, Thread, PoolInv, Control, Sizes
  <2>4. SettledIsIdle'
    BY <1>6, <2>3 DEF PoolInv, Control, SettledIsIdle, Idle
  <2>5. PostedIsWork'
    BY <1>8, <1>10, <2>1, <2>3 DEF Unmoved, PoolInv, Control, PostedIsWork, Work, InSetup
  <2>6. Sizes'
    BY <1>7 DEF Unmoved, PoolInv, Control, Sizes
  <2>7. Existence'
    <3>1. \A u \in Thread : ~(exit[u] /\ own[u] # "none")
      BY <2>2 DEF PoolInv, Control, Existence, Sizes, Thread
    <3>2. \A u \in Thread : Exists(u)' <=> Exists(u)
      BY <1>4, <2>2 DEF Unmoved, Exists, Done, Thread, PoolInv, Control, Sizes
    <3> QED BY <3>1, <3>2 DEF PoolInv, Control, Existence
  <2>8. UiCalls' /\ MainCalls'
    BY <1>4, <1>7 DEF Unmoved, UiCalls, PoolInv, Control, MainCalls, Posts
  <2> QED BY <2>4, <2>5, <2>6, <2>7, <2>8 DEF Control
<1> QED BY <1>9, <1>10

\* The main thread has waited for a helper.
LEMMA MainWaitOver ==
  ASSUME PoolInv, Unmoved, call[Main].op = "wait", T!WaitForSearchFinished(Main), ~searching[call[Main].on],
         T!Return(Main), UNCHANGED <<own, searching, exit, jobFunc, job, cv>>
  PROVE  Control'
<1> DEFINE t == call[Main].on
<1>1. T!Next
  BY DEF T!Next, T!ClientStep
<1>2. ThreadFacts /\ ThreadFacts'
  BY <1>1, StepFacts
<1>3. /\ t \in Thread /\ own[t] # "none" /\ UI # Main /\ Main \in Thread /\ MainSearches
      /\ t = search.at - 1 /\ t \in 1 .. size - 1 /\ search.loc = "join" /\ SearchMayRun
  BY <1>2, PoolAssumption, SearchBeforeWait DEF ThreadFacts, Main, Thread, PoolInv, Control, MainCalls, Posts
<1>4. call'[UI] = call[UI] /\ call'[Main].op = "none"
  BY <1>2, <1>3 DEF T!Return, T!NoCall, ThreadFacts
<1>5. ~exit[t]
  BY <1>3 DEF PoolInv, Control, Existence, SearchMayRun, FirstWait
<1>6. Idle(t) /\ job[t] = NoJob /\ jobFunc[t] = NoJob
  BY <1>3, <1>5, NotSearching
<1>7. /\ MainSearches' = MainSearches /\ Calling' = Calling /\ WaitsForMain' = WaitsForMain
      /\ SearchMayRun' = SearchMayRun /\ Done' = Done
  BY <1>4 DEF Unmoved, MainSearches, Busy, Calling, WaitsForMain, SearchMayRun, Done
<1>8. \A u \in Thread, j \in Job : Posted(j, u)' => Posted(j, u) /\ u # t
  <2>1. \A u \in Thread, j \in Job : Posted(j, u)' => Posted(j, u)
    BY <1>4 DEF Posted
  <2>2. call[UI].op = "run" => call[UI].on # t
    BY <1>3 DEF SearchMayRun, WaitsForMain, PoolInv, Control, UiCalls, Main, Calling, Posts
  <2>3. \A j \in Job : ~Posted(j, t)
    BY <1>3, <1>6, <2>2, PoolAssumption DEF Posted
  <2> QED BY <2>1, <2>3
<1>9. \A u \in Thread : Settled(u)' => Settled(u) \/ u = t
  BY <1>3, <1>4, <1>7 DEF Unmoved, Settled, Calm, Joined, Thread, Main, PoolInv, Control, Sizes
<1>10. SettledIsIdle'
  BY <1>6, <1>9 DEF PoolInv, Control, SettledIsIdle, Idle
<1>11. PostedIsWork'
  BY <1>7, <1>8, <1>9 DEF Unmoved, PoolInv, Control, PostedIsWork, Work, InSetup
<1>12. Sizes'
  BY <1>7 DEF Unmoved, PoolInv, Control, Sizes
<1>13. Existence'
  BY <1>7 DEF Unmoved, PoolInv, Control, Existence, Exists
<1>14. UiCalls'
  BY <1>4, <1>7 DEF Unmoved, PoolInv, Control, UiCalls, Posts
<1>15. MainCalls'
  BY <1>4 DEF MainCalls
<1> QED BY <1>10, <1>11, <1>12, <1>13, <1>14, <1>15 DEF Control

\* A step of wait_for_search_finished().
LEMMA WaitControl ==
  ASSUME PoolInv, Unmoved, NEW p \in {UI, Main}, T!WaitForSearchFinished(p)
  PROVE  [T!Next]_threadVars /\ Control'
<1>1. T!Next
  BY DEF T!Next, T!ClientStep
<1>2. CASE T!Sleep(p, call[p].on)
  BY <1>1, <1>2, SleepControl DEF T!Sleep
<1>3. CASE ~searching[call[p].on] /\ T!Return(p) /\ UNCHANGED <<own, searching, exit, jobFunc, job, cv>>
  BY <1>1, <1>3, UiWaitOver, MainWaitOver DEF T!WaitForSearchFinished
<1> QED BY <1>2, <1>3 DEF T!WaitForSearchFinished

\* The destructor of a thread ends.
LEMMA JoinControl ==
  ASSUME PoolInv, Unmoved, NEW p \in {UI, Main}, T!Join(p)
  PROVE  [T!Next]_threadVars /\ Control'
<1> DEFINE t == call[p].on
<1>1. T!Next
  BY DEF T!Next, T!ClientStep
<1>2. ThreadFacts /\ ThreadFacts'
  BY <1>1, StepFacts
<1>3. /\ t \in Thread /\ own[t] = "gone" /\ exit[t] /\ UI # Main /\ Main \in Thread /\ call[p].op = "join"
      /\ ui.loc = "destroy" /\ Calling /\ t = ui.at - 1
  BY <1>2, PoolAssumption DEF T!Join, ThreadFacts, Main, Thread, PoolInv, Control, Existence
<1>4. p = UI /\ ~SearchMayRun /\ call[Main].op = "none" /\ ~MainSearches
  BY <1>3, SearchBeforeWait DEF SearchMayRun, FirstWait
<1>5. /\ own' = [own EXCEPT ![t] = "none"] /\ jobFunc' = [jobFunc EXCEPT ![t] = NoJob]
      /\ UNCHANGED <<searching, exit, job>>
      /\ call'[Main] = call[Main] /\ call'[UI].op = "none" /\ ~Calling' /\ ~SearchMayRun'
  BY <1>2, <1>3, <1>4 DEF Unmoved, T!Join, T!Return, T!NoCall, ThreadFacts, Calling, SearchMayRun, FirstWait
<1>6. \A u \in Thread : Settled(u)' => Settled(u) /\ u # t
  BY <1>3, <1>4, <1>5 DEF Unmoved, Settled, PostLoop, WaitLoop, Thread, PoolInv, Control, Sizes
<1>7. SettledIsIdle'
  BY <1>2, <1>5, <1>6 DEF PoolInv, Control, SettledIsIdle, Idle, ThreadFacts
<1>8. \A u \in Thread, j \in Job : Posted(j, u)' => Posted(j, u)
  BY <1>2, <1>5, PoolAssumption DEF Posted, ThreadFacts
<1>9. PostedIsWork'
  BY <1>4, <1>5, <1>6, <1>8 DEF Unmoved, PoolInv, Control, PostedIsWork, Work, InSetup
<1>10. Sizes'
  BY <1>2, <1>3, <1>4, <1>5 DEF Unmoved, PoolInv, Control, Sizes
<1>11. Existence'
  BY <1>2, <1>3, <1>5
  DEF Unmoved, PoolInv, Control, Existence, Exists, Done, Thread, ThreadFacts, Sizes
<1>12. UiCalls' /\ MainCalls'
  BY <1>4, <1>5 DEF UiCalls, MainCalls
<1> QED BY <1>1, <1>7, <1>9, <1>10, <1>11, <1>12 DEF Control

\* A thread comes back to its idle loop and says that it is done.
LEMMA IdleEnterControl ==
  ASSUME PoolInv, Unmoved, NEW t \in Thread, T!IdleEnter(t)
  PROVE  [T!Next]_threadVars /\ Control'
<1>1. T!Next
  BY DEF T!Next, T!OwnerStep
<1>2. ThreadFacts /\ ThreadFacts'
  BY <1>1, StepFacts
<1>3. /\ own[t] = "enter" /\ own' = [own EXCEPT ![t] = "parked"]
      /\ searching' = [searching EXCEPT ![t] = FALSE]
      /\ UNCHANGED <<exit, jobFunc, job, call>>
  BY DEF T!IdleEnter
<1>4. /\ MainSearches' = MainSearches /\ Calling' = Calling /\ WaitsForMain' = WaitsForMain
      /\ SearchMayRun' = SearchMayRun /\ Done' = Done /\ Joined' = Joined
  BY <1>2, <1>3 DEF Unmoved, MainSearches, Busy, Calling, WaitsForMain, SearchMayRun, Done, Joined, ThreadFacts
<1>5. \A u \in Thread : Settled(u)' <=> Settled(u)
  BY <1>4 DEF Unmoved, Settled, Calm
<1>6. SettledIsIdle'
  BY <1>2, <1>3, <1>5 DEF PoolInv, Control, SettledIsIdle, Idle, ThreadFacts
<1>7. PostedIsWork'
  BY <1>3, <1>4, <1>5 DEF Unmoved, PoolInv, Control, PostedIsWork, Posted, Work, InSetup
<1>8. Sizes'
  BY <1>4 DEF Unmoved, PoolInv, Control, Sizes
<1>9. Existence'
  BY <1>2, <1>3, <1>4 DEF Unmoved, PoolInv, Control, Existence, Exists, ThreadFacts
<1>10. UiCalls' /\ MainCalls'
  BY <1>3, <1>4 DEF Unmoved, PoolInv, Control, UiCalls, MainCalls, Posts
<1> QED BY <1>1, <1>6, <1>7, <1>8, <1>9, <1>10 DEF Control

\* A thread wakes up in its idle loop, to a job, to its end or to nothing.
LEMMA IdleWakeControl ==
  ASSUME PoolInv, Unmoved, NEW t \in Thread, T!IdleWake(t)
  PROVE  [T!Next]_threadVars /\ Control'
<1>1. T!Next
  BY DEF T!Next, T!OwnerStep
<1>2. ThreadFacts /\ ThreadFacts'
  BY <1>1, StepFacts
<1>3. CASE T!Sleep(t, t)
  BY <1>1, <1>3, SleepControl DEF T!Sleep
<1>4. CASE /\ own[t] = "parked" /\ searching[t]
           /\ \/ exit[t] /\ own' = [own EXCEPT ![t] = "gone"] /\ UNCHANGED <<jobFunc, job>>
              \/ /\ ~exit[t] /\ own' = [own EXCEPT ![t] = "busy"]
                 /\ job' = [job EXCEPT ![t] = jobFunc[t]]
                 /\ jobFunc' = [jobFunc EXCEPT ![t] = NoJob]
           /\ UNCHANGED <<searching, exit, call>>
  <2>1. ~Idle(t) /\ ~Settled(t)
    BY <1>4 DEF Idle, PoolInv, Control, SettledIsIdle
  <2>2. MainSearches => MainSearches'
    BY <1>2, <1>4, PoolAssumption DEF MainSearches, Busy, ThreadFacts, Main, Thread
  <2>3. search.loc # "off" => MainSearches /\ MainSearches'
    BY <2>2 DEF PoolInv, Control, Sizes
  <2>4. /\ Calling' = Calling /\ WaitsForMain' = WaitsForMain
        /\ SearchMayRun' = SearchMayRun /\ Done' = Done /\ Joined' = Joined
    BY <1>4 DEF Unmoved, Calling, WaitsForMain, SearchMayRun, Done, Joined
  <2>5. \A u \in Thread : Settled(u)' <=> Settled(u)
    BY <2>3, <2>4 DEF Unmoved, Settled, Calm
  <2>6. SettledIsIdle'
    BY <1>2, <1>4, <2>1, <2>5 DEF PoolInv, Control, SettledIsIdle, Idle, ThreadFacts
  <2>7. \A u \in Thread, j \in Job : Posted(j, u)' => Posted(j, u)
    BY <1>2, <1>4, PoolAssumption DEF Posted, ThreadFacts
  <2>8. PostedIsWork'
    BY <2>4, <2>5, <2>7 DEF Unmoved, PoolInv, Control, PostedIsWork, Work, InSetup
  <2>9. Sizes'
    BY <2>3 DEF Unmoved, PoolInv, Control, Sizes
  <2>10. Existence'
    BY <1>2, <1>4, <2>4 DEF Unmoved, PoolInv, Control, Existence, Exists, ThreadFacts
  <2>11. UiCalls' /\ MainCalls'
    BY <1>4, <2>2, <2>4 DEF Unmoved, PoolInv, Control, UiCalls, MainCalls, Posts
  <2> QED BY <1>1, <2>6, <2>8, <2>9, <2>10, <2>11 DEF Control
<1> QED BY <1>3, <1>4 DEF T!IdleWake

\* The job of a thread is done, if it was start_searching() of the main thread
\* with its bestmove.
LEMMA FinishJobControl ==
  ASSUME PoolInv, UNCHANGED <<ui, want, size>>, NEW t \in Thread, T!FinishJob(t),
         \/ t = Main /\ MainSearches /\ search.loc \in {"off", "best"} /\ T!Free(Main)
            /\ search' = [loc |-> "off", at |-> 0]
         \/ ~(t = Main /\ MainSearches) /\ search' = search
  PROVE  [T!Next]_threadVars /\ Control'
<1>1. T!Next
  BY DEF T!Next
<1>2. ThreadFacts /\ ThreadFacts'
  BY <1>1, StepFacts
<1>3. /\ own[t] = "busy" /\ own' = [own EXCEPT ![t] = "enter"] /\ job' = [job EXCEPT ![t] = NoJob]
      /\ UNCHANGED <<searching, exit, jobFunc, call>>
  BY DEF T!FinishJob
<1>4. /\ Calling' = Calling /\ WaitsForMain' = WaitsForMain
      /\ SearchMayRun' = SearchMayRun /\ Done' = Done
  BY <1>3 DEF Calling, WaitsForMain, SearchMayRun, Done
<1>5. \/ MainSearches' = MainSearches /\ search' = search /\ Joined' = Joined
      \/ /\ MainSearches /\ search.loc \in {"off", "best"} /\ call[Main].op = "none"
         /\ search'.loc = "off"
  BY <1>2, <1>3 DEF MainSearches, Busy, Joined, T!Free, ThreadFacts
<1>6. \A u \in Thread : Settled(u)' => Settled(u)
  BY <1>4, <1>5 DEF Settled, Calm
<1>7. SettledIsIdle'
  BY <1>2, <1>3, <1>6 DEF PoolInv, Control, SettledIsIdle, Idle, ThreadFacts
<1>8. \A u \in Thread, j \in Job : Posted(j, u)' => Posted(j, u)
  BY <1>2, <1>3, PoolAssumption DEF Posted, ThreadFacts
<1>9. PostedIsWork'
  BY <1>4, <1>6, <1>8 DEF PoolInv, Control, PostedIsWork, Work, InSetup
<1>10. Sizes'
  BY <1>5 DEF PoolInv, Control, Sizes
<1>11. Existence'
  BY <1>2, <1>3, <1>4 DEF PoolInv, Control, Existence, Exists, ThreadFacts
<1>12. UiCalls' /\ MainCalls'
  BY <1>3, <1>4, <1>5 DEF PoolInv, Control, UiCalls, MainCalls, Posts
<1> QED BY <1>1, <1>7, <1>9, <1>10, <1>11, <1>12 DEF Control

-----------------------------------------------------------------------------
(***************************************************************************)
(* The steps of the main thread in start_searching().                      *)
(***************************************************************************)
\* The main thread goes on without a call.
LEMMA MainMove ==
  ASSUME PoolInv, UNCHANGED <<threadVars, ui, want, size>>, MainSearches, T!Free(Main),
         NEW l, NEW m, NEW i, search.loc = l, search' = [loc |-> m, at |-> i],
         \/ <<l, m, i>> \in {<<"off", "launch", 1>>, <<"iterate", "hold", 0>>, <<"hold", "join", 1>>}
         \/ <<l, m, i>> \in {<<"launch", "iterate", 0>>, <<"join", "best", 0>>} /\ search.at = size
  PROVE  Control'
<1>1. /\ UNCHANGED <<own, searching, exit, jobFunc, job, call>> /\ call[Main].op = "none"
      /\ search'.loc = m /\ search'.at = i
  BY DEF threadVars, T!Free
<1>2. /\ Calling' = Calling /\ WaitsForMain' = WaitsForMain /\ MainSearches' = MainSearches
      /\ SearchMayRun' = SearchMayRun /\ Done' = Done /\ Joined = search.at /\ Joined' = i
  BY <1>1 DEF Calling, WaitsForMain, SearchMayRun, Done, Joined, MainSearches, Busy
<1>3. SearchMayRun /\ size >= 1 /\ size \in Nat
  BY SearchBeforeWait DEF PoolInv, Control, Sizes, SearchMayRun, FirstWait, Ctor
<1>4. \A u \in Thread : Settled(u)' => Settled(u)
  BY <1>1, <1>2, <1>3 DEF Settled, Calm, Thread, Main, PoolInv, Control, Sizes
<1>5. SettledIsIdle'
  BY <1>1, <1>4 DEF PoolInv, Control, SettledIsIdle, Idle
<1>6. PostedIsWork'
  BY <1>1, <1>2, <1>4 DEF PoolInv, Control, PostedIsWork, Posted, Work, InSetup
<1>7. Sizes'
  BY <1>1, <1>2, <1>3 DEF PoolInv, Control, Sizes
<1>8. Existence'
  BY <1>1, <1>2 DEF PoolInv, Control, Existence, Exists
<1>9. UiCalls' /\ MainCalls'
  BY <1>1, <1>2 DEF PoolInv, Control, UiCalls, MainCalls, Posts
<1> QED BY <1>5, <1>6, <1>7, <1>8, <1>9 DEF Control

\* The main thread calls a helper, to start it or to wait for it.
LEMMA MainCallsHelper ==
  ASSUME PoolInv, UNCHANGED <<ui, want, size>>, MainSearches, T!Free(Main),
         search.at < size, NEW l, search.loc = l, search' = [loc |-> l, at |-> search.at + 1],
         \/ l = "launch" /\ T!CallRun(Main, search.at, "search")
         \/ l = "join" /\ T!CallWait(Main, search.at)
  PROVE  [T!Next]_threadVars /\ Control'
<1> DEFINE t == search.at
<1>1. SearchMayRun /\ size \in Nat /\ size <= MaxThreads /\ t \in 1 .. size - 1
  BY SearchBeforeWait DEF PoolInv, Control, Sizes
<1>2. /\ t \in Thread /\ t # Main /\ UI # Main /\ Main \in Thread /\ "search" \in Job
      /\ call[Main].op = "none"
  BY <1>1, PoolAssumption DEF Thread, Main, Job, T!Free
<1>3. own[t] # "none" /\ ~exit[t]
  BY <1>1, <1>2 DEF PoolInv, Control, Existence, Exists, SearchMayRun, FirstWait, Ctor
<1>4. call[UI].op = "none" \/ call[UI].on # t
  BY <1>1, <1>2
  DEF SearchMayRun, WaitsForMain, PoolInv, Control, UiCalls, Main, Calling, FirstWait, WaitLoop
<1>5. T!MayCall(Main, t)
  BY <1>2, <1>3, <1>4 DEF T!MayCall, T!NobodyElse
<1>6. T!Next
  BY <1>2, <1>5 DEF T!Next
<1>7. ThreadFacts /\ ThreadFacts'
  BY <1>6, StepFacts
<1>8. PICK o \in {"run", "wait"}, j \in Job \cup {NoJob} :
        /\ call' = [call EXCEPT ![Main] = [op |-> o, on |-> t, job |-> j]]
        /\ \/ l = "launch" /\ o = "run" /\ j = "search"
           \/ l = "join" /\ o = "wait" /\ j = NoJob
        /\ UNCHANGED <<own, searching, exit, jobFunc, job>>
  BY <1>2 DEF T!CallRun, T!CallWait, T!SetCall
<1>9. /\ call'[Main] = [op |-> o, on |-> t, job |-> j] /\ call'[UI] = call[UI]
      /\ search'.loc = l /\ search'.at = t + 1 /\ l \in {"launch", "join"}
  BY <1>2, <1>7, <1>8 DEF ThreadFacts
<1>10. /\ Calling' = Calling /\ WaitsForMain' = WaitsForMain /\ MainSearches' = MainSearches
       /\ SearchMayRun' = SearchMayRun /\ Done' = Done /\ Joined = t /\ Joined' = t
  BY <1>1, <1>2, <1>8, <1>9 DEF Calling, WaitsForMain, SearchMayRun, Done, Joined, MainSearches, Busy
<1>11. \A u \in Thread : Settled(u)' => Settled(u) /\ (l = "launch" => u # t)
  BY <1>1, <1>9, <1>10 DEF Settled, Calm, Thread
<1>12. SettledIsIdle'
  BY <1>8, <1>11 DEF PoolInv, Control, SettledIsIdle, Idle
<1>13. \A u \in Thread, k \in Job : Posted(k, u)' => Posted(k, u) \/ (l = "launch" /\ k = "search" /\ u = t)
  BY <1>8, <1>9 DEF Posted
<1>14. PostedIsWork'
  BY <1>1, <1>10, <1>11, <1>13 DEF PoolInv, Control, PostedIsWork, Work, InSetup
<1>15. Sizes'
  BY <1>1, <1>9, <1>10 DEF PoolInv, Control, Sizes
<1>16. Existence'
  BY <1>8, <1>10 DEF PoolInv, Control, Existence, Exists
<1>17. UiCalls'
  BY <1>8, <1>9, <1>10 DEF PoolInv, Control, UiCalls, Posts
<1>18. MainCalls'
  BY <1>1, <1>8, <1>9, <1>10 DEF MainCalls, Posts
<1> QED BY <1>6, <1>12, <1>14, <1>15, <1>16, <1>17, <1>18 DEF Control

-----------------------------------------------------------------------------
(***************************************************************************)
(* Every step keeps the contract of the threads and Control.               *)
(***************************************************************************)
LEMMA Untouched ==
  ASSUME PoolInv, UNCHANGED threadVars, Unmoved
  PROVE  [T!Next]_threadVars /\ Control'
BY SleepControl DEF threadVars

\* The commands of the GUI.
LEMMA CommandControl ==
  ASSUME PoolInv, Command
  PROVE  [T!Next]_threadVars /\ Control'
<1>1. CASE Stop \/ Ponderhit \/ SetPosition
  BY <1>1, Untouched DEF Stop, Ponderhit, SetPosition, Unmoved
<1>2. want \in 1 .. MaxThreads
  BY DEF PoolInv, TypeOK
<1>3. CASE Go
  BY <1>2, <1>3, FirstWaitStep DEF Go, Read, At, FirstWait
<1>4. CASE NewGame
  BY <1>2, <1>4, FirstWaitStep DEF NewGame, Read, At, FirstWait, ElseUnchanged
<1>5. CASE SetHash
  BY <1>2, <1>5, FirstWaitStep DEF SetHash, Read, At, FirstWait, ElseUnchanged
<1>6. CASE SetEvalFile
  BY <1>2, <1>6, FirstWaitStep DEF SetEvalFile, Read, At, FirstWait, ElseUnchanged
<1>7. CASE SetThreads
  BY <1>7, FirstWaitStep DEF SetThreads, Read, At, FirstWait, ElseUnchanged
<1>8. CASE Quit
  BY <1>2, <1>8, FirstWaitStep DEF Quit, Read, At, FirstWait
<1> QED BY <1>1, <1>3, <1>4, <1>5, <1>6, <1>7, <1>8 DEF Command

\* A loop over the pool comes down to one of its turns or its end.
LEMMA UiStepControl ==
  ASSUME PoolInv, UiStep
  PROVE  [T!Next]_threadVars /\ Control'
<1> USE DEF ElseUnchanged
<1>1. ui \in Handler
  BY DEF PoolInv, TypeOK
<1>2. \A l : At(l) /\ l \notin {"read", "ctorRunWait", "created"} \cup PostLoop \cup WaitLoop => Quiet
  BY QuietWhen DEF At
<1>3. \A l \in WaitLoop : At(l) /\ ui.at = size => Quiet
  BY QuietWhen DEF At
<1>4. ASSUME NEW l, Goto(l, 0) PROVE ui'.loc = l /\ ui'.at = 0
  BY <1>1, <1>4 DEF Goto, Handler
<1>5. ASSUME Reset PROVE [T!Next]_threadVars /\ Control'
  <2>1. Quiet /\ ui.loc = "reset" /\ T!Free(UI) /\ ui'.loc = "setup" /\ ui'.at = 0
    BY <1>2, <1>4, <1>5 DEF Reset, PostLoop, WaitLoop, At
  <2> QED BY <1>5, <2>1, QuietMove DEF Reset, Ctor
<1>6. ASSUME SetUpWorkers PROVE [T!Next]_threadVars /\ Control'
  <2>1. CASE At("setup") /\ ui.at < size /\ RunJob("setup", ui.at) /\ Goto("setup", ui.at + 1)
    BY <1>6, <2>1, PostOne DEF SetUpWorkers
  <2>2. CASE At("setup") /\ ui.at = size /\ Goto("setupWait", 0) /\ UNCHANGED threadVars
    BY <1>6, <2>2, PostsOver DEF SetUpWorkers
  <2>3. CASE At("setupWait") /\ ui.at < size /\ WaitFor(ui.at) /\ Goto("setupWait", ui.at + 1)
    BY <1>6, <2>3, WaitOne DEF SetUpWorkers, WaitLoop
  <2>4. CASE At("setupWait") /\ ui.at = size /\ Goto("start", 0) /\ UNCHANGED threadVars
    <3>1. Quiet /\ ui.loc = "setupWait" /\ T!Free(UI) /\ ui'.loc = "start" /\ ui'.at = 0
      BY <1>3, <1>4, <2>4 DEF WaitLoop, At
    <3> QED BY <1>6, <2>4, <3>1, QuietMove DEF SetUpWorkers, Ctor
  <2> QED BY <1>6, <2>1, <2>2, <2>3, <2>4 DEF SetUpWorkers, ForEach
<1>7. ASSUME StartMain PROVE [T!Next]_threadVars /\ Control'
  <2>1. Quiet
    BY <1>2, <1>7 DEF StartMain, PostLoop, WaitLoop
  <2> QED BY <1>7, <2>1, StartMainControl DEF StartMain
<1>8. ASSUME ClearTable PROVE [T!Next]_threadVars /\ Control'
  <2>1. CASE At("ttClear") /\ ui.at < size /\ RunJob("ttclear", ui.at) /\ Goto("ttClear", ui.at + 1)
    BY <1>8, <2>1, PostOne DEF ClearTable
  <2>2. CASE At("ttClear") /\ ui.at = size /\ Goto("ttClearWait", 0) /\ UNCHANGED threadVars
    BY <1>8, <2>2, PostsOver DEF ClearTable
  <2>3. CASE At("ttClearWait") /\ ui.at < size /\ WaitFor(ui.at) /\ Goto("ttClearWait", ui.at + 1)
    BY <1>8, <2>3, WaitOne DEF ClearTable, WaitLoop
  <2>4. ASSUME NEW l \in {"poolClear", "read"}, At("ttClearWait"), ui.at = size, Goto(l, 0),
               UNCHANGED threadVars
        PROVE  Control'
    <3>1. Quiet /\ ui.loc = "ttClearWait" /\ T!Free(UI) /\ ui'.loc = l /\ ui'.at = 0
      BY <1>3, <1>4, <2>4 DEF WaitLoop, At
    <3> QED BY <1>8, <2>4, <3>1, QuietMove DEF ClearTable, Ctor
  <2> QED BY <1>8, <2>1, <2>2, <2>3, <2>4 DEF ClearTable, ForEach
<1>9. ASSUME ClearPool PROVE [T!Next]_threadVars /\ Control'
  <2>1. CASE At("poolClear") /\ ui.at < size /\ RunJob("clear", ui.at) /\ Goto("poolClear", ui.at + 1)
    BY <1>9, <2>1, PostOne DEF ClearPool
  <2>2. CASE At("poolClear") /\ ui.at = size /\ Goto("poolClearWait", 0) /\ UNCHANGED threadVars
    BY <1>9, <2>2, PostsOver DEF ClearPool
  <2>3. CASE At("poolClearWait") /\ ui.at < size /\ WaitFor(ui.at) /\ Goto("poolClearWait", ui.at + 1)
    BY <1>9, <2>3, WaitOne DEF ClearPool, WaitLoop
  <2>4. ASSUME NEW l \in {"setDone", "read"}, At("poolClearWait"), ui.at = size, Goto(l, 0),
               UNCHANGED threadVars
        PROVE  Control'
    <3>1. Quiet /\ ui.loc = "poolClearWait" /\ T!Free(UI) /\ ui'.loc = l /\ ui'.at = 0
      BY <1>3, <1>4, <2>4 DEF WaitLoop, At
    <3> QED BY <1>9, <2>4, <3>1, QuietMove DEF ClearPool, Ctor
  <2> QED BY <1>9, <2>1, <2>2, <2>3, <2>4 DEF ClearPool, ForEach
<1>10. ASSUME WaitBeforeDestroy PROVE [T!Next]_threadVars /\ Control'
  <2>1. CASE At("helpersWait") /\ ui.at < size /\ WaitFor(ui.at) /\ Goto("helpersWait", ui.at + 1)
    BY <1>10, <2>1, WaitOne DEF WaitBeforeDestroy
  <2>2. CASE At("helpersWait") /\ ui.at = size /\ Goto("mainWait", 0) /\ UNCHANGED threadVars
    <3>1. Quiet /\ ui.loc = "helpersWait" /\ T!Free(UI) /\ ui'.loc = "mainWait" /\ ui'.at = 0
      BY <1>2, <1>4, <2>2 DEF PostLoop, WaitLoop, At
    <3> QED BY <1>10, <2>2, <3>1, QuietMove DEF WaitBeforeDestroy, Ctor
  <2>3. CASE At("mainWait") /\ WaitFor(Main) /\ Goto("destroy", 0)
    <3>1. Quiet
      BY <1>2, <2>3 DEF PostLoop, WaitLoop
    <3> QED BY <1>10, <2>3, <3>1, QuietWait DEF WaitBeforeDestroy
  <2> QED BY <1>10, <2>1, <2>2, <2>3 DEF WaitBeforeDestroy, ForEach
<1>11. ASSUME DestroyThreads PROVE [T!Next]_threadVars /\ Control'
  BY <1>11, DestroyOne, DestroyDone DEF DestroyThreads
<1>12. ASSUME CreateThreads PROVE [T!Next]_threadVars /\ Control'
  <2>1. CASE At("create") /\ size < want /\ T!Construct(UI, size) /\ Goto("ctorWait", 0)
    BY <1>2, <1>12, <2>1, ConstructOne DEF CreateThreads, PostLoop, WaitLoop, At
  <2>2. CASE At("create") /\ size = want /\ Goto("poolClear", 0) /\ UNCHANGED threadVars
    BY <1>2, <1>12, <2>2, CtorDone DEF CreateThreads, PostLoop, WaitLoop, At
  <2>3. CASE At("ctorWait") /\ WaitFor(size) /\ Goto("ctorRun", 0)
    BY <1>12, <2>3, CtorWaits DEF CreateThreads, At
  <2>4. CASE At("ctorRun") /\ RunJob("create", size) /\ Goto("ctorRunWait", 0)
    BY <1>2, <1>12, <2>4, CtorRuns DEF CreateThreads, PostLoop, WaitLoop, At
  <2>5. CASE At("ctorRunWait") /\ WaitFor(size) /\ Goto("created", 0)
    BY <1>12, <2>5, CtorWaits DEF CreateThreads, At
  <2>6. CASE At("created") /\ Goto("create", 0) /\ UNCHANGED threadVars
    BY <1>12, <2>6, CtorDone DEF CreateThreads
  <2> QED BY <1>12, <2>1, <2>2, <2>3, <2>4, <2>5, <2>6 DEF CreateThreads
<1>13. ASSUME WaitBeforeHash PROVE [T!Next]_threadVars /\ Control'
  <2>1. ASSUME NEW l \in {"setDone", "hashWait"}, At(l) PROVE Quiet
    BY <1>2, <2>1 DEF PostLoop, WaitLoop
  <2> QED BY <1>13, <2>1, QuietWait DEF WaitBeforeHash
<1> QED BY <1>5, <1>6, <1>7, <1>8, <1>9, <1>10, <1>11, <1>12, <1>13 DEF UiStep

\* The steps of the main search thread.
LEMMA MainControl ==
  ASSUME PoolInv, MainStep \/ FailLow \/ AfterIteration \/ LeaveIterations(TRUE)
  PROVE  [T!Next]_threadVars /\ Control'
<1> USE DEF MainUnchanged, UiUnchanged
<1>1. \A l : MainAt(l) => MainSearches /\ search.loc = l /\ T!Free(Main)
  BY DEF MainAt, MainSearches
<1>2. Main \in Thread
  BY PoolAssumption DEF Main, Thread
<1>3. ASSUME BeginSearch PROVE [T!Next]_threadVars /\ Control'
  <2>1. CASE PrintBestmove
    BY <1>1, <1>2, <1>3, <2>1, FinishJobControl DEF BeginSearch, PrintBestmove, MainGoto
  <2>2. CASE MainGoto("launch", 1) /\ UNCHANGED <<threadVars, flags>> /\ MainUnchanged
    BY <1>1, <1>3, <2>2, MainMove DEF BeginSearch, MainGoto
  <2> QED BY <1>3, <2>1, <2>2 DEF BeginSearch
<1>4. ASSUME LaunchHelpers PROVE [T!Next]_threadVars /\ Control'
  <2>1. CASE search.at < size /\ T!CallRun(Main, search.at, "search") /\ MainGoto("launch", search.at + 1)
    BY <1>1, <1>4, <2>1, MainCallsHelper DEF LaunchHelpers, ForEachHelper, MainGoto
  <2>2. CASE search.at = size /\ MainGoto("iterate", 0) /\ UNCHANGED threadVars
    BY <1>1, <1>4, <2>2, MainMove DEF LaunchHelpers, ForEachHelper, MainGoto
  <2> QED BY <1>4, <2>1, <2>2 DEF LaunchHelpers, ForEachHelper
<1>5. ASSUME JoinHelpers PROVE [T!Next]_threadVars /\ Control'
  <2>1. CASE search.at < size /\ T!CallWait(Main, search.at) /\ MainGoto("join", search.at + 1)
    BY <1>1, <1>5, <2>1, MainCallsHelper DEF JoinHelpers, ForEachHelper, MainGoto
  <2>2. CASE search.at = size /\ MainGoto("best", 0) /\ UNCHANGED threadVars
    BY <1>1, <1>5, <2>2, MainMove DEF JoinHelpers, ForEachHelper, MainGoto
  <2> QED BY <1>5, <2>1, <2>2 DEF JoinHelpers, ForEachHelper
<1>6. ASSUME CheckTime \/ FailLow \/ AfterIteration PROVE [T!Next]_threadVars /\ Control'
  BY <1>6, Untouched DEF CheckTime, FailLow, AfterIteration, Unmoved
<1>7. ASSUME NEW why, LeaveIterations(why) PROVE [T!Next]_threadVars /\ Control'
  BY <1>1, <1>7, MainMove DEF LeaveIterations, MainGoto
<1>8. ASSUME Hold PROVE [T!Next]_threadVars /\ Control'
  BY <1>1, <1>8, MainMove DEF Hold, MainGoto
<1>9. ASSUME Bestmove PROVE [T!Next]_threadVars /\ Control'
  BY <1>1, <1>2, <1>9, FinishJobControl DEF Bestmove, PrintBestmove, MainGoto
<1> QED BY <1>3, <1>4, <1>5, <1>6, <1>7, <1>8, <1>9 DEF MainStep

\* The jobs.
LEMMA JobControl ==
  ASSUME PoolInv, NEW t \in Thread, JobStep(t) \/ HelperFinish(t, TRUE) \/ MateFound(t)
  PROVE  [T!Next]_threadVars /\ Control'
<1> USE DEF MainUnchanged, UiUnchanged
<1>1. ASSUME CreateWorker(t) \/ SetUpWorker(t) \/ Clear(t) PROVE [T!Next]_threadVars /\ Control'
  <2>1. ~(t = Main /\ MainSearches)
    BY <1>1 DEF CreateWorker, SetUpWorker, Clear, MainSearches, Busy
  <2> QED BY <1>1, <2>1, FinishJobControl DEF CreateWorker, SetUpWorker, Clear
<1>2. ASSUME NEW why, HelperFinish(t, why) PROVE [T!Next]_threadVars /\ Control'
  BY <1>2, FinishJobControl DEF HelperFinish
<1>3. ASSUME MateFound(t) PROVE [T!Next]_threadVars /\ Control'
  BY <1>3, Untouched DEF MateFound, Unmoved
<1> QED BY <1>1, <1>2, <1>3 DEF JobStep

\* The steps of the calls and of the idle loops.
LEMMA ThreadControl ==
  ASSUME PoolInv,
         \/ \E p \in {UI, Main} : ThreadStep(T!ClientStep(p))
         \/ \E t \in Thread : ThreadStep(T!OwnerStep(t)) \/ ThreadStep(T!SpuriousWake(t))
  PROVE  [T!Next]_threadVars /\ Control'
<1>1. Unmoved
  BY DEF ThreadStep, UiUnchanged, Unmoved
<1>2. CASE \E p \in {UI, Main} : T!ClientStep(p)
  BY <1>1, <1>2, RunCustomJobControl, NotifyControl, WaitControl, JoinControl DEF T!ClientStep
<1>3. CASE \E t \in Thread : T!OwnerStep(t)
  BY <1>1, <1>3, IdleEnterControl, IdleWakeControl DEF T!OwnerStep
<1>4. ASSUME NEW t \in Thread, T!SpuriousWake(t) PROVE [T!Next]_threadVars /\ Control'
  <2>1. T!Next
    BY <1>4 DEF T!Next
  <2> QED BY <1>1, <1>4, <2>1, SleepControl DEF T!SpuriousWake
<1> QED BY <1>2, <1>3, <1>4 DEF ThreadStep

\* Every step keeps Control and is one that WorkerThread allows.
LEMMA NextControl ==
  ASSUME PoolInv, [Next]_vars
  PROVE  [T!Next]_threadVars /\ Control'
<1>1. CASE UNCHANGED vars \/ TimeRunsOut \/ Exited
  BY <1>1, Untouched DEF vars, TimeRunsOut, Exited, Unmoved, UiUnchanged
<1> QED BY <1>1, CommandControl, UiStepControl, MainControl, JobControl, ThreadControl DEF Next

-----------------------------------------------------------------------------
(***************************************************************************)
(* Every step keeps the types.                                             *)
(***************************************************************************)
\* set_position() finds a list that is not in use.
LEMMA FreshList ==
  ASSUME NEW a, NEW b
  PROVE  (CHOOSE d \in Deque : d \notin {0, a, b}) \in Deque \ {0}
<1>1. \E d \in Deque : d \notin {0, a, b}
  <2>1. CASE 1 \notin {a, b}
    BY <2>1 DEF Deque
  <2>2. CASE 2 \notin {a, b}
    BY <2>2 DEF Deque
  <2>3. CASE 3 \notin {a, b}
    BY <2>3 DEF Deque
  <2> QED BY <2>1, <2>2, <2>3
<1> QED BY <1>1

\* The limits in force are among those a go command may carry.
LEMMA LimitsType ==
  ASSUME NEW l \in Limits \cup {NoLimits}
  PROVE  l \in [ponder : BOOLEAN, infinite : BOOLEAN, tm : BOOLEAN,
                budget : BOOLEAN, depth : BOOLEAN, mate : BOOLEAN]
<1>1. CASE l \in Limits
  BY <1>1, PoolAssumption, Zenon
<1>2. CASE l = NoLimits
  BY <1>2, FALSE \in BOOLEAN DEF NoLimits
<1> QED BY <1>1, <1>2

\* Type correctness, action by action.
LEMMA ThinkingType == Thinking \in BOOLEAN
BY DEF Thinking, InSetup, Posted

\* A handler begins in a known place.
LEMMA HandleType ==
  ASSUME NEW l \in UiLoc, NEW i \in {0, 1},
         NEW c \in {"go", "newgame", "hash", "net", "resize", "quit"}, Handle(c, l, i)
  PROVE  ui' \in Handler
BY PoolAssumption DEF Handle, Handler

\* The commands.
LEMMA CommandTypes ==
  ASSUME PoolInv, Command, T!TypeOK', Sizes'
  PROVE  TypeOK'
<1> USE DEF PoolInv, TypeOK, ElseUnchanged, flags, lists
<1>1. CASE Stop
  BY <1>1, ThinkingType DEF Stop
<1>2. CASE Ponderhit
  BY <1>2 DEF Ponderhit
<1>3. CASE SetPosition
  BY <1>3, FreshList DEF SetPosition
<1>4. CASE Go
  <2>1. ui' \in Handler
    BY <1>4, HandleType DEF Go, UiLoc
  <2>2. goal' \in Goal
    BY <1>4, PoolAssumption DEF Go, Goal
  <2> QED BY <1>4, <2>1, <2>2 DEF Go
<1>5. CASE NewGame
  <2>1. ui' \in Handler
    BY <1>5, HandleType DEF NewGame, UiLoc
  <2> QED BY <1>5, <2>1 DEF NewGame
<1>6. CASE SetHash
  <2>1. ui' \in Handler
    BY <1>6, HandleType DEF SetHash, UiLoc
  <2> QED BY <1>6, <2>1 DEF SetHash
<1>7. CASE SetEvalFile
  <2>1. ui' \in Handler
    BY <1>7, HandleType DEF SetEvalFile, UiLoc
  <2> QED BY <1>7, <2>1 DEF SetEvalFile
<1>8. CASE SetThreads
  <2>1. ui' \in Handler
    BY <1>8, HandleType DEF SetThreads, UiLoc
  <2> QED BY <1>8, <2>1 DEF SetThreads
<1>9. CASE Quit
  <2>1. ui' \in Handler
    BY <1>9, HandleType DEF Quit, UiLoc
  <2> QED BY <1>9, <2>1, ThinkingType DEF Quit
<1> QED BY <1>1, <1>2, <1>3, <1>4, <1>5, <1>6, <1>7, <1>8, <1>9 DEF Command

\* The handlers.
LEMMA UiStepTypes ==
  ASSUME PoolInv, UiStep, T!TypeOK', Sizes'
  PROVE  TypeOK'
<1>1. ASSUME NEW l \in UiLoc, NEW i, Goto(l, i) PROVE ui' \in Handler
  <2>1. ui \in Handler /\ ui' = [ui EXCEPT !.loc = l, !.at = i]
    BY <1>1 DEF Goto, PoolInv, TypeOK
  <2>2. ui'.at \in 0 .. MaxThreads
    BY PoolAssumption DEF Sizes
  <2> QED BY <2>1, <2>2 DEF Handler
<1>2. size' \in 0 .. MaxThreads
  BY PoolAssumption DEF Sizes
<1>3. ui' \in Handler
  BY <1>1 DEF UiStep, Reset, SetUpWorkers, StartMain, ClearTable, ClearPool, WaitBeforeDestroy,
              DestroyThreads, CreateThreads, WaitBeforeHash, ForEach, UiLoc
<1> USE DEF PoolInv, TypeOK, ElseUnchanged, flags, lists
<1>4. CASE Reset
  <2>1. goal.limits \in Limits \cup {NoLimits}
    BY DEF Goal
  <2>2. goal.limits.ponder \in BOOLEAN
    BY <2>1, LimitsType
  <2>3. setupStates' \in Deque /\ states' \in Deque
    BY <1>4 DEF Reset, Deque
  <2>4. stop' \in BOOLEAN /\ ponder' \in BOOLEAN /\ stopOnPonderhit' \in BOOLEAN
        /\ late' \in BOOLEAN /\ told' \in BOOLEAN
    BY <1>4, <2>2 DEF Reset
  <2> QED BY <1>3, <1>4, <2>3, <2>4 DEF Reset
<1>5. CASE SetUpWorkers \/ ClearTable \/ ClearPool \/ WaitBeforeDestroy \/ WaitBeforeHash
  BY <1>3, <1>5 DEF SetUpWorkers, ClearTable, ClearPool, WaitBeforeDestroy, WaitBeforeHash
<1>6. CASE StartMain
  BY <1>3, <1>6 DEF StartMain, NoGoal, Goal
<1>7. CASE DestroyThreads
  BY <1>2, <1>3, <1>7 DEF DestroyThreads
<1>8. CASE CreateThreads
  BY <1>2, <1>3, <1>8 DEF CreateThreads
<1> QED BY <1>4, <1>5, <1>6, <1>7, <1>8 DEF UiStep

\* The main search thread.
LEMMA MainTypes ==
  ASSUME PoolInv, MainStep \/ FailLow \/ AfterIteration \/ LeaveIterations(TRUE), T!TypeOK', Sizes'
  PROVE  TypeOK'
<1>1. search' \in SearchState \/ search' = search
  <2>1. ASSUME NEW l \in {"off", "launch", "iterate", "hold", "join", "best"}, NEW i \in {0, 1},
               MainGoto(l, i)
        PROVE  search' \in SearchState
    BY <2>1, PoolAssumption DEF MainGoto, SearchState
  <2>2. ASSUME NEW l \in {"launch", "join"}, search.at < size, MainAt(l), MainGoto(l, search.at + 1)
        PROVE  search' \in SearchState
    BY <2>2, PoolAssumption DEF MainAt, MainGoto, SearchState, PoolInv, Control, Sizes
  <2>3. CASE BeginSearch \/ Bestmove
    BY <2>1, <2>3 DEF BeginSearch, Bestmove, PrintBestmove
  <2>4. CASE LaunchHelpers \/ JoinHelpers
    BY <2>1, <2>2, <2>4 DEF LaunchHelpers, JoinHelpers, ForEachHelper
  <2>5. CASE CheckTime \/ FailLow \/ AfterIteration
    BY <2>5 DEF CheckTime, FailLow, AfterIteration
  <2>6. ASSUME NEW why, LeaveIterations(why) PROVE search' \in SearchState
    BY <2>1, <2>6 DEF LeaveIterations
  <2>7. CASE Hold
    BY <2>1, <2>7 DEF Hold
  <2> QED BY <2>3, <2>4, <2>5, <2>6, <2>7 DEF MainStep
<1> USE <1>1 DEF PoolInv, TypeOK, MainUnchanged, UiUnchanged, flags, lists
<1>2. CASE BeginSearch
  BY <1>2 DEF BeginSearch, PrintBestmove
<1>3. CASE LaunchHelpers \/ JoinHelpers
  BY <1>3 DEF LaunchHelpers, JoinHelpers, ForEachHelper
<1>4. CASE CheckTime \/ FailLow
  BY <1>4 DEF CheckTime, FailLow
<1>5. CASE AfterIteration
  BY <1>5 DEF AfterIteration
<1>6. ASSUME NEW why, LeaveIterations(why) PROVE TypeOK'
  BY <1>6 DEF LeaveIterations
<1>7. CASE Hold
  BY <1>7 DEF Hold
<1>8. CASE Bestmove
  BY <1>8 DEF Bestmove, PrintBestmove
<1> QED BY <1>2, <1>3, <1>4, <1>5, <1>6, <1>7, <1>8 DEF MainStep

\* The jobs.
LEMMA JobTypes ==
  ASSUME PoolInv, NEW t \in Thread, JobStep(t) \/ HelperFinish(t, TRUE) \/ MateFound(t), T!TypeOK'
  PROVE  TypeOK'
<1> USE DEF PoolInv, TypeOK, MainUnchanged, UiUnchanged, flags, lists
<1>1. CASE CreateWorker(t)
  BY <1>1 DEF CreateWorker
<1>2. CASE SetUpWorker(t)
  <2>1. [limits |-> goal.limits, roots |-> goal.roots, list |-> setupStates] \in Worker
    BY DEF Goal, Worker
  <2> QED BY <1>2, <2>1 DEF SetUpWorker
<1>3. CASE Clear(t)
  BY <1>3 DEF Clear
<1>4. ASSUME NEW why, HelperFinish(t, why) PROVE TypeOK'
  BY <1>4 DEF HelperFinish
<1>5. CASE MateFound(t)
  BY <1>5 DEF MateFound
<1> QED BY <1>1, <1>2, <1>3, <1>4, <1>5 DEF JobStep

-----------------------------------------------------------------------------
\* The first layer of the invariant is inductive.
LEMMA NextPoolInv ==
  ASSUME PoolInv, [Next]_vars
  PROVE  PoolInv'
<1>1. [T!Next]_threadVars /\ Control'
  BY NextControl
<1>2. TP!IInv'
  BY <1>1, ThreadInv DEF PoolInv
<1>3. T!TypeOK'
  BY <1>2 DEF TP!IInv, TP!TypeOK, T!TypeOK, TP!OwnState, T!OwnState, TP!Call, T!Call, TP!CallOp, T!CallOp
<1>4. TypeOK'
  <2>1. Sizes'
    BY <1>1 DEF Control
  <2>2. CASE UNCHANGED vars \/ TimeRunsOut \/ Exited
    BY <1>3, <2>2 DEF vars, TimeRunsOut, Exited, UiUnchanged, PoolInv, TypeOK, flags, lists
  <2>3. ASSUME NEW A, ThreadStep(A) PROVE TypeOK'
    BY <1>3, <2>3 DEF ThreadStep, UiUnchanged, PoolInv, TypeOK, flags, lists
  <2>4. CASE \/ \E p \in {UI, Main} : ThreadStep(T!ClientStep(p))
             \/ \E t \in Thread : ThreadStep(T!OwnerStep(t)) \/ ThreadStep(T!SpuriousWake(t))
    BY <1>3, <2>4 DEF ThreadStep, UiUnchanged, PoolInv, TypeOK, flags, lists
  <2> QED BY <1>3, <2>1, <2>2, <2>4, CommandTypes, UiStepTypes, MainTypes, JobTypes DEF Next
<1> QED BY <1>1, <1>2, <1>4 DEF PoolInv

\* It holds of the empty pool,
LEMMA InitPoolInv == Init => PoolInv
<1> SUFFICES ASSUME Init PROVE PoolInv
  OBVIOUS
<1>1. TP!Init
  BY DEF Init, T!Init, TP!Init, T!NoCall, TP!NoCall
<1>2. TP!IInv
  BY <1>1, TP!InitIInv, ThreadAssumed
<1>3. T!TypeOK
  BY <1>2 DEF TP!IInv, TP!TypeOK, T!TypeOK, TP!OwnState, T!OwnState, TP!Call, T!Call, TP!CallOp, T!CallOp
<1>4. ui \in Handler /\ goal \in Goal /\ worker \in [Thread -> Worker] /\ search \in SearchState
  BY PoolAssumption DEF Init, Handler, Goal, Worker, SearchState, UiLoc, NoGoal, Deque
<1>5. want \in 1 .. MaxThreads /\ size \in 0 .. MaxThreads /\ states \in Deque /\ setupStates \in Deque
  BY PoolAssumption DEF Init, Deque
<1>13. /\ stop \in BOOLEAN /\ ponder \in BOOLEAN /\ stopOnPonderhit \in BOOLEAN
       /\ built \in [Thread -> BOOLEAN] /\ late \in BOOLEAN /\ told \in BOOLEAN
  BY DEF Init
<1>12. TypeOK
  BY <1>3, <1>4, <1>5, <1>13 DEF TypeOK
<1>6. /\ own = [t \in Thread |-> "none"] /\ jobFunc = [t \in Thread |-> NoJob]
      /\ job = [t \in Thread |-> NoJob] /\ ui.loc = "create" /\ ui.at = 0 /\ size = 0
      /\ search.loc = "off" /\ Main \in Thread
  BY PoolAssumption DEF Init, T!Init, Main, Thread
<1>7. call[UI].op = "none" /\ call[Main].op = "none" /\ ~MainSearches
  BY <1>6 DEF Init, T!Init, T!NoCall, MainSearches, Busy
<1>8. Sizes
  BY <1>6, <1>7, PoolAssumption DEF Init, Sizes, Ctor
<1>9. Existence
  BY <1>6 DEF Existence, Exists, Ctor, Thread
<1>10. UiCalls /\ MainCalls
  BY <1>7 DEF UiCalls, MainCalls, Calling
<1>11. SettledIsIdle /\ PostedIsWork
  BY <1>6, <1>7, PoolAssumption DEF SettledIsIdle, Settled, PostedIsWork, Posted, Thread
<1> QED BY <1>2, <1>8, <1>9, <1>10, <1>11, <1>12 DEF PoolInv, Control

\* and so ever after.
LEMMA PoolInvariance == Spec => []PoolInv
<1> QED BY InitPoolInv, NextPoolInv, PTL DEF Spec

-----------------------------------------------------------------------------
(***************************************************************************)
(* What a step does to the jobs that are posted.                           *)
(***************************************************************************)
SamePosted == \A t \in Thread, j \in Job : Posted(j, t)' <=> Posted(j, t)

ClientOrOwner ==
  \/ \E p \in {UI, Main} : T!ClientStep(p)
  \/ \E t \in Thread : T!OwnerStep(t) \/ T!SpuriousWake(t)

\* The steps of a call and of idle_loop() hand a job on and lose none.
LEMMA HandedOn ==
  ASSUME PoolInv, ClientOrOwner
  PROVE  SamePosted
<1>1. T!Next
  BY DEF ClientOrOwner, T!Next
<1>2. ThreadFacts /\ ThreadFacts'
  BY <1>1, StepFacts
<1> USE PoolAssumption DEF ThreadFacts
<1>3. ASSUME NEW p \in {UI, Main}, T!RunCustomJob(p) PROVE SamePosted
  <2>1. CASE T!Sleep(p, call[p].on)
    BY <2>1 DEF SamePosted, Posted, T!Sleep
  <2>2. CASE /\ ~searching[call[p].on]
             /\ jobFunc' = [jobFunc EXCEPT ![call[p].on] = call[p].job]
             /\ searching' = [searching EXCEPT ![call[p].on] = TRUE]
             /\ call' = [call EXCEPT ![p].op = "notify"]
             /\ UNCHANGED <<own, exit, job, cv>>
    <3>1. call[p].op = "run" /\ call[p].on \in Thread /\ jobFunc[call[p].on] = NoJob
      BY <1>2, <1>3, <2>2 DEF T!RunCustomJob
    <3>2. /\ call'[p].op = "notify"
          /\ \A q \in {UI, Main} \ {p} : call'[q] = call[q]
      BY <1>2, <2>2
    <3>3. ASSUME NEW t \in Thread, NEW j \in Job PROVE Posted(j, t)' <=> Posted(j, t)
      <4>1. CASE t = call[p].on
        BY <1>2, <2>2, <3>1, <3>2, <4>1 DEF Posted
      <4>2. CASE t # call[p].on
        BY <1>2, <2>2, <3>1, <3>2, <4>2 DEF Posted
      <4> QED BY <4>1, <4>2
    <3> QED BY <3>3 DEF SamePosted
  <2> QED BY <1>3, <2>1, <2>2 DEF T!RunCustomJob
<1>4. ASSUME NEW p \in {UI, Main}, T!Notify(p) PROVE SamePosted
  <2>1. /\ call[p].op = "notify" /\ call'[p].op \in {"none", "join"}
        /\ \A q \in {UI, Main} \ {p} : call'[q] = call[q]
        /\ UNCHANGED <<exit, jobFunc, job>>
    BY <1>2, <1>4 DEF T!Notify, T!Return, T!NoCall
  <2> QED BY <2>1 DEF SamePosted, Posted
<1>5. ASSUME NEW p \in {UI, Main}, T!WaitForSearchFinished(p) PROVE SamePosted
  <2>1. CASE T!Sleep(p, call[p].on)
    BY <2>1 DEF SamePosted, Posted, T!Sleep
  <2>2. CASE T!Return(p) /\ UNCHANGED <<own, searching, exit, jobFunc, job, cv>>
    <3>1. /\ call[p].op = "wait" /\ call'[p].op = "none"
          /\ \A q \in {UI, Main} \ {p} : call'[q] = call[q]
      BY <1>2, <1>5, <2>2 DEF T!WaitForSearchFinished, T!Return, T!NoCall
    <3> QED BY <2>2, <3>1 DEF SamePosted, Posted
  <2> QED BY <1>5, <2>1, <2>2 DEF T!WaitForSearchFinished
<1>6. ASSUME NEW p \in {UI, Main}, T!Join(p) PROVE SamePosted
  <2>1. /\ call[p].op = "join" /\ call'[p].op = "none" /\ call[p].on \in Thread
        /\ \A q \in {UI, Main} \ {p} : call'[q] = call[q]
        /\ jobFunc' = [jobFunc EXCEPT ![call[p].on] = NoJob] /\ UNCHANGED <<exit, job>>
        /\ exit[call[p].on]
    BY <1>2, <1>6 DEF T!Join, T!Return, T!NoCall, PoolInv, Control, Existence
  <2> QED BY <1>2, <2>1 DEF SamePosted, Posted
<1>7. ASSUME NEW t \in Thread, T!IdleEnter(t) \/ T!SpuriousWake(t) PROVE SamePosted
  BY <1>7 DEF SamePosted, Posted, T!IdleEnter, T!SpuriousWake
<1>8. ASSUME NEW t \in Thread, T!IdleWake(t) PROVE SamePosted
  <2>1. job[t] = NoJob
    BY <1>2, <1>8 DEF T!IdleWake
  <2>2. CASE UNCHANGED <<exit, jobFunc, job, call>>
    BY <2>2 DEF SamePosted, Posted
  <2>3. CASE /\ job' = [job EXCEPT ![t] = jobFunc[t]] /\ jobFunc' = [jobFunc EXCEPT ![t] = NoJob]
             /\ UNCHANGED <<exit, call>>
    BY <1>2, <2>1, <2>3 DEF SamePosted, Posted
  <2> QED BY <1>8, <2>2, <2>3 DEF T!IdleWake, T!Sleep
<1> QED BY <1>3, <1>4, <1>5, <1>6, <1>7, <1>8 DEF ClientOrOwner, T!ClientStep, T!OwnerStep

\* A job that is done is the only one that goes.
LEMMA DoneJob ==
  ASSUME PoolInv, NEW t \in Thread, T!FinishJob(t)
  PROVE  /\ \A u \in Thread, j \in Job : Posted(j, u)' => Posted(j, u)
         /\ \A u \in Thread, j \in Job : Posted(j, u) /\ ~(u = t /\ j = job[t]) => Posted(j, u)'
         /\ RunsOnIdle => \A j \in Job : ~Posted(j, t)'
<1>1. T!Next
  BY DEF T!Next
<1>2. ThreadFacts /\ ThreadFacts'
  BY <1>1, StepFacts
<1>3. /\ own[t] = "busy" /\ job' = [job EXCEPT ![t] = NoJob] /\ UNCHANGED <<exit, jobFunc, call>>
  BY DEF T!FinishJob
<1>4. jobFunc[t] = NoJob
  BY <1>2, <1>3 DEF ThreadFacts
<1>5. \A u \in Thread : job'[u] = IF u = t THEN NoJob ELSE job[u]
  BY <1>2, <1>3 DEF ThreadFacts
<1>6. \A u \in Thread, j \in Job : Posted(j, u)' => Posted(j, u)
  BY <1>3, <1>5, PoolAssumption DEF Posted
<1>7. \A u \in Thread, j \in Job : Posted(j, u) /\ ~(u = t /\ j = job[t]) => Posted(j, u)'
  BY <1>3, <1>5, PoolAssumption DEF Posted
<1>8. ASSUME RunsOnIdle, NEW j \in Job PROVE ~Posted(j, t)'
  BY <1>3, <1>4, <1>5, <1>8, PoolAssumption DEF RunsOnIdle, Idle, Posted
<1> QED BY <1>6, <1>7, <1>8

\* A call posts its job, or it waits.
LEMMA PostedByCall ==
  ASSUME PoolInv, NEW p \in {UI, Main}, NEW t \in Thread, NEW i \in Job, T!CallRun(p, t, i), ~exit[t]
  PROVE  \A u \in Thread, j \in Job : Posted(j, u)' <=> Posted(j, u) \/ (u = t /\ j = i)
<1>1. ThreadFacts
  BY Facts DEF PoolInv
<1>2. /\ UNCHANGED <<exit, jobFunc, job>> /\ call[p].op = "none"
      /\ call'[p] = [op |-> "run", on |-> t, job |-> i]
      /\ \A q \in {UI, Main} \ {p} : call'[q] = call[q]
  BY <1>1 DEF T!CallRun, T!SetCall, T!Free, ThreadFacts
<1> QED BY <1>2 DEF Posted

\* A wait posts none.
LEMMA PostedByWait ==
  ASSUME PoolInv, NEW p \in {UI, Main}, NEW t \in Thread, T!CallWait(p, t)
  PROVE  SamePosted
<1>1. ThreadFacts
  BY Facts DEF PoolInv
<1>2. /\ UNCHANGED <<exit, jobFunc, job>> /\ call[p].op = "none"
      /\ call'[p] = [op |-> "wait", on |-> t, job |-> NoJob]
      /\ \A q \in {UI, Main} \ {p} : call'[q] = call[q]
  BY <1>1 DEF T!CallWait, T!SetCall, T!Free, ThreadFacts
<1> QED BY <1>2 DEF Posted, SamePosted

\* Nor does a step that leaves the threads alone.
LEMMA PostedUntouched ==
  ASSUME UNCHANGED threadVars
  PROVE  SamePosted
BY DEF SamePosted, Posted, threadVars

-----------------------------------------------------------------------------
\* A thread in whose turn of a loop a job is posted is idle.
LEMMA PostsToIdle ==
  ASSUME PoolInv, T!Free(UI)
  PROVE  /\ ui.loc \in PostLoop /\ ui.at < size => ui.at \in Thread /\ Idle(ui.at)
         /\ ui.loc = "start" => Main \in Thread /\ Idle(Main)
         /\ ui.loc = "ctorRun" => size \in Thread /\ Idle(size)
<1>1. ~Calling /\ ui.at \in Nat /\ size \in Nat /\ size <= MaxThreads
  BY DEF Calling, T!Free, PoolInv, Control, Sizes
<1>2. ASSUME ui.loc \in PostLoop, ui.at < size PROVE ui.at \in Thread /\ Idle(ui.at)
  <2>1. ui.at \in Thread
    BY <1>1, <1>2, PoolAssumption DEF Thread
  <2>2. Settled(ui.at)
    BY <1>1, <1>2, <2>1 DEF Settled, SearchMayRun, WaitsForMain, T!Free, PostLoop, WaitLoop
  <2> QED BY <2>1, <2>2 DEF PoolInv, Control, SettledIsIdle
<1>3. ASSUME ui.loc = "start" PROVE Main \in Thread /\ Idle(Main)
  <2>1. Main \in Thread /\ Main < size
    BY <1>1, <1>3, PoolAssumption DEF Thread, Main, PoolInv, Control, Sizes, Ctor
  <2>2. Quiet
    BY <1>3, QuietWhen DEF PostLoop, WaitLoop
  <2> QED BY <2>1, <2>2 DEF Quiet
<1>4. ASSUME ui.loc = "ctorRun" PROVE size \in Thread /\ Idle(size)
  <2>1. size \in Thread /\ Settled(size)
    BY <1>1, <1>4, NoSearchWhile DEF Ctor, Settled
  <2> QED BY <2>1 DEF PoolInv, Control, SettledIsIdle
<1> QED BY <1>2, <1>3, <1>4

\* The helper that the main thread starts next is idle and there to stay.
LEMMA LaunchesIdle ==
  ASSUME PoolInv, MainAt("launch"), search.at < size
  PROVE  search.at \in Thread /\ search.at # Main /\ Idle(search.at) /\ ~exit[search.at]
<1>1. SearchMayRun /\ size \in Nat /\ size <= MaxThreads /\ search.at \in 1 .. size - 1
  BY SearchBeforeWait DEF PoolInv, Control, Sizes, MainAt, MainSearches
<1>2. search.at \in Thread /\ search.at # Main
  BY <1>1, PoolAssumption DEF Thread, Main
<1>3. Settled(search.at)
  BY <1>1, <1>2 DEF MainAt, Settled, Calm, SearchMayRun, PostLoop, WaitLoop, FirstWait
<1>4. ~exit[search.at]
  BY <1>1, <1>2 DEF PoolInv, Control, Existence, Exists, SearchMayRun, FirstWait, Ctor
<1> QED BY <1>2, <1>3, <1>4 DEF PoolInv, Control, SettledIsIdle

\* The calls of run_custom_job() that begin.
LEMMA RunsThatBegin ==
  ASSUME PoolInv, Next, NEW p \in {UI, Main}, call[p].op # "run", call'[p].op = "run"
  PROVE  Idle(call'[p].on)
<1>1. ThreadFacts
  BY Facts DEF PoolInv
<1>2. UI # Main
  BY PoolAssumption DEF Main
<1>3. ASSUME NEW q \in {UI, Main}, NEW t, NEW j, T!CallRun(q, t, j), Idle(t) PROVE Idle(call'[p].on)
  BY <1>1, <1>2, <1>3 DEF T!CallRun, T!SetCall, ThreadFacts
<1>4. ASSUME NEW q \in {UI, Main}, NEW t, T!CallWait(q, t) PROVE FALSE
  BY <1>1, <1>2, <1>4 DEF T!CallWait, T!SetCall, ThreadFacts
<1>5. CASE UNCHANGED call
  BY <1>5
<1>6. CASE Command
  BY <1>4, <1>5, <1>6 DEF Command, Stop, Ponderhit, SetPosition, Go, NewGame, SetHash, SetEvalFile,
                          SetThreads, Quit, WaitFor, threadVars
<1>7. CASE UiStep
  <2>1. CASE Reset
    BY <1>5, <2>1 DEF Reset, threadVars
  <2>2. ASSUME NEW l \in PostLoop, NEW j, At(l), ui.at < size, RunJob(j, ui.at)
        PROVE  Idle(call'[p].on)
    BY <1>3, <2>2, PostsToIdle DEF RunJob, At
  <2>3. ASSUME NEW l, NEW m, ForEach(l, WaitFor, m) PROVE Idle(call'[p].on)
    BY <1>4, <1>5, <2>3 DEF ForEach, WaitFor, At, threadVars
  <2>4. CASE SetUpWorkers \/ ClearTable \/ ClearPool
    BY <1>5, <2>2, <2>3, <2>4 DEF SetUpWorkers, ClearTable, ClearPool, PostLoop, ForEach, threadVars
  <2>5. CASE StartMain
    BY <1>3, <2>5, PostsToIdle DEF StartMain, At, RunJob
  <2>6. CASE WaitBeforeDestroy
    BY <1>4, <2>3, <2>6 DEF WaitBeforeDestroy, WaitFor
  <2>7. CASE DestroyThreads
    <3>1. ASSUME T!Destroy(UI, ui.at, "search"), ui.at < size PROVE Idle(call'[p].on)
      <4>1. Idle(ui.at)
        BY <2>7, <3>1, PostsToIdle DEF DestroyThreads, At, PostLoop
      <4> QED BY <1>1, <1>2, <3>1, <4>1 DEF T!Destroy, T!SetCall, ThreadFacts
    <3> QED BY <1>5, <2>7, <3>1 DEF DestroyThreads, threadVars
  <2>8. CASE CreateThreads
    BY <1>3, <1>4, <1>5, <2>8, PostsToIdle DEF CreateThreads, T!Construct, RunJob, WaitFor, At, threadVars
  <2>9. CASE WaitBeforeHash
    BY <1>4, <2>9 DEF WaitBeforeHash, WaitFor
  <2> QED BY <1>7, <2>1, <2>4, <2>5, <2>6, <2>7, <2>8, <2>9 DEF UiStep
<1>8. CASE MainStep \/ FailLow \/ AfterIteration \/ LeaveIterations(TRUE)
  <2>1. CASE BeginSearch \/ Bestmove
    BY <1>5, <2>1 DEF BeginSearch, Bestmove, PrintBestmove, T!FinishJob, threadVars
  <2>2. CASE LaunchHelpers
    BY <1>3, <1>5, <2>2, LaunchesIdle DEF LaunchHelpers, ForEachHelper, threadVars
  <2>3. CASE JoinHelpers
    BY <1>4, <1>5, <2>3 DEF JoinHelpers, ForEachHelper, threadVars
  <2>4. ASSUME NEW why, LeaveIterations(why) PROVE UNCHANGED call
    BY <2>4 DEF LeaveIterations, threadVars
  <2>5. CASE CheckTime \/ FailLow \/ AfterIteration \/ Hold
    BY <1>5, <2>5 DEF CheckTime, FailLow, AfterIteration, Hold, threadVars
  <2> QED BY <1>5, <1>8, <2>1, <2>2, <2>3, <2>4, <2>5 DEF MainStep
<1>9. ASSUME NEW t \in Thread, JobStep(t) \/ HelperFinish(t, TRUE) \/ MateFound(t) PROVE UNCHANGED call
  BY <1>9 DEF JobStep, CreateWorker, SetUpWorker, Clear, HelperFinish, MateFound, T!FinishJob, threadVars
<1>10. ASSUME ClientOrOwner PROVE FALSE
  <2>1. ASSUME NEW q \in {UI, Main}, T!ClientStep(q) PROVE FALSE
    BY <1>1, <1>2, <2>1 DEF T!ClientStep, T!RunCustomJob, T!Notify, T!WaitForSearchFinished, T!Join,
                            T!Sleep, T!Return, T!NoCall, ThreadFacts
  <2>2. ASSUME NEW t \in Thread, T!OwnerStep(t) \/ T!SpuriousWake(t) PROVE UNCHANGED call
    BY <2>2 DEF T!OwnerStep, T!IdleEnter, T!IdleWake, T!SpuriousWake, T!Sleep
  <2> QED BY <1>10, <2>1, <2>2 DEF ClientOrOwner
<1>11. CASE TimeRunsOut \/ Exited
  BY <1>5, <1>11 DEF TimeRunsOut, Exited, vars, threadVars
<1> QED BY <1>5, <1>6, <1>7, <1>8, <1>9, <1>10, <1>11 DEF Next, ThreadStep, ClientOrOwner

\* An idle thread stays idle until the call that posts to it does: the calls
\* of others are on other threads.
LEMMA RunsOnIdleStep ==
  ASSUME PoolInv, RunsOnIdle, [Next]_vars
  PROVE  RunsOnIdle'
<1>1. [T!Next]_threadVars
  BY NextControl
<1>2. ThreadFacts /\ ThreadFacts'
  BY <1>1, StepFacts
<1>3. \A p, q \in {UI, Main} :
        p # q /\ call[p].op # "none" /\ call[q].op # "none" => call[p].on # call[q].on
  BY DEF PoolInv, TP!IInv, TP!Exclusive
<1>4. ASSUME NEW p \in {UI, Main}, call[p].op = "run", call'[p].op = "run"
      PROVE  own'[call'[p].on] = "parked" /\ ~searching'[call'[p].on]
  <2> DEFINE t == call[p].on
  <2>1. t \in Thread /\ own[t] = "parked" /\ ~searching[t]
    BY <1>2, <1>4 DEF ThreadFacts, RunsOnIdle, Idle
  <2>2. call'[p].on = t
    BY <1>1, <1>2, <1>4
    DEF ThreadFacts, T!Next, T!Construct, T!CallRun, T!CallWait, T!Destroy, T!SetCall, T!Free,
        T!ClientStep, T!RunCustomJob, T!Notify, T!WaitForSearchFinished, T!Join, T!Return, T!NoCall, T!Sleep,
        T!OwnerStep, T!IdleEnter, T!IdleWake, T!FinishJob, T!SpuriousWake, threadVars
  <2>3. own'[t] = own[t] /\ searching'[t] = searching[t]
    <3>1. CASE UNCHANGED <<own, searching>>
      BY <3>1
    <3>2. ASSUME NEW q \in {UI, Main}, NEW u \in Thread, T!MayConstruct(q, u), T!Construct(q, u)
          PROVE  own'[t] = own[t] /\ searching'[t] = searching[t]
      BY <1>2, <2>1, <3>2 DEF T!MayConstruct, T!Construct, ThreadFacts
    <3>3. ASSUME NEW q \in {UI, Main}, T!RunCustomJob(q) PROVE own'[t] = own[t] /\ searching'[t] = searching[t]
      <4>1. q # p \/ searching' = searching
        BY <1>2, <1>4, <3>3 DEF T!RunCustomJob, T!Sleep, ThreadFacts
      <4> QED BY <1>2, <1>3, <1>4, <2>1, <3>3, <4>1 DEF T!RunCustomJob, T!Sleep, ThreadFacts
    <3>4. ASSUME NEW q \in {UI, Main}, T!Join(q) PROVE own'[t] = own[t] /\ searching'[t] = searching[t]
      BY <1>2, <2>1, <3>4 DEF T!Join, ThreadFacts
    <3>5. ASSUME NEW u \in Thread, T!OwnerStep(u) \/ T!FinishJob(u)
          PROVE  own'[t] = own[t] /\ searching'[t] = searching[t]
      BY <1>2, <2>1, <3>5 DEF T!OwnerStep, T!IdleEnter, T!IdleWake, T!FinishJob, T!Sleep, ThreadFacts
    <3> QED BY <1>1, <3>1, <3>2, <3>3, <3>4, <3>5
            DEF T!Next, T!CallRun, T!CallWait, T!Destroy, T!ClientStep, T!Notify, T!WaitForSearchFinished,
                T!Sleep, T!SpuriousWake, threadVars
  <2> QED BY <2>1, <2>2, <2>3 DEF Idle
<1>5. ASSUME NEW p \in {UI, Main}, call[p].op # "run", call'[p].op = "run"
      PROVE  own'[call'[p].on] = "parked" /\ ~searching'[call'[p].on]
  <2>1. Idle(call'[p].on) /\ Next
    BY <1>5, RunsThatBegin DEF vars, threadVars
  <2>2. UNCHANGED <<own, searching>>
    BY <1>1, <1>2, <1>5
    DEF ThreadFacts, T!Next, T!Construct, T!CallRun, T!CallWait, T!Destroy, T!SetCall, T!Free,
        T!ClientStep, T!RunCustomJob, T!Notify, T!WaitForSearchFinished, T!Join, T!Return, T!NoCall, T!Sleep,
        T!OwnerStep, T!IdleEnter, T!IdleWake, T!FinishJob, T!SpuriousWake, threadVars
  <2> QED BY <2>1, <2>2 DEF Idle
<1> QED BY <1>4, <1>5 DEF RunsOnIdle, Idle

-----------------------------------------------------------------------------
(***************************************************************************)
(* What the workers have been given.                                       *)
(***************************************************************************)
Shared == <<goal, states, setupStates, built, worker>>

MainPosted == Posted("search", Main)

\* Steps that change neither the UCI thread's place nor what is shared.
LEMMA DataFrame ==
  ASSUME PoolInv, DataInv, RunsOnIdle', UNCHANGED <<ui, size, Shared>>,
         \A t \in Thread : Posted("setup", t) => Posted("setup", t)',
         \A t \in Thread : Posted("create", t) => Posted("create", t)',
         MainPosted' => MainPosted
  PROVE  DataInv'
<1>1. UNCHANGED <<ui, size, goal, states, setupStates, built, worker>>
  BY DEF Shared
<1>2. Copied'
  BY <1>1 DEF DataInv, Copied, InSetup, Given
<1>3. Built'
  <2>1. ui.loc \in {"ctorRunWait", "created"} => size \in Thread
    BY NoSearchWhile DEF Ctor
  <2> QED BY <1>1, <2>1 DEF DataInv, Built
<1>4. SearchIsOne'
  BY <1>1 DEF DataInv, SearchIsOne, MainPosted
<1>5. Lists'
  BY <1>1 DEF DataInv, Lists, Thinking, InSetup, MainPosted
<1> QED BY <1>2, <1>3, <1>4, <1>5 DEF DataInv

\* Steps of the UCI thread outside start_thinking().
LEMMA UiFrame ==
  ASSUME PoolInv, DataInv, RunsOnIdle', UNCHANGED <<setupStates, worker>>,
         states' = states \/ states' # 0,
         ui'.loc \notin {"setup", "setupWait", "start"}, MainPosted' => MainPosted,
         size' = size \/ ~MainPosted', Built'
  PROVE  DataInv'
<1>1. Copied'
  BY DEF Copied, InSetup
<1>2. SearchIsOne'
  BY DEF DataInv, SearchIsOne, MainPosted
<1>3. Lists'
  BY DEF DataInv, Lists, Thinking, InSetup, MainPosted
<1> QED BY <1>1, <1>2, <1>3 DEF DataInv

\* The main thread is one of the threads; jobs have names.
LEMMA MainIsThread == Main \in Thread /\ "search" \in Job /\ "setup" \in Job /\ "create" \in Job
BY PoolAssumption DEF Main, Thread, Job

\* A thread that exists has not been told to exit.
LEMMA Alive ==
  ASSUME PoolInv, T!Free(UI), NEW t \in Thread, Exists(t)
  PROVE  ~exit[t]
BY DEF PoolInv, Control, Existence, Calling, T!Free

\* A search of the main thread leaves the UCI thread where it may run.
LEMMA MainPostedMayRun ==
  ASSUME PoolInv, MainPosted
  PROVE  SearchMayRun
BY PostedExists, MainIsThread DEF MainPosted, Work

\* A search that runs is one that is posted.
LEMMA SearchIsPosted ==
  ASSUME PoolInv, NEW t \in Thread, Busy(t, "search")
  PROVE  Posted("search", t)
<1>1. own[t] = "busy" /\ job[t] = "search"
  BY DEF Busy
<1> QED BY <1>1 DEF Posted, PoolInv, Control, Existence

\* The job of start_thinking() runs inside of it.
LEMMA SetupRuns ==
  ASSUME PoolInv, NEW t \in Thread, Busy(t, "setup")
  PROVE  InSetup
<1>1. own[t] = "busy" /\ job[t] = "setup"
  BY DEF Busy
<1>2. Posted("setup", t)
  BY <1>1 DEF Posted, PoolInv, Control, Existence
<1> QED BY <1>2, PostedExists, MainIsThread DEF Work

\* No command touches what the workers hold.
LEMMA CommandData ==
  ASSUME PoolInv, DataInv, RunsOnIdle', Command
  PROVE  DataInv'
<1>1. ui.loc = "read"
  BY DEF Command, Stop, Ponderhit, SetPosition, Go, NewGame, SetHash, SetEvalFile, SetThreads, Quit, Read, At
<1>2. SamePosted
  <2>1. CASE UNCHANGED threadVars
    BY <2>1, PostedUntouched
  <2>2. CASE T!CallWait(UI, Main)
    BY <2>2, MainIsThread, PostedByWait
  <2> QED BY <2>1, <2>2 DEF Command, Stop, Ponderhit, SetPosition, Go, NewGame, SetHash, SetEvalFile,
                            SetThreads, Quit, WaitFor
<1>3. MainPosted' => MainPosted
  BY <1>2, MainIsThread DEF SamePosted, MainPosted
<1>4. /\ UNCHANGED <<size, setupStates, built, worker>>
      /\ states' = states \/ states' # 0
  BY FreshList DEF Command, Stop, Ponderhit, SetPosition, Go, NewGame, SetHash, SetEvalFile, SetThreads, Quit,
     ElseUnchanged, lists
<1>5. ui'.loc \notin {"setup", "setupWait", "start", "ctorRunWait", "created"}
  BY <1>1 DEF Command, Stop, Ponderhit, SetPosition, Go, NewGame, SetHash, SetEvalFile, SetThreads, Quit, Handle
<1>6. Built'
  BY <1>4, <1>5 DEF DataInv, Built
<1> QED BY <1>3, <1>4, <1>5, <1>6, UiFrame

\* The loops of start_thinking().
LEMMA SetupData ==
  ASSUME PoolInv, DataInv, RunsOnIdle', Reset \/ SetUpWorkers \/ StartMain
  PROVE  DataInv'
<1>1. ui \in Handler /\ size \in Nat /\ ui.at \in Nat
  BY DEF PoolInv, TypeOK, Control, Sizes
<1>2. Built'
  <2>1. UNCHANGED <<size, built>>
    BY DEF Reset, SetUpWorkers, StartMain, ElseUnchanged
  <2>2. ui'.loc \in {"setup", "setupWait", "start", "read"}
    BY <1>1 DEF Reset, SetUpWorkers, StartMain, Goto, Handler, ForEach, At
  <2> QED BY <2>1, <2>2 DEF DataInv, Built
<1>3. CASE Reset
  <2>1. ui'.loc = "setup" /\ ui'.at = 0
    BY <1>1, <1>3 DEF Reset, Goto, Handler
  <2>2. Copied'
    BY <2>1 DEF Copied, Thread
  <2>3. ~MainPosted'
    <3>1. Quiet
      BY <1>3, QuietWhen DEF Reset, At, PostLoop, WaitLoop
    <3> QED BY <1>3, <3>1, PostedUntouched, MainIsThread DEF Reset, SamePosted, Quiet, MainPosted
  <2>4. SearchIsOne'
    BY <2>1, <2>3 DEF SearchIsOne, MainPosted
  <2>5. Lists'
    BY <1>3 DEF Reset, DataInv, Lists
  <2> QED BY <1>2, <2>2, <2>4, <2>5 DEF DataInv
<1>4. ASSUME SetUpWorkers PROVE DataInv'
  <2>1. UNCHANGED <<size, goal, states, setupStates, built, worker>>
    BY <1>4 DEF SetUpWorkers, ElseUnchanged, lists
  <2>2. Thinking /\ ui.loc \in {"setup", "setupWait"} /\ T!Free(UI)
    BY <1>4 DEF SetUpWorkers, ForEach, At, Thinking, InSetup
  <2>3. Lists'
    BY <2>1, <2>2 DEF Lists, DataInv
  <2>4. ~MainPosted
    BY <2>2, MainPostedMayRun DEF SearchMayRun, FirstWait
  <2>5. CASE UNCHANGED threadVars /\ ui.at = size
    <3>1. SamePosted
      BY <2>5, PostedUntouched
    <3>2. ~MainPosted'
      BY <2>4, <3>1, MainIsThread DEF SamePosted, MainPosted
    <3>3. CASE At("setup") /\ Goto("setupWait", 0)
      <4>1. ui'.loc = "setupWait"
        BY <1>1, <3>3 DEF Goto, Handler
      <4>2. Copied'
        BY <1>1, <2>1, <2>2, <2>5, <3>1, <3>3, <4>1, MainIsThread
        DEF Copied, DataInv, InSetup, Given, SamePosted, At, Thread
      <4>3. SearchIsOne'
        BY <3>2, <4>1 DEF SearchIsOne, MainPosted
      <4> QED BY <1>2, <2>3, <4>2, <4>3 DEF DataInv
    <3>4. CASE At("setupWait") /\ Goto("start", 0)
      <4>1. ui'.loc = "start"
        BY <1>1, <3>4 DEF Goto, Handler
      <4>2. Copied'
        BY <4>1 DEF Copied, InSetup
      <4>3. Quiet /\ Main < size
        BY <2>2, <2>5, <3>4, QuietWhen DEF At, WaitLoop, PoolInv, Control, Sizes, Ctor, Main
      <4>4. \A t \in Thread : t < size => Given(t)
        BY <2>2, <3>4, <4>3, MainIsThread DEF DataInv, Copied, InSetup, At, Quiet
      <4>5. SearchIsOne'
        BY <2>1, <4>3, <4>4, MainIsThread DEF SearchIsOne, Given
      <4> QED BY <1>2, <2>3, <4>2, <4>5 DEF DataInv
    <3>5. ~(ui.at < size)
      BY <1>1, <2>5
    <3> QED BY <1>4, <3>3, <3>4, <3>5 DEF SetUpWorkers, ForEach
  <2>6. ASSUME At("setup"), ui.at < size, RunJob("setup", ui.at), Goto("setup", ui.at + 1) PROVE DataInv'
    <3>1. ui.at \in Thread /\ ~exit[ui.at] /\ ui'.loc = "setup" /\ ui'.at = ui.at + 1 /\ ui.loc = "setup"
      BY <1>1, <2>2, <2>6, PostsToIdle, Alive DEF At, PostLoop, Exists, Ctor, Goto, Handler
    <3>2. \A u \in Thread, j \in Job : Posted(j, u)' <=> Posted(j, u) \/ (u = ui.at /\ j = "setup")
      BY <2>6, <3>1, PostedByCall, MainIsThread DEF RunJob
    <3>3. Copied'
      BY <1>1, <2>1, <3>1, <3>2, MainIsThread DEF Copied, DataInv, InSetup, Given, Thread
    <3>4. SearchIsOne'
      BY <2>4, <3>1, <3>2, MainIsThread DEF SearchIsOne, MainPosted
    <3> QED BY <1>2, <2>3, <3>3, <3>4 DEF DataInv
  <2>7. ASSUME At("setupWait"), ui.at < size, WaitFor(ui.at), Goto("setupWait", ui.at + 1) PROVE DataInv'
    <3>1. ui.at \in Thread /\ ui'.loc = "setupWait" /\ ui.loc = "setupWait"
      BY <1>1, <2>7, PoolAssumption DEF At, Goto, Handler, Thread, PoolInv, Control, Sizes
    <3>2. SamePosted
      BY <2>7, <3>1, PostedByWait DEF WaitFor
    <3>3. Copied'
      BY <1>1, <2>1, <3>1, <3>2, MainIsThread DEF Copied, DataInv, InSetup, Given, SamePosted
    <3>4. SearchIsOne'
      BY <2>4, <3>1, <3>2, MainIsThread DEF SearchIsOne, MainPosted, SamePosted
    <3> QED BY <1>2, <2>3, <3>3, <3>4 DEF DataInv
  <2> QED BY <1>4, <2>5, <2>6, <2>7 DEF SetUpWorkers, ForEach
<1>5. ASSUME StartMain PROVE DataInv'
  <2>1. UNCHANGED <<size, states, setupStates, built, worker>> /\ ui.loc = "start" /\ ui'.loc = "read"
    BY <1>1, <1>5 DEF StartMain, lists, At, Goto, Handler
  <2>2. Copied'
    BY <2>1 DEF Copied, InSetup
  <2>3. SearchIsOne'
    BY <2>1 DEF SearchIsOne, DataInv
  <2>4. Lists'
    BY <2>1 DEF Lists, DataInv, Thinking
  <2> QED BY <1>2, <2>2, <2>3, <2>4 DEF DataInv
<1> QED BY <1>3, <1>4, <1>5

\* Handlers other than start_thinking() begin no search.
LEMMA HandlerSearch ==
  ASSUME PoolInv, ClearTable \/ ClearPool \/ WaitBeforeDestroy \/ WaitBeforeHash \/ DestroyThreads \/ CreateThreads
  PROVE  ~MainPosted /\ ~MainPosted'
<1>1. ui \in Handler /\ size \in Nat /\ ui.at \in Nat /\ size <= MaxThreads
  BY DEF PoolInv, TypeOK, Control, Sizes
<1>2. ~MainPosted
  <2>1. T!Free(UI) /\ ui.loc # "read"
    BY DEF ClearTable, ClearPool, WaitBeforeDestroy, WaitBeforeHash, DestroyThreads, CreateThreads, ForEach, At
  <2> QED BY <2>1, MainPostedMayRun DEF SearchMayRun, WaitsForMain, T!Free
<1>3. ASSUME UNCHANGED threadVars PROVE ~MainPosted'
  BY <1>2, <1>3, PostedUntouched, MainIsThread DEF SamePosted, MainPosted
<1>4. ASSUME NEW t \in Thread, WaitFor(t) PROVE ~MainPosted'
  BY <1>2, <1>4, PostedByWait, MainIsThread DEF SamePosted, MainPosted, WaitFor
<1>5. ASSUME NEW t \in Thread, NEW j \in Job \ {"search"}, Exists(t), RunJob(j, t) PROVE ~MainPosted'
  <2>1. ~exit[t]
    BY <1>5, Alive DEF RunJob, T!CallRun
  <2> QED BY <1>2, <1>5, <2>1, PostedByCall, MainIsThread DEF MainPosted, RunJob
<1>6. ui.at < size => ui.at \in Thread
  BY <1>1, PoolAssumption DEF Thread
<1>7. CASE ClearTable \/ ClearPool \/ WaitBeforeDestroy \/ WaitBeforeHash
  <2>1. "ttclear" \in Job \ {"search"} /\ "clear" \in Job \ {"search"}
    BY DEF Job
  <2>2. ASSUME NEW l \in {"ttClear", "poolClear"}, NEW j \in {"ttclear", "clear"}, At(l), ui.at < size,
               RunJob(j, ui.at)
        PROVE  ~MainPosted'
    <3>1. Exists(ui.at)
      BY <2>2 DEF Exists, At, Ctor
    <3> QED BY <1>5, <1>6, <2>1, <2>2, <3>1
  <2> QED BY <1>2, <1>3, <1>4, <1>6, <1>7, <2>2, MainIsThread
          DEF ClearTable, ClearPool, WaitBeforeDestroy, WaitBeforeHash, ForEach
<1>8. CASE DestroyThreads
  <2>1. ASSUME T!Destroy(UI, ui.at, "search"), ui.at < size PROVE ~MainPosted'
    <3>1. /\ exit' = [exit EXCEPT ![ui.at] = TRUE] /\ UNCHANGED <<jobFunc, job>>
          /\ call' = [call EXCEPT ![UI] = [op |-> "run", on |-> ui.at, job |-> "search"]]
      BY <2>1 DEF T!Destroy, T!SetCall
    <3>2. ThreadFacts
      BY Facts DEF PoolInv
    <3>3. CASE ui.at = Main
      BY <1>6, <2>1, <3>1, <3>2, <3>3 DEF MainPosted, Posted, ThreadFacts
    <3>4. CASE ui.at # Main
      BY <1>2, <1>6, <2>1, <3>1, <3>2, <3>4, MainIsThread DEF MainPosted, Posted, ThreadFacts
    <3> QED BY <3>3, <3>4
  <2> QED BY <1>2, <1>3, <1>8, <2>1 DEF DestroyThreads
<1>9. CASE CreateThreads
  <2>1. ui.loc \in Ctor \cup {"create"}
    BY <1>9 DEF CreateThreads, At, Ctor
  <2>2. ui.loc \in Ctor => size \in Thread /\ Exists(size)
    BY <2>1, NoSearchWhile DEF Exists, Ctor
  <2>3. ASSUME At("create"), size < want, T!Construct(UI, size) PROVE ~MainPosted'
    <3>1. size \in Thread /\ ~(size < size)
      BY <1>1, <2>3, PoolAssumption DEF At, Thread, PoolInv, Control, Sizes
    <3>2. ThreadFacts /\ own[size] = "none"
      BY <2>3, <3>1, Facts DEF At, PoolInv, Control, Existence, Exists, Ctor
    <3>3. /\ exit' = [exit EXCEPT ![size] = FALSE] /\ UNCHANGED <<jobFunc, job, call>>
          /\ job[size] = NoJob /\ jobFunc[size] = NoJob
          /\ \A p \in {UI, Main} : call[p].op # "none" => call[p].on # size
      BY <2>3, <3>1, <3>2 DEF T!Construct, ThreadFacts
    <3> QED BY <1>2, <3>1, <3>2, <3>3, MainIsThread, PoolAssumption DEF MainPosted, Posted, ThreadFacts
  <2>4. ASSUME At("ctorRun"), RunJob("create", size) PROVE ~MainPosted'
    BY <1>5, <2>2, <2>4, MainIsThread DEF At, Ctor
  <2>5. ASSUME At("ctorWait") \/ At("ctorRunWait"), WaitFor(size) PROVE ~MainPosted'
    BY <1>4, <2>2, <2>5 DEF At, Ctor
  <2> QED BY <1>2, <1>3, <1>9, <2>3, <2>4, <2>5 DEF CreateThreads
<1> QED BY <1>2, <1>7, <1>8, <1>9

\* Handlers other than start_thinking(): what was handed over is left alone.
LEMMA HandlerData ==
  ASSUME PoolInv, DataInv, RunsOnIdle',
         ClearTable \/ ClearPool \/ WaitBeforeDestroy \/ WaitBeforeHash \/ DestroyThreads \/ CreateThreads
  PROVE  DataInv'
<1>1. ui \in Handler /\ size \in Nat
  BY DEF PoolInv, TypeOK, Control, Sizes
<1>2. ~MainPosted'
  BY HandlerSearch
<1>3. UNCHANGED <<states, setupStates, worker>>
  BY DEF ClearTable, ClearPool, WaitBeforeDestroy, WaitBeforeHash, DestroyThreads, CreateThreads, ElseUnchanged, lists
<1>4. \A l, i : Goto(l, i) => ui'.loc = l
  BY <1>1 DEF Goto, Handler
<1>5. ui'.loc \notin {"setup", "setupWait", "start"}
  BY <1>4 DEF ClearTable, ClearPool, WaitBeforeDestroy, WaitBeforeHash, DestroyThreads, CreateThreads, ForEach
<1>6. SUFFICES Built'
  BY <1>2, <1>3, <1>5, UiFrame
<1>7. CASE ClearTable \/ ClearPool \/ WaitBeforeDestroy \/ WaitBeforeHash
  <2>1. UNCHANGED <<size, built>>
    BY <1>7 DEF ClearTable, ClearPool, WaitBeforeDestroy, WaitBeforeHash, ElseUnchanged
  <2>2. ui'.loc \notin {"ctorRunWait", "created"}
    BY <1>4, <1>7 DEF ClearTable, ClearPool, WaitBeforeDestroy, WaitBeforeHash, ForEach
  <2> QED BY <2>1, <2>2 DEF DataInv, Built
<1>8. CASE DestroyThreads
  <2>1. ui'.loc \in {"destroy", "exited", "create"}
    BY <1>4, <1>8 DEF DestroyThreads
  <2> QED BY <1>8, <2>1 DEF DestroyThreads, DataInv, Built, Thread
<1>9. CASE CreateThreads
  <2>1. built' = built
    BY <1>9 DEF CreateThreads
  <2>2. CASE At("create") \/ At("ctorWait")
    <3>1. ui'.loc \in {"ctorWait", "poolClear", "ctorRun"} /\ size' = size
      BY <1>4, <1>9, <2>2 DEF CreateThreads, At
    <3> QED BY <2>1, <3>1 DEF DataInv, Built
  <2>3. CASE At("ctorRun")
    <3>1. ui'.loc = "ctorRunWait" /\ size' = size /\ RunJob("create", size) /\ T!Free(UI) /\ ui.loc = "ctorRun"
      BY <1>4, <1>9, <2>3 DEF CreateThreads, At
    <3>2. size \in Thread /\ Exists(size)
      BY <1>1, <3>1, NoSearchWhile DEF Exists, Ctor
    <3>3. Posted("create", size)'
      BY <3>1, <3>2, Alive, PostedByCall, MainIsThread DEF RunJob
    <3> QED BY <2>1, <3>1, <3>3 DEF DataInv, Built
  <2>4. CASE At("ctorRunWait")
    <3>1. ui'.loc = "created" /\ size' = size /\ ui.loc = "ctorRunWait" /\ WaitFor(size)
      BY <1>4, <1>9, <2>4 DEF CreateThreads, At
    <3>2. size \in Thread
      BY <3>1, NoSearchWhile DEF Ctor
    <3>3. SamePosted
      BY <3>1, <3>2, PostedByWait DEF WaitFor
    <3> QED BY <2>1, <3>1, <3>2, <3>3, MainIsThread DEF DataInv, Built, SamePosted
  <2>5. CASE At("created")
    <3>1. ui'.loc = "create" /\ size' = size + 1 /\ ui.loc = "created" /\ T!Free(UI)
      BY <1>4, <1>9, <2>5 DEF CreateThreads, At
    <3>2. size \in Thread
      BY <3>1, NoSearchWhile DEF Ctor
    <3>3. Settled(size)
      BY <1>1, <3>1 DEF Settled, Calling, T!Free
    <3>4. ~Posted("create", size)
      BY <3>2, <3>3, PostedExists, MainIsThread
    <3> QED BY <1>1, <2>1, <3>1, <3>2, <3>4 DEF DataInv, Built, Thread
  <2> QED BY <1>9, <2>2, <2>3, <2>4, <2>5 DEF CreateThreads
<1> QED BY <1>7, <1>8, <1>9

\* Nor does the main thread.
LEMMA MainData ==
  ASSUME PoolInv, DataInv, RunsOnIdle', MainStep \/ FailLow \/ AfterIteration \/ LeaveIterations(TRUE)
  PROVE  DataInv'
<1>1. UNCHANGED <<ui, size, Shared>>
  BY DEF MainStep, BeginSearch, PrintBestmove, LaunchHelpers, JoinHelpers, ForEachHelper, CheckTime, FailLow,
         AfterIteration, LeaveIterations, Hold, Bestmove, MainUnchanged, UiUnchanged, Shared, lists
<1>2. ASSUME SamePosted PROVE DataInv'
  BY <1>1, <1>2, DataFrame, MainIsThread DEF SamePosted, MainPosted
<1>3. ASSUME UNCHANGED threadVars PROVE DataInv'
  BY <1>2, <1>3, PostedUntouched
<1>4. ASSUME PrintBestmove, Busy(Main, "search") PROVE DataInv'
  <2>1. T!FinishJob(Main) /\ job[Main] = "search"
    BY <1>4 DEF PrintBestmove, Busy
  <2> QED BY <1>1, <2>1, DataFrame, DoneJob, MainIsThread DEF MainPosted
<1>5. ASSUME LaunchHelpers PROVE DataInv'
  <2>1. ASSUME MainAt("launch"), search.at < size, T!CallRun(Main, search.at, "search") PROVE DataInv'
    <3>1. search.at \in Thread /\ search.at # Main /\ ~exit[search.at]
      BY <2>1, LaunchesIdle
    <3>2. \A u \in Thread, j \in Job : Posted(j, u)' <=> Posted(j, u) \/ (u = search.at /\ j = "search")
      BY <2>1, <3>1, PostedByCall, MainIsThread
    <3> QED BY <1>1, <3>1, <3>2, DataFrame, MainIsThread DEF MainPosted
  <2> QED BY <1>3, <1>5, <2>1 DEF LaunchHelpers, ForEachHelper
<1>6. ASSUME JoinHelpers PROVE DataInv'
  <2>1. ASSUME MainAt("join"), search.at < size, T!CallWait(Main, search.at) PROVE DataInv'
    <3>1. search.at \in Thread
      BY <2>1, PoolAssumption DEF MainAt, PoolInv, Control, Sizes, Thread
    <3> QED BY <1>2, <2>1, <3>1, PostedByWait
  <2> QED BY <1>3, <1>6, <2>1 DEF JoinHelpers, ForEachHelper
<1>7. ASSUME CheckTime \/ FailLow \/ AfterIteration \/ Hold PROVE DataInv'
  BY <1>3, <1>7 DEF CheckTime, FailLow, AfterIteration, Hold
<1>8. ASSUME NEW why, LeaveIterations(why) PROVE DataInv'
  BY <1>3, <1>8 DEF LeaveIterations
<1>9. ASSUME BeginSearch \/ Bestmove PROVE DataInv'
  BY <1>3, <1>4, <1>9 DEF BeginSearch, Bestmove, MainAt
<1> QED BY <1>5, <1>6, <1>7, <1>8, <1>9 DEF MainStep

\* The jobs of start_thinking() and of the constructors fulfil what is promised.
LEMMA JobData ==
  ASSUME PoolInv, DataInv, RunsOnIdle', NEW t \in Thread,
         JobStep(t) \/ HelperFinish(t, TRUE) \/ MateFound(t)
  PROVE  DataInv'
<1>1. ASSUME MateFound(t) PROVE DataInv'
  BY <1>1, DataFrame, PostedUntouched, MainIsThread
  DEF MateFound, MainUnchanged, UiUnchanged, SamePosted, MainPosted, Shared, lists
<1>2. ASSUME T!FinishJob(t), job[t] \notin {"setup", "create"}, UNCHANGED <<ui, size, Shared>> PROVE DataInv'
  BY <1>2, DataFrame, DoneJob, MainIsThread DEF MainPosted
<1>3. ASSUME Clear(t) PROVE DataInv'
  BY <1>2, <1>3 DEF Clear, Busy, UiUnchanged, Shared, lists
<1>4. ASSUME NEW why, HelperFinish(t, why) PROVE DataInv'
  BY <1>2, <1>4 DEF HelperFinish, Busy, MainUnchanged, UiUnchanged, Shared, lists
<1>5. ASSUME CreateWorker(t) PROVE DataInv'
  <2>1. /\ T!FinishJob(t) /\ job[t] = "create" /\ built' = [built EXCEPT ![t] = TRUE]
        /\ UNCHANGED <<ui, size, goal, states, setupStates, worker>>
    BY <1>5 DEF CreateWorker, Busy, UiUnchanged, lists
  <2>2. built \in [Thread -> BOOLEAN]
    BY DEF PoolInv, TypeOK
  <2>3. \A u \in Thread : Posted("setup", u) => Posted("setup", u)'
    BY <2>1, DoneJob, MainIsThread
  <2>4. \A u \in Thread : Posted("create", u) => Posted("create", u)' \/ u = t
    BY <2>1, DoneJob, MainIsThread
  <2>5. MainPosted' => MainPosted
    BY <2>1, DoneJob, MainIsThread DEF MainPosted
  <2>6. Copied'
    BY <2>1, <2>3 DEF DataInv, Copied, InSetup, Given
  <2>7. Built'
    <3>1. ui.loc \in {"ctorRunWait", "created"} => size \in Thread
      BY NoSearchWhile DEF Ctor
    <3> QED BY <2>1, <2>2, <2>4, <3>1 DEF DataInv, Built
  <2>8. SearchIsOne'
    BY <2>1, <2>5 DEF DataInv, SearchIsOne, MainPosted
  <2>9. Lists'
    BY <2>1, <2>5 DEF DataInv, Lists, Thinking, InSetup, MainPosted
  <2> QED BY <2>6, <2>7, <2>8, <2>9 DEF DataInv
<1>6. ASSUME SetUpWorker(t) PROVE DataInv'
  <2>1. /\ T!FinishJob(t) /\ job[t] = "setup"
        /\ worker' = [worker EXCEPT ![t] = [limits |-> goal.limits, roots |-> goal.roots, list |-> setupStates]]
        /\ UNCHANGED <<ui, size, goal, states, setupStates, built>>
    BY <1>6 DEF SetUpWorker, Busy, UiUnchanged, lists
  <2>2. worker \in [Thread -> Worker]
    BY DEF PoolInv, TypeOK
  <2>3. \A u \in Thread : Posted("setup", u) => Posted("setup", u)' \/ u = t
    BY <2>1, DoneJob, MainIsThread
  <2>4. \A u \in Thread : Posted("create", u) => Posted("create", u)'
    BY <2>1, DoneJob, MainIsThread
  <2>5. MainPosted' => MainPosted
    BY <2>1, DoneJob, MainIsThread DEF MainPosted
  <2>6. InSetup
    BY <1>6, SetupRuns DEF SetUpWorker
  <2>7. ~MainPosted'
    BY <2>5, <2>6, MainPostedMayRun DEF InSetup, SearchMayRun, FirstWait
  <2>8. Copied'
    BY <2>1, <2>2, <2>3 DEF DataInv, Copied, InSetup, Given
  <2>9. Built'
    BY <2>1, <2>6 DEF DataInv, Built, InSetup
  <2>10. SearchIsOne'
    BY <2>1, <2>6, <2>7 DEF SearchIsOne, MainPosted, InSetup
  <2>11. Lists'
    BY <2>1, <2>5 DEF DataInv, Lists, Thinking, InSetup, MainPosted
  <2> QED BY <2>8, <2>9, <2>10, <2>11 DEF DataInv
<1> QED BY <1>1, <1>3, <1>4, <1>5, <1>6 DEF JobStep

\* The second layer is inductive relative to the first.
LEMMA NextDataInv ==
  ASSUME PoolInv, DataInv, [Next]_vars
  PROVE  DataInv'
<1>1. RunsOnIdle'
  BY RunsOnIdleStep DEF DataInv
<1>2. CASE UNCHANGED vars \/ TimeRunsOut \/ Exited
  BY <1>1, <1>2, DataFrame, PostedUntouched, MainIsThread
  DEF vars, TimeRunsOut, Exited, UiUnchanged, SamePosted, MainPosted, Shared, lists
<1>3. CASE \/ \E p \in {UI, Main} : ThreadStep(T!ClientStep(p))
           \/ \E u \in Thread : ThreadStep(T!OwnerStep(u)) \/ ThreadStep(T!SpuriousWake(u))
  <2>1. ClientOrOwner /\ UNCHANGED <<ui, size, Shared>>
    BY <1>3 DEF ThreadStep, ClientOrOwner, UiUnchanged, Shared, lists
  <2> QED BY <1>1, <2>1, HandedOn, DataFrame, MainIsThread DEF SamePosted, MainPosted
<1> QED BY <1>1, <1>2, <1>3, CommandData, SetupData, HandlerData, MainData, JobData DEF Next, UiStep

\* It holds of the empty pool,
LEMMA InitDataInv == Init => DataInv
<1> SUFFICES ASSUME Init PROVE DataInv
  OBVIOUS
<1>1. /\ ui.loc = "create" /\ size = 0 /\ states # 0
      /\ \A p \in {UI, Main} : call[p].op = "none"
      /\ job[Main] = NoJob /\ jobFunc[Main] = NoJob
  BY MainIsThread DEF Init, T!Init, T!NoCall
<1>2. ~MainPosted
  BY <1>1, PoolAssumption, MainIsThread DEF MainPosted, Posted
<1> QED BY <1>1, <1>2 DEF DataInv, RunsOnIdle, Copied, InSetup, Built, SearchIsOne, MainPosted, Lists, Thinking, Thread

\* and so ever after.
LEMMA DataInvariance == Spec => [](PoolInv /\ DataInv)
<1>1. Init => PoolInv /\ DataInv
  BY InitPoolInv, InitDataInv
<1>2. (PoolInv /\ DataInv) /\ [Next]_vars => (PoolInv /\ DataInv)'
  BY NextPoolInv, NextDataInv
<1> QED BY <1>1, <1>2, PTL DEF Spec


-----------------------------------------------------------------------------
(***************************************************************************)
(* What the invariant says of a search.                                    *)
(***************************************************************************)
\* A search is only posted while the UCI thread reads or waits for the main
\* thread, to threads of the pool, and to none without the main thread.
LEMMA SearchHasMain ==
  ASSUME PoolInv, NEW t \in Thread, Posted("search", t)
  PROVE  SearchMayRun /\ MainPosted /\ t < size
<1>1. SearchMayRun /\ ~Settled(t) /\ own[t] # "none"
  BY PostedExists, MainIsThread DEF Work
<1>2. t < size
  BY <1>1 DEF PoolInv, Control, Existence, Exists, SearchMayRun, FirstWait, Ctor
<1>3. t = Main \/ MainSearches
  BY <1>1, <1>2 DEF Settled, Calm, SearchMayRun, FirstWait, WaitLoop
<1>4. MainSearches => MainPosted
  BY <1>1, MainIsThread
  DEF MainSearches, Busy, MainPosted, Posted, PoolInv, Control, Existence, SearchMayRun, FirstWait
<1> QED BY <1>1, <1>2, <1>3, <1>4 DEF MainPosted

\* While the main thread has a search the UCI thread is not in start_thinking().
LEMMA SearchView ==
  ASSUME PoolInv, MainPosted
  PROVE  /\ Thinking /\ ~InSetup /\ ui.loc # "start"
         /\ Current = [limits |-> worker[Main].limits, roots |-> worker[Main].roots]
BY MainPostedMayRun DEF SearchMayRun, FirstWait, InSetup, Current, Thinking, MainPosted

\* A search that is posted has the data of the main thread.
LEMMA OneSearch == PoolInv /\ DataInv => SameSearch
<1> SUFFICES ASSUME PoolInv, DataInv, NEW t \in Thread, Posted("search", t)
             PROVE  built[t] /\ worker[t] = worker[Main] /\ worker[t].list = setupStates /\ setupStates # 0
  BY DEF SameSearch
<1>1. MainPosted /\ t < size /\ Thinking
  BY SearchHasMain, SearchView
<1> QED BY <1>1 DEF DataInv, Built, SearchIsOne, Lists, MainPosted

\* Only one kind of job is posted at a time, and no search once the first wait of
\* a handler is over.
LEMMA NoWriterMeetsSearch == PoolInv => QuietWhenWritten
<1> SUFFICES ASSUME PoolInv PROVE QuietWhenWritten
  OBVIOUS
<1>1. ASSUME NEW t \in Thread, NEW u \in Thread, NEW j \in Job \ {"search"},
             Posted(j, t), Posted("search", u)
      PROVE  FALSE
  <2>1. Work(j) /\ Work("search")
    BY <1>1, PostedExists, MainIsThread
  <2> QED BY <2>1 DEF Work, InSetup
<1>2. ASSUME ui.loc # "read", T!Free(UI), NEW u \in Thread, Posted("search", u)
      PROVE  FALSE
  <2>1. ~SearchMayRun
    BY <1>2 DEF SearchMayRun, WaitsForMain, T!Free
  <2>2. Work("search")
    BY <1>2, PostedExists, MainIsThread
  <2> QED BY <2>1, <2>2 DEF Work
<1>3. TypeOK
  BY DEF PoolInv
<1> QED BY <1>1, <1>2, <1>3 DEF QuietWhenWritten

\* The jobs of start_thinking() are posted inside of it.
LEMMA CapturesAlive == PoolInv => CapturesLive
<1> SUFFICES ASSUME PoolInv, NEW t \in Thread, Posted("setup", t) PROVE InSetup
  BY DEF CapturesLive
<1>1. Work("setup")
  BY PostedExists, MainIsThread
<1> QED BY <1>1 DEF Work

\* At the vote every helper is settled.
LEMMA HelpersFinished == PoolInv => VoteReadsFinishedHelpers
<1> SUFFICES ASSUME PoolInv, search.loc = "best", NEW t \in 1 .. size - 1 PROVE Idle(t)
  BY DEF VoteReadsFinishedHelpers, Idle
<1>1. SearchMayRun /\ size \in Nat /\ size <= MaxThreads
  BY SearchBeforeWait DEF PoolInv, Control, Sizes
<1>2. t \in Thread /\ t # Main
  BY <1>1, PoolAssumption DEF Thread, Main
<1>3. Settled(t)
  BY <1>1, <1>2 DEF Settled, Calm, SearchMayRun, FirstWait, WaitLoop
<1> QED BY <1>2, <1>3 DEF PoolInv, Control, SettledIsIdle

-----------------------------------------------------------------------------
(***************************************************************************)
(* The theorems.                                                           *)
(***************************************************************************)
\* Every variable keeps its type; the index of a loop never leaves the pool.
THEOREM TypeCorrect == Spec => []TypeOK
<1>1. PoolInv => TypeOK
  BY DEF PoolInv
<1> QED BY <1>1, PoolInvariance, PTL

\* Every step of the pool on a thread is one the contract of WorkerThread allows:
\* no two calls in flight on one thread, no call on a thread that does not exist,
\* no destruction of a thread that is not idle.
THEOREM ContractKept == Spec => KeepsThreadContract
<1>1. Init => T!Init
  BY DEF Init
<1>2. PoolInv /\ [Next]_vars => [T!Next]_(T!vars)
  BY NextControl DEF threadVars, T!vars
<1> QED BY <1>1, <1>2, PoolInvariance, PTL DEF Spec, KeepsThreadContract, T!Spec

\* No thread of the pool, and nobody who waits for one, sleeps through what it
\* waits for: the pool inherits it from its threads.
THEOREM PoolLosesNoWakeup == Spec => []T!NoLostWakeup
<1>1. PoolInv => T!NoLostWakeup
  BY DEF PoolInv, TP!IInv, TP!NoLostWakeup, T!NoLostWakeup
<1> QED BY <1>1, PoolInvariance, PTL

\* Workers are cleared, set up and created, and the table zeroed, only while no
\* thread has a search to run; nor has one when a handler that waits has done so,
\* and goes on to write the options, the search, the table or the pool itself.
THEOREM WrittenInQuiet == Spec => []QuietWhenWritten
BY NoWriterMeetsSearch, PoolInvariance, PTL

\* The jobs that hold references to the locals of start_thinking() end before it
\* goes on.
THEOREM CapturesOutliveJobs == Spec => []CapturesLive
BY CapturesAlive, PoolInvariance, PTL

\* When the best thread is chosen no helper searches any more.
THEOREM VoteAfterSearch == Spec => []VoteReadsFinishedHelpers
BY HelpersFinished, PoolInvariance, PTL

\* Every thread with a search has the limits, the moves and the list of states
\* of the last go.
THEOREM AllSearchTheSame == Spec => []SameSearch
BY OneSearch, DataInvariance, PTL

-----------------------------------------------------------------------------
(***************************************************************************)
(* The protocol with the GUI.                                              *)
(***************************************************************************)
\* A GUI that wants an endless search gives it neither a clock nor nodes.
EndlessIsBare == \A l \in Limits : l.infinite => ~l.tm /\ ~l.budget

\* What every step but those of the protocol is.
Unseen == UNCHANGED Uci!vars /\ StopIsJustified'

\* A step that changes neither the search nor what the GUI has said of it.
LEMMA SameView ==
  ASSUME StopIsJustified, Thinking' <=> Thinking, Thinking => Current' = Current, UNCHANGED <<ponder, told>>,
         stop' # stop => (stop' /\ Thinking => told \/ Forced \/ ~(ponder \/ Current.limits.infinite)),
         search'.loc \in {"join", "best"} => search.loc \in {"join", "best"} \/ stop',
         stop => stop'
  PROVE  Unseen
<1>1. (Held' <=> Held) /\ (Forced' <=> Forced) /\ (Bounded' <=> Bounded)
  BY DEF Held, Forced, Bounded
<1>2. Held \in BOOLEAN /\ Forced \in BOOLEAN /\ Bounded \in BOOLEAN /\ Thinking \in BOOLEAN
  BY DEF Held, Forced, Bounded, Thinking
<1>3. Held' \in BOOLEAN /\ Forced' \in BOOLEAN /\ Bounded' \in BOOLEAN /\ Thinking' \in BOOLEAN
  BY DEF Held, Forced, Bounded, Thinking
<1>4. UNCHANGED Uci!vars
  BY <1>1, <1>2, <1>3 DEF Uci!vars
<1>5. StopIsJustified'
  BY <1>1 DEF StopIsJustified, Forced
<1> QED BY <1>4, <1>5 DEF Unseen

\* ... because the UCI thread stays where it is, and so do the jobs.
LEMMA SameJobs ==
  ASSUME UNCHANGED <<ui, goal, worker>>, MainPosted' <=> MainPosted
  PROVE  (Thinking' <=> Thinking) /\ (Thinking => Current' = Current)
BY DEF Thinking, InSetup, Current, MainPosted

\* Without a search the GUI has nothing to see.
LEMMA NoSearchNoView ==
  ASSUME ~Thinking
  PROVE  Uci!Idle
BY DEF Uci!Idle, Held, Forced, Bounded

\* stop and quit, ponderhit, and the commands that only wait.
LEMMA CommandView ==
  ASSUME PoolInv, StopIsJustified, Command
  PROVE  [Uci!Next]_(Uci!vars) /\ StopIsJustified'
<1>1. ui.loc = "read"
  BY DEF Command, Stop, Ponderhit, SetPosition, Go, NewGame, SetHash, SetEvalFile, SetThreads, Quit, Read, At
<1>2. SamePosted
  <2>1. CASE UNCHANGED threadVars
    BY <2>1, PostedUntouched
  <2>2. CASE T!CallWait(UI, Main)
    BY <2>2, MainIsThread, PostedByWait
  <2> QED BY <2>1, <2>2 DEF Command, Stop, Ponderhit, SetPosition, Go, NewGame, SetHash, SetEvalFile,
                            SetThreads, Quit, WaitFor
<1>3. ui'.loc \notin {"setup", "setupWait", "start"}
  BY <1>1 DEF Command, Stop, Ponderhit, SetPosition, Go, NewGame, SetHash, SetEvalFile, SetThreads, Quit, Handle
<1>4. UNCHANGED <<worker, search>>
  BY DEF Command, Stop, Ponderhit, SetPosition, Go, NewGame, SetHash, SetEvalFile, SetThreads, Quit, ElseUnchanged
<1>5. (Thinking' <=> Thinking) /\ Current' = Current /\ (Forced' <=> Forced)
  <2>1. (Thinking' <=> Thinking) /\ Current' = Current
    BY <1>1, <1>2, <1>3, <1>4, MainIsThread DEF SamePosted, Thinking, InSetup, Current
  <2> QED BY <2>1 DEF Forced
<1>6. Thinking \in BOOLEAN /\ Thinking' \in BOOLEAN /\ Forced \in BOOLEAN /\ Forced' \in BOOLEAN
  BY DEF Thinking, Forced
<1>7. CASE Stop \/ Quit
  <2>1. told' = Thinking /\ stop' = TRUE
    BY <1>7 DEF Stop, Quit
  <2>2. StopIsJustified'
    BY <1>5, <2>1 DEF StopIsJustified
  <2>3. CASE Thinking
    <3>1. Thinking' /\ told' /\ ~Held' /\ Bounded'
      BY <1>5, <2>1, <2>3 DEF Held, Bounded
    <3>2. Uci!Stop
      BY <1>5, <1>6, <2>3, <3>1 DEF Uci!Stop
    <3> QED BY <2>2, <3>2 DEF Uci!Next
  <2>4. CASE ~Thinking
    <3>1. ~Held /\ ~Held' /\ ~Forced /\ ~Forced' /\ ~Bounded /\ ~Bounded' /\ ~Thinking'
      BY <1>5, <2>4 DEF Held, Forced, Bounded
    <3>2. Held \in BOOLEAN /\ Held' \in BOOLEAN /\ Bounded \in BOOLEAN /\ Bounded' \in BOOLEAN
      BY DEF Held, Bounded
    <3> QED BY <1>6, <2>2, <2>4, <3>1, <3>2 DEF Uci!vars
  <2> QED BY <2>3, <2>4
<1>8. CASE Ponderhit
  <2>1. ponder' = FALSE /\ UNCHANGED <<told, stop>>
    BY <1>8 DEF Ponderhit
  <2>2. StopIsJustified'
    BY <1>4, <1>5, <2>1 DEF StopIsJustified
  <2>3. Bounded' <=> Bounded
    BY <1>5, <2>1 DEF Bounded
  <2>4. Bounded \in BOOLEAN /\ Bounded' \in BOOLEAN /\ Held \in BOOLEAN /\ Held' \in BOOLEAN
    BY DEF Bounded, Held
  <2>5. Held' => Held
    BY <1>5, <2>1 DEF Held
  <2>6. CASE Held' <=> Held
    BY <1>5, <1>6, <2>2, <2>3, <2>4, <2>6 DEF Uci!vars
  <2>7. CASE Held /\ ~Held'
    <3>1. Uci!Ponderhit
      BY <1>5, <1>6, <2>3, <2>4, <2>7 DEF Uci!Ponderhit, Held
    <3> QED BY <2>2, <3>1 DEF Uci!Next
  <2> QED BY <2>5, <2>6, <2>7
<1>9. CASE SetPosition \/ Go \/ NewGame \/ SetHash \/ SetEvalFile \/ SetThreads
  <2>1. UNCHANGED <<stop, ponder, told>>
    BY <1>9 DEF SetPosition, Go, NewGame, SetHash, SetEvalFile, SetThreads, ElseUnchanged, flags
  <2>2. Unseen
    BY <1>4, <1>5, <2>1, SameView
  <2> QED BY <2>2 DEF Unseen
<1> QED BY <1>7, <1>8, <1>9 DEF Command

\* start_thinking(): one Go of the protocol, at the reset of the flags.
LEMMA StartView ==
  ASSUME PoolInv, DataInv, StopIsJustified, Reset \/ SetUpWorkers \/ StartMain
  PROVE  [Uci!Next]_(Uci!vars) /\ StopIsJustified'
<1>1. ui \in Handler /\ size \in Nat /\ ui.at \in Nat
  BY DEF PoolInv, TypeOK, Control, Sizes
<1>2. \A l, i : Goto(l, i) => ui'.loc = l
  BY <1>1 DEF Goto, Handler
<1>3. CASE Reset
  <2>1. ui.loc = "reset" /\ Quiet /\ ui'.loc = "setup"
    BY <1>2, <1>3, QuietWhen DEF Reset, At, PostLoop, WaitLoop
  <2>2. ~Thinking
    BY <2>1, MainIsThread DEF Thinking, InSetup, Quiet
  <2>3. Thinking'
    BY <2>1 DEF Thinking, InSetup
  <2>4. Held' \in BOOLEAN /\ Forced' \in BOOLEAN /\ Bounded' \in BOOLEAN
    BY DEF Held, Forced, Bounded
  <2>5. Uci!Go
    BY <2>2, <2>3, <2>4 DEF Uci!Go
  <2>6. search.loc = "off" /\ search' = search
    <3>1. Main < size
      BY <2>1 DEF Main, PoolInv, Control, Sizes, Ctor
    <3>2. ~MainSearches
      BY <2>1, <3>1, MainIsThread DEF Quiet, Idle, MainSearches, Busy
    <3> QED BY <1>3, <3>2 DEF Reset, PoolInv, Control, Sizes
  <2>7. StopIsJustified'
    BY <1>3, <2>6 DEF Reset, StopIsJustified
  <2> QED BY <2>5, <2>7 DEF Uci!Next
<1>4. CASE SetUpWorkers
  <2>1. UNCHANGED <<goal, worker, stop, ponder, told, search>>
    BY <1>4 DEF SetUpWorkers, ElseUnchanged, flags
  <2>2. InSetup /\ Thinking
    BY <1>4 DEF SetUpWorkers, ForEach, At, Thinking, InSetup
  <2>3. ASSUME ui'.loc \in {"setup", "setupWait"} PROVE Unseen
    <3>1. Thinking' /\ Current' = Current
      BY <2>1, <2>2, <2>3 DEF Thinking, InSetup, Current
    <3> QED BY <2>1, <2>2, <3>1, SameView
  <2>4. ASSUME At("setupWait"), ui.at = size, ui'.loc = "start" PROVE Unseen
    <3>1. Quiet /\ Main < size
      BY <2>4, QuietWhen DEF At, WaitLoop, PoolInv, Control, Sizes, Ctor, Main
    <3>2. Given(Main)
      BY <2>2, <2>4, <3>1, MainIsThread DEF DataInv, Copied, At, Quiet
    <3>3. goal \in Goal
      BY DEF PoolInv, TypeOK
    <3>4. Thinking' /\ Current' = Current
      BY <2>1, <2>2, <2>4, <3>2, <3>3 DEF Thinking, InSetup, Current, Given, Goal
    <3> QED BY <2>1, <2>2, <3>4, SameView
  <2>5. Unseen
    BY <1>2, <1>4, <2>3, <2>4 DEF SetUpWorkers, ForEach
  <2> QED BY <2>5 DEF Unseen
<1>5. CASE StartMain
  <2>1. ui.loc = "start" /\ ui'.loc = "read" /\ UNCHANGED <<worker, stop, ponder, told, search>>
    BY <1>2, <1>5 DEF StartMain, At, flags
  <2>2. T!Free(UI) /\ Exists(Main)
    BY <1>5, <2>1 DEF StartMain, At, Exists, PoolInv, Control, Sizes, Ctor, Main
  <2>3. MainPosted'
    BY <1>5, <2>2, Alive, PostedByCall, MainIsThread DEF StartMain, RunJob, MainPosted
  <2>4. Thinking /\ Thinking' /\ Current' = Current
    BY <2>1, <2>3 DEF Thinking, InSetup, Current, MainPosted
  <2>5. Unseen
    BY <2>1, <2>4, SameView
  <2> QED BY <2>5 DEF Unseen
<1> QED BY <1>3, <1>4, <1>5

\* The GUI sees nothing of the other handlers.
LEMMA HandlerView ==
  ASSUME PoolInv, StopIsJustified,
         ClearTable \/ ClearPool \/ WaitBeforeDestroy \/ WaitBeforeHash \/ DestroyThreads \/ CreateThreads
  PROVE  Unseen
<1>1. ~MainPosted /\ ~MainPosted'
  BY HandlerSearch
<1>2. ui \in Handler
  BY DEF PoolInv, TypeOK
<1>3. \A l, i : Goto(l, i) => ui'.loc = l
  BY <1>2 DEF Goto, Handler
<1>4. ui'.loc \notin {"setup", "setupWait", "start"}
  BY <1>3 DEF ClearTable, ClearPool, WaitBeforeDestroy, WaitBeforeHash, DestroyThreads, CreateThreads, ForEach
<1>5. ui.loc \notin {"setup", "setupWait", "start"}
  BY DEF ClearTable, ClearPool, WaitBeforeDestroy, WaitBeforeHash, DestroyThreads, CreateThreads, ForEach, At
<1>6. ~Thinking /\ ~Thinking'
  BY <1>1, <1>4, <1>5 DEF Thinking, InSetup, MainPosted
<1>7. UNCHANGED <<stop, ponder, told, search>>
  BY DEF ClearTable, ClearPool, WaitBeforeDestroy, WaitBeforeHash, DestroyThreads, CreateThreads, ElseUnchanged, flags
<1> QED BY <1>6, <1>7, SameView

\* A bestmove printed when nothing holds it back, or with nothing to think about.
LEMMA BestmoveView ==
  ASSUME PoolInv, DataInv, StopIsJustified, Busy(Main, "search"), PrintBestmove, Held => Forced
  PROVE  Uci!Bestmove /\ StopIsJustified'
<1>1. T!FinishJob(Main) /\ UNCHANGED <<ui, stop>> /\ search'.loc = "off"
  BY DEF PrintBestmove, UiUnchanged, flags, MainGoto
<1>2. MainPosted
  BY SearchIsPosted, MainIsThread DEF MainPosted
<1>3. Thinking /\ ~InSetup /\ ui.loc # "start"
  BY <1>2, SearchView
<1>4. ~MainPosted'
  BY <1>1, DoneJob, MainIsThread DEF DataInv, MainPosted
<1>5. ~Thinking'
  BY <1>1, <1>3, <1>4 DEF Thinking, InSetup, MainPosted
<1>6. ~Held' /\ ~Forced' /\ ~Bounded'
  BY <1>5 DEF Held, Forced, Bounded
<1>7. StopIsJustified'
  BY <1>1, <1>5 DEF StopIsJustified
<1> QED BY <1>3, <1>5, <1>6, <1>7 DEF Uci!Bestmove, Uci!Idle

\* The main thread: it raises `stop' for a reason and prints its bestmove after
\* that.
LEMMA MainView ==
  ASSUME EndlessIsBare, PoolInv, DataInv, StopIsJustified,
         MainStep \/ FailLow \/ AfterIteration \/ LeaveIterations(TRUE)
  PROVE  [Uci!Next]_(Uci!vars) /\ StopIsJustified'
<1>1. MainSearches
  BY DEF MainStep, BeginSearch, LaunchHelpers, JoinHelpers, ForEachHelper, CheckTime, FailLow,
         AfterIteration, LeaveIterations, Hold, Bestmove, MainAt, MainSearches
<1>2. MainPosted
  BY <1>1, SearchIsPosted, MainIsThread DEF MainSearches, MainPosted
<1>3. /\ Thinking /\ ~InSetup
      /\ Current = [limits |-> worker[Main].limits, roots |-> worker[Main].roots]
  BY <1>2, SearchView
<1>4. worker[Main] \in Worker /\ worker[Main].limits \in Limits \cup {NoLimits}
  BY MainIsThread DEF PoolInv, TypeOK, Worker
<1>5. MyLimits.tm \/ MyLimits.budget => ~Current.limits.infinite
  BY <1>3, <1>4 DEF EndlessIsBare, MyLimits, NoLimits
<1>6. SUFFICES ASSUME ~Unseen PROVE [Uci!Next]_(Uci!vars) /\ StopIsJustified'
  BY DEF Unseen
<1>7. ASSUME UNCHANGED <<ui, goal, worker, ponder, told>>, MainPosted',
             stop' # stop => stop' /\ (told \/ Forced \/ ~(ponder \/ Current.limits.infinite)),
             search'.loc \in {"join", "best"} => search.loc \in {"join", "best"} \/ stop',
             stop => stop'
      PROVE  FALSE
  BY <1>2, <1>6, <1>7, SameJobs, SameView
<1>8. ASSUME SamePosted PROVE MainPosted'
  BY <1>2, <1>8, MainIsThread DEF SamePosted, MainPosted
<1>9. CASE BeginSearch
  <2>1. ASSUME PrintBestmove, worker[Main].roots = 0 PROVE Uci!Bestmove /\ StopIsJustified'
    <3>1. Forced
      BY <1>3, <2>1 DEF Forced
    <3> QED BY <1>1, <2>1, <3>1, BestmoveView DEF MainSearches
  <2>2. ASSUME MainGoto("launch", 1), UNCHANGED <<threadVars, flags>>, MainUnchanged PROVE FALSE
    BY <1>7, <1>8, <2>2, PostedUntouched DEF MainGoto, MainUnchanged, UiUnchanged, flags
  <2> QED BY <1>9, <2>1, <2>2 DEF BeginSearch, Uci!Next
<1>10. CASE Bestmove
  <2>1. search.loc = "best" /\ stop
    BY <1>10 DEF Bestmove, MainAt, StopIsJustified
  <2>2. Held => Forced
    BY <1>3, <2>1 DEF StopIsJustified, Held
  <2> QED BY <1>1, <1>10, <2>2, BestmoveView DEF Bestmove, MainSearches, Uci!Next
<1>11. CASE LaunchHelpers
  <2>1. /\ UNCHANGED <<ui, goal, worker, ponder, told, stop>>
        /\ search'.loc \in {"launch", "iterate"}
    BY <1>11 DEF LaunchHelpers, ForEachHelper, MainUnchanged, UiUnchanged, flags, MainGoto
  <2>2. ASSUME MainAt("launch"), search.at < size, T!CallRun(Main, search.at, "search") PROVE MainPosted'
    <3>1. search.at \in Thread /\ search.at # Main /\ ~exit[search.at]
      BY <2>2, LaunchesIdle
    <3> QED BY <1>2, <2>2, <3>1, PostedByCall, MainIsThread DEF MainPosted
  <2>3. MainPosted'
    BY <1>8, <1>11, <2>2, PostedUntouched DEF LaunchHelpers, ForEachHelper
  <2> QED BY <1>7, <2>1, <2>3
<1>12. CASE JoinHelpers
  <2>1. /\ UNCHANGED <<ui, goal, worker, ponder, told, stop>> /\ search.loc = "join"
    BY <1>12 DEF JoinHelpers, ForEachHelper, MainUnchanged, UiUnchanged, flags, MainAt
  <2>2. ASSUME MainAt("join"), search.at < size, T!CallWait(Main, search.at) PROVE MainPosted'
    <3>1. search.at \in Thread
      BY <2>2, PoolAssumption DEF MainAt, PoolInv, Control, Sizes, Thread
    <3> QED BY <1>8, <2>2, <3>1, PostedByWait
  <2>3. MainPosted'
    BY <1>8, <1>12, <2>2, PostedUntouched DEF JoinHelpers, ForEachHelper
  <2> QED BY <1>7, <2>1, <2>3
<1>13. ASSUME CheckTime \/ FailLow \/ AfterIteration \/ Hold PROVE FALSE
  <2>1. MainPosted' /\ UNCHANGED <<ui, goal, worker, told, ponder>>
    BY <1>8, <1>13, PostedUntouched DEF CheckTime, FailLow, AfterIteration, Hold, MainUnchanged, UiUnchanged
  <2>2. CASE CheckTime
    BY <1>5, <1>7, <2>1, <2>2 DEF CheckTime
  <2>3. CASE FailLow
    BY <1>7, <2>1, <2>3 DEF FailLow
  <2>4. CASE AfterIteration
    <3>1. worker[Main].roots = 1 => Forced
      BY <1>3 DEF Forced
    <3>2. search' = search /\ ~stop /\ (stop' => Forced \/ ~(ponder \/ Current.limits.infinite)) /\ stop' \in BOOLEAN
      BY <1>5, <2>4, <3>1 DEF AfterIteration
    <3>3. stop \in BOOLEAN
      BY DEF PoolInv, TypeOK
    <3> QED BY <1>7, <2>1, <3>2, <3>3
  <2>5. CASE Hold
    <3>1. stop' = TRUE /\ (stop \/ ~(ponder \/ Current.limits.infinite)) /\ stop \in BOOLEAN
      BY <1>3, <2>5 DEF Hold, MyLimits, PoolInv, TypeOK
    <3> QED BY <1>7, <2>1, <3>1
  <2> QED BY <1>13, <2>2, <2>3, <2>4, <2>5
<1>14. ASSUME NEW why, LeaveIterations(why) PROVE FALSE
  BY <1>7, <1>8, <1>14, PostedUntouched DEF LeaveIterations, MainGoto, MainUnchanged, UiUnchanged, flags
<1> QED BY <1>9, <1>10, <1>11, <1>12, <1>13, <1>14 DEF MainStep

\* A mate found by any thread is a reason, as all search the same.
LEMMA JobView ==
  ASSUME PoolInv, DataInv, StopIsJustified, NEW t \in Thread,
         JobStep(t) \/ HelperFinish(t, TRUE) \/ MateFound(t)
  PROVE  Unseen
<1>1. ASSUME T!FinishJob(t), t # Main \/ job[t] # "search" PROVE MainPosted' <=> MainPosted
  BY <1>1, DoneJob, MainIsThread DEF MainPosted
<1>2. UNCHANGED <<ui, goal, ponder, told, search>>
  BY DEF JobStep, CreateWorker, SetUpWorker, Clear, HelperFinish, MateFound, MainUnchanged, UiUnchanged, flags
<1>3. CASE MateFound(t)
  <2>1. UNCHANGED <<worker, threadVars>> /\ stop' = TRUE /\ worker[t].limits.mate /\ Busy(t, "search")
    BY <1>3 DEF MateFound, MainUnchanged
  <2>2. Posted("search", t)
    BY <2>1, SearchIsPosted
  <2>3. MainPosted /\ t < size
    BY <2>2, SearchHasMain
  <2>4. worker[Main].limits.mate
    BY <2>1, <2>3 DEF DataInv, SearchIsOne, MainPosted
  <2>5. Forced
    BY <2>3, <2>4, SearchView DEF Forced
  <2>6. MainPosted' <=> MainPosted
    BY <2>1, PostedUntouched, MainIsThread DEF SamePosted, MainPosted
  <2> QED BY <1>2, <2>1, <2>5, <2>6, SameJobs, SameView
<1>4. CASE CreateWorker(t) \/ Clear(t) \/ HelperFinish(t, stop) \/ HelperFinish(t, TRUE)
  <2>1. /\ UNCHANGED <<worker, stop>> /\ T!FinishJob(t)
        /\ t # Main \/ job[t] # "search"
    BY <1>4 DEF CreateWorker, Clear, HelperFinish, Busy, MainUnchanged, flags
  <2> QED BY <1>1, <1>2, <2>1, SameJobs, SameView
<1>5. CASE SetUpWorker(t)
  <2>1. T!FinishJob(t) /\ job[t] = "setup" /\ UNCHANGED stop
    BY <1>5 DEF SetUpWorker, Busy, flags
  <2>2. InSetup
    BY <1>5, SetupRuns DEF SetUpWorker
  <2>3. Thinking /\ Thinking' /\ Current' = Current
    BY <1>2, <2>2 DEF Thinking, InSetup, Current
  <2> QED BY <1>2, <2>1, <2>3, SameView
<1> QED BY <1>3, <1>4, <1>5 DEF JobStep

\* Every step is one of the protocol or none, and `stop' stays justified.
LEMMA NextView ==
  ASSUME EndlessIsBare, PoolInv, DataInv, StopIsJustified, [Next]_vars
  PROVE  [Uci!Next]_(Uci!vars) /\ StopIsJustified'
<1>1. ASSUME SamePosted, UNCHANGED <<ui, goal, worker, ponder, told, stop, search>> PROVE Unseen
  BY <1>1, MainIsThread, SameJobs, SameView DEF SamePosted, MainPosted
<1>2. CASE UNCHANGED vars \/ TimeRunsOut \/ Exited
  BY <1>1, <1>2, PostedUntouched DEF vars, TimeRunsOut, Exited, UiUnchanged, flags, Unseen
<1>3. CASE \/ \E p \in {UI, Main} : ThreadStep(T!ClientStep(p))
           \/ \E u \in Thread : ThreadStep(T!OwnerStep(u)) \/ ThreadStep(T!SpuriousWake(u))
  <2>1. ClientOrOwner /\ UNCHANGED <<ui, goal, worker, ponder, told, stop, search>>
    BY <1>3 DEF ThreadStep, ClientOrOwner, UiUnchanged, flags
  <2> QED BY <1>1, <2>1, HandedOn DEF Unseen
<1> QED BY <1>2, <1>3, CommandView, StartView, HandlerView, MainView, JobView DEF Next, UiStep, Unseen

\* The engine begins without a search.
LEMMA InitView == Init => Uci!Init /\ StopIsJustified
<1> SUFFICES ASSUME Init PROVE Uci!Init /\ StopIsJustified
  OBVIOUS
<1>1. /\ ui.loc = "create" /\ search.loc = "off"
      /\ \A p \in {UI, Main} : call[p].op = "none"
      /\ job[Main] = NoJob /\ jobFunc[Main] = NoJob
  BY MainIsThread DEF Init, T!Init, T!NoCall
<1>2. ~Thinking
  BY <1>1, PoolAssumption, MainIsThread DEF Posted, Thinking, InSetup
<1> QED BY <1>1, <1>2, NoSearchNoView DEF Uci!Init, StopIsJustified

\* The whole invariant.
LEMMA Invariance ==
  ASSUME EndlessIsBare
  PROVE  Spec => []IInv
<1>1. Init => IInv
  BY InitPoolInv, InitDataInv, InitView DEF IInv
<1>2. IInv /\ [Next]_vars => IInv'
  BY NextPoolInv, NextDataInv, NextView DEF IInv
<1> QED BY <1>1, <1>2, PTL DEF Spec

\* The engine implements UciProtocol: one bestmove for each go, and none while
\* the GUI holds the search, unless there is no choice or the mate it asked for
\* was found; for a GUI that gives an endless search neither a clock nor nodes.
THEOREM ProtocolKept ==
  ASSUME EndlessIsBare
  PROVE  Spec => KeepsProtocol
<1>1. Init => Uci!Init
  BY InitView
<1>2. IInv /\ [Next]_vars => [Uci!Next]_(Uci!vars)
  BY NextView DEF IInv
<1> QED BY <1>1, <1>2, Invariance, PTL DEF Spec, KeepsProtocol, Uci!Spec
=============================================================================
