-------------------------- MODULE WorkerThreadProofs --------------------------
(***************************************************************************)
(* For any set of threads, clients and jobs: type correctness of           *)
(* WorkerThread, and the absence of lost wake-ups and of overwritten jobs. *)
(*                                                                         *)
(* NoLostWakeup is not inductive.  That notify_one() of run_custom_job()   *)
(* reaches the parked thread needs that no client sleeps beside it         *)
(* (Exclusive, Sleepers); that notify_one() of idle_loop() reaches the     *)
(* client needs that there is only one.  IInv collects these facts.        *)
(***************************************************************************)
EXTENDS WorkerThread, TLAPS

\* At most one client has a call in flight on a thread.
Exclusive ==
  \A p, q \in Client :
    p # q /\ call[p].op # "none" /\ call[q].op # "none" => call[p].on # call[q].on

\* Who sleeps on a thread's condition variable, besides the thread: a client
\* in the cv.wait() of a call on that thread, while its predicate is false.
Sleepers ==
  \A t \in Thread : \A p \in cv[t] \ {t} :
    /\ p \in Client
    /\ call[p].op \in {"run", "wait"}
    /\ call[p].on = t
    /\ searching[t]

\* A thread sleeps in idle_loop() only.
OwnerSleeps == \A t \in Thread : t \in cv[t] => own[t] = "parked"

\* `searching' stays up from the post of a job to the next turn of the loop.
BusySearching == \A t \in Thread : own[t] \in {"enter", "busy"} => searching[t]

\* A parked thread that is to wake up finds a function to run.
JobPosted == \A t \in Thread : own[t] = "parked" /\ searching[t] => jobFunc[t] # NoJob

\* A call is on an existing thread other than its caller, a function is posted
\* by run_custom_job(), and only a destructor joins.
CallsInOrder ==
  \A p \in Client : call[p].op # "none" =>
    /\ call[p].on # p
    /\ call[p].op = "run" => call[p].job # NoJob
    /\ own[call[p].on] # "none"
    /\ call[p].op = "join" => exit[call[p].on]

IInv ==
  /\ TypeOK
  /\ Exclusive
  /\ Sleepers
  /\ OwnerSleeps
  /\ BusySearching
  /\ JobPosted
  /\ CallsInOrder
  /\ NoLostWakeup

-----------------------------------------------------------------------------
\* notify_one() leaves nobody asleep where at most one process sleeps.
LEMMA NotifyOneEmpties ==
  ASSUME NEW t, NEW S, \A a, b \in S : a = b, NEW rest \in NotifyOne(t, S)
  PROVE  rest = {}
BY DEF NotifyOne

\* notify_one() wakes, it does not put to sleep.
LEMMA NotifyOneShrinks ==
  ASSUME NEW t, NEW S, NEW rest \in NotifyOne(t, S)
  PROVE  rest \subseteq S
BY DEF NotifyOne

\* The idle call is a call.
LEMMA NoCallType == NoCall \in Call /\ NoCall.op = "none"
BY ThreadAssumption DEF NoCall, Call, CallOp

LEMMA InitIInv == Init => IInv
<1> SUFFICES ASSUME Init PROVE IInv
  OBVIOUS
<1> USE NoCallType, ThreadAssumption DEF Init
<1>1. TypeOK
  BY DEF TypeOK, OwnState
<1>2. Exclusive /\ CallsInOrder
  BY DEF Exclusive, CallsInOrder
<1>3. Sleepers /\ OwnerSleeps /\ BusySearching /\ JobPosted /\ NoLostWakeup
  BY DEF Sleepers, OwnerSleeps, BusySearching, JobPosted, NoLostWakeup
<1> QED BY <1>1, <1>2, <1>3 DEF IInv

-----------------------------------------------------------------------------
\* The start of a call within the contract: a record in call, and nothing
\* else but, in the destructor, exit.
LEMMA StartCallIInv ==
  ASSUME IInv, NEW p \in Client, NEW t \in Thread,
         NEW o \in {"run", "wait"}, NEW j \in Job \cup {NoJob}, o = "run" => j \in Job,
         MayCall(p, t), Free(p), SetCall(p, o, t, j),
         exit' = exit \/ (exit' = [exit EXCEPT ![t] = TRUE]),
         UNCHANGED <<own, searching, jobFunc, job, cv>>
  PROVE  IInv'
<1> USE DEF IInv, SetCall, Free, MayCall, NobodyElse
<1>1. TypeOK'
  BY DEF TypeOK, Call, CallOp
<1>2. Exclusive'
  BY DEF Exclusive, TypeOK, Call, CallOp
<1>3. Sleepers'
  BY DEF Sleepers, TypeOK, Call, CallOp
<1>4. OwnerSleeps' /\ BusySearching' /\ JobPosted'
  BY DEF OwnerSleeps, BusySearching, JobPosted
<1>5. CallsInOrder'
  BY ThreadAssumption DEF CallsInOrder, TypeOK, Call, CallOp
<1>6. NoLostWakeup'
  BY DEF NoLostWakeup, TypeOK, Call, CallOp
<1> QED BY <1>1, <1>2, <1>3, <1>4, <1>5, <1>6

LEMMA ConstructIInv ==
  ASSUME IInv, NEW p \in Client, NEW t \in Thread, MayConstruct(p, t), Construct(p, t)
  PROVE  IInv'
<1> USE DEF IInv, Construct, MayConstruct, NobodyElse, Free
<1>1. TypeOK'
  BY DEF TypeOK, OwnState
<1>2. Exclusive'
  BY DEF Exclusive
\* Nobody sleeps on a thread that does not exist.
<1>3. cv[t] = {}
  BY DEF Sleepers, OwnerSleeps, TypeOK
<1>4. Sleepers' /\ OwnerSleeps' /\ BusySearching' /\ JobPosted' /\ NoLostWakeup'
  BY <1>3 DEF Sleepers, OwnerSleeps, BusySearching, JobPosted, NoLostWakeup, TypeOK
<1>5. CallsInOrder'
  BY DEF CallsInOrder, TypeOK, Call
<1> QED BY <1>1, <1>2, <1>4, <1>5

LEMMA RunCustomJobIInv ==
  ASSUME IInv, NEW p \in Client, RunCustomJob(p)
  PROVE  IInv'
<1> DEFINE t == call[p].on
<1> USE DEF IInv
<1>1. t \in Thread /\ t # p /\ call[p].op = "run" /\ p \notin cv[t] /\ own[t] # "none"
  BY DEF RunCustomJob, TypeOK, Call, CallsInOrder
<1>2. CASE searching[t] /\ Sleep(p, t)
  <2>1. TypeOK'
    BY <1>1, <1>2 DEF TypeOK, Sleep
  <2>2. Exclusive' /\ CallsInOrder' /\ BusySearching' /\ JobPosted'
    BY <1>2 DEF Exclusive, CallsInOrder, BusySearching, JobPosted, Sleep
  <2>3. Sleepers' /\ OwnerSleeps' /\ NoLostWakeup'
    BY <1>1, <1>2 DEF Sleepers, OwnerSleeps, NoLostWakeup, TypeOK, Sleep
  <2> QED BY <2>1, <2>2, <2>3
<1>3. CASE ~searching[t] /\ ~(searching[t] /\ Sleep(p, t))
  <2>1. /\ jobFunc' = [jobFunc EXCEPT ![t] = call[p].job]
        /\ searching' = [searching EXCEPT ![t] = TRUE]
        /\ call' = [call EXCEPT ![p].op = "notify"]
        /\ UNCHANGED <<own, exit, job, cv>>
    BY <1>1, <1>3 DEF RunCustomJob
  <2>2. own[t] \in {"parked", "gone"}
    BY <1>1, <1>3 DEF BusySearching, JobPosted, TypeOK, OwnState
  <2>3. TypeOK'
    BY <1>1, <2>1, <2>2 DEF TypeOK, Call, CallOp
  <2>4. Exclusive'
    BY <1>1, <2>1 DEF Exclusive, TypeOK, Call, CallOp
  <2>5. Sleepers'
    BY <1>1, <2>1 DEF Sleepers, TypeOK, Call, CallOp
  <2>6. OwnerSleeps' /\ BusySearching' /\ JobPosted' /\ CallsInOrder'
    BY <1>1, <2>1 DEF OwnerSleeps, BusySearching, JobPosted, CallsInOrder, TypeOK, Call, CallOp
  <2>7. NoLostWakeup'
    BY <1>1, <2>1 DEF NoLostWakeup, TypeOK, Call, CallOp
  <2> QED BY <2>3, <2>4, <2>5, <2>6, <2>7
<1> QED BY <1>1, <1>2, <1>3 DEF RunCustomJob

\* The client that notifies is the only one with a call on the thread: the
\* only possible sleeper is the thread itself.
LEMMA NotifyIInv ==
  ASSUME IInv, NEW p \in Client, Notify(p)
  PROVE  IInv'
<1> DEFINE t == call[p].on
<1> USE DEF IInv
<1>1. t \in Thread /\ t # p /\ call[p].op = "notify" /\ own[t] # "none"
  BY DEF Notify, TypeOK, Call, CallsInOrder
<1>2. cv[t] \subseteq {t}
  BY <1>1 DEF Exclusive, Sleepers
<1>3. cv' = [cv EXCEPT ![t] = {}] /\ UNCHANGED <<own, searching, exit, jobFunc, job>>
  BY <1>2, NotifyOneEmpties DEF Notify
<1>4. \/ exit[t] /\ call' = [call EXCEPT ![p].op = "join"]
      \/ call' = [call EXCEPT ![p] = NoCall]
  BY DEF Notify, Return
<1>5. /\ call' \in [Client -> Call]
      /\ \A q \in Client : q # p => call'[q] = call[q]
      /\ \/ call'[p].op = "none"
         \/ call'[p].op = "join" /\ call'[p].on = t /\ exit[t]
  <2>1. call \in [Client -> Call]
    BY DEF TypeOK
  <2>2. CASE exit[t] /\ call' = [call EXCEPT ![p].op = "join"]
    <3>1. [call[p] EXCEPT !.op = "join"] \in Call
      BY <2>1 DEF Call, CallOp
    <3> QED BY <1>1, <2>1, <2>2, <3>1 DEF Call
  <2>3. CASE call' = [call EXCEPT ![p] = NoCall]
    BY <2>1, <2>3, NoCallType
  <2> QED BY <1>4, <2>2, <2>3
<1>6. TypeOK'
  BY <1>1, <1>3, <1>5 DEF TypeOK
<1>7. Exclusive'
  BY <1>1, <1>5 DEF Exclusive
<1>8. Sleepers' /\ OwnerSleeps' /\ BusySearching' /\ JobPosted'
  BY <1>1, <1>3, <1>5 DEF Sleepers, OwnerSleeps, BusySearching, JobPosted, TypeOK
<1>9. CallsInOrder'
  BY <1>1, <1>3, <1>5 DEF CallsInOrder
<1>10. NoLostWakeup'
  BY <1>1, <1>3, <1>5 DEF NoLostWakeup, TypeOK
<1> QED BY <1>6, <1>7, <1>8, <1>9, <1>10

\* The end of a call: nothing but the record in call goes back to NoCall.
LEMMA ReturnIInv ==
  ASSUME IInv, NEW p \in Client, call[p].op \in {"wait", "join"},
         p \notin cv[call[p].on], Return(p),
         UNCHANGED <<own, searching, exit, jobFunc, job, cv>>
  PROVE  IInv'
<1> USE DEF IInv
<1>1. /\ call' \in [Client -> Call]
      /\ \A q \in Client : q # p => call'[q] = call[q]
      /\ call'[p].op = "none"
  BY NoCallType DEF Return, TypeOK
<1>2. TypeOK' /\ Exclusive' /\ CallsInOrder'
  BY <1>1 DEF TypeOK, Exclusive, CallsInOrder
<1>3. Sleepers' /\ OwnerSleeps' /\ BusySearching' /\ JobPosted'
  BY <1>1 DEF Sleepers, OwnerSleeps, BusySearching, JobPosted, TypeOK
<1>4. NoLostWakeup'
  BY <1>1 DEF NoLostWakeup, TypeOK
<1> QED BY <1>2, <1>3, <1>4

LEMMA WaitIInv ==
  ASSUME IInv, NEW p \in Client, WaitForSearchFinished(p)
  PROVE  IInv'
<1> DEFINE t == call[p].on
<1> USE DEF IInv
<1>1. t \in Thread /\ t # p /\ call[p].op = "wait" /\ p \notin cv[t]
  BY DEF WaitForSearchFinished, TypeOK, Call, CallsInOrder
<1>2. CASE searching[t] /\ Sleep(p, t)
  <2>1. TypeOK'
    BY <1>1, <1>2 DEF TypeOK, Sleep
  <2>2. Exclusive' /\ CallsInOrder' /\ BusySearching' /\ JobPosted'
    BY <1>2 DEF Exclusive, CallsInOrder, BusySearching, JobPosted, Sleep
  <2>3. Sleepers' /\ OwnerSleeps' /\ NoLostWakeup'
    BY <1>1, <1>2 DEF Sleepers, OwnerSleeps, NoLostWakeup, TypeOK, Sleep
  <2> QED BY <2>1, <2>2, <2>3
<1>3. CASE Return(p) /\ UNCHANGED <<own, searching, exit, jobFunc, job, cv>>
  BY <1>1, <1>3, ReturnIInv
<1> QED BY <1>2, <1>3 DEF WaitForSearchFinished

LEMMA JoinIInv ==
  ASSUME IInv, NEW p \in Client, Join(p)
  PROVE  IInv'
<1> DEFINE t == call[p].on
<1> USE DEF IInv, Join
<1>1. t \in Thread /\ t # p /\ call[p].op = "join" /\ own[t] = "gone"
  BY DEF TypeOK, Call, CallsInOrder
<1>2. /\ call' \in [Client -> Call]
      /\ \A q \in Client : q # p => call'[q] = call[q]
      /\ call'[p].op = "none"
  BY NoCallType DEF Return, TypeOK
<1>3. TypeOK'
  BY <1>1, <1>2 DEF TypeOK, OwnState
<1>4. Exclusive'
  BY <1>2 DEF Exclusive
<1>5. Sleepers' /\ OwnerSleeps' /\ BusySearching' /\ JobPosted'
  BY <1>1, <1>2 DEF Sleepers, OwnerSleeps, BusySearching, JobPosted, TypeOK
<1>6. CallsInOrder'
  BY <1>1, <1>2 DEF CallsInOrder, Exclusive, TypeOK
<1>7. NoLostWakeup'
  BY <1>1, <1>2 DEF NoLostWakeup, TypeOK
<1> QED BY <1>3, <1>4, <1>5, <1>6, <1>7

-----------------------------------------------------------------------------
\* idle_loop() gives up `searching': the one client that may sleep is woken.
LEMMA IdleEnterIInv ==
  ASSUME IInv, NEW t \in Thread, IdleEnter(t)
  PROVE  IInv'
<1> USE DEF IInv, IdleEnter
<1>1. t \notin cv[t]
  BY DEF OwnerSleeps
<1>2. \A a, b \in cv[t] : a = b
  BY <1>1 DEF Exclusive, Sleepers
<1>3. cv' = [cv EXCEPT ![t] = {t}]
  BY <1>2, NotifyOneEmpties
<1>4. jobFunc[t] = NoJob
  BY DEF TypeOK
<1>5. TypeOK'
  BY <1>3, <1>4 DEF TypeOK, OwnState
<1>6. Exclusive' /\ CallsInOrder'
  BY DEF Exclusive, CallsInOrder, TypeOK, Call
<1>7. Sleepers' /\ OwnerSleeps' /\ BusySearching' /\ JobPosted'
  BY <1>3 DEF Sleepers, OwnerSleeps, BusySearching, JobPosted, TypeOK
<1>8. NoLostWakeup'
  BY <1>3 DEF NoLostWakeup, TypeOK
<1> QED BY <1>5, <1>6, <1>7, <1>8

LEMMA IdleWakeIInv ==
  ASSUME IInv, NEW t \in Thread, IdleWake(t)
  PROVE  IInv'
<1> USE DEF IInv
<1>1. own[t] = "parked" /\ t \notin cv[t]
  BY DEF IdleWake
<1>2. CASE ~searching[t] /\ Sleep(t, t)
  <2>1. TypeOK'
    BY <1>1, <1>2 DEF TypeOK, Sleep
  <2>2. Exclusive' /\ CallsInOrder' /\ BusySearching' /\ JobPosted'
    BY <1>2 DEF Exclusive, CallsInOrder, BusySearching, JobPosted, Sleep
  <2>3. Sleepers' /\ OwnerSleeps' /\ NoLostWakeup'
    BY <1>1, <1>2 DEF Sleepers, OwnerSleeps, NoLostWakeup, TypeOK, Sleep
  <2> QED BY <2>1, <2>2, <2>3
<1>3. CASE /\ searching[t]
           /\ \/ /\ own' = [own EXCEPT ![t] = "gone"]
                 /\ UNCHANGED <<jobFunc, job>>
              \/ /\ own' = [own EXCEPT ![t] = "busy"]
                 /\ job' = [job EXCEPT ![t] = jobFunc[t]]
                 /\ jobFunc' = [jobFunc EXCEPT ![t] = NoJob]
                 /\ jobFunc[t] # NoJob
           /\ UNCHANGED <<searching, exit, cv, call>>
  <2>1. TypeOK'
    BY <1>1, <1>3 DEF TypeOK, OwnState
  <2>2. Exclusive' /\ Sleepers' /\ NoLostWakeup'
    BY <1>3 DEF Exclusive, Sleepers, NoLostWakeup
  <2>3. OwnerSleeps' /\ BusySearching' /\ JobPosted' /\ CallsInOrder'
    BY <1>1, <1>3 DEF OwnerSleeps, BusySearching, JobPosted, CallsInOrder, TypeOK, Call
  <2> QED BY <2>1, <2>2, <2>3
<1>4. searching[t] => jobFunc[t] # NoJob
  BY DEF IdleWake, JobPosted
<1>5. (~searching[t] /\ Sleep(t, t)) \/ searching[t]
  BY DEF IdleWake
<1>6. ASSUME searching[t] PROVE IInv'
  <2>1. CASE exit[t]
    BY <1>3, <1>6, <2>1 DEF IdleWake
  <2>2. CASE ~exit[t]
    BY <1>3, <1>4, <1>6, <2>2 DEF IdleWake
  <2> QED BY <2>1, <2>2
<1> QED BY <1>2, <1>5, <1>6

LEMMA FinishJobIInv ==
  ASSUME IInv, NEW t \in Thread, FinishJob(t)
  PROVE  IInv'
<1> USE DEF IInv, FinishJob
<1>1. TypeOK'
  BY ThreadAssumption DEF TypeOK, OwnState
<1>2. Exclusive' /\ Sleepers' /\ NoLostWakeup'
  BY DEF Exclusive, Sleepers, NoLostWakeup
<1>3. OwnerSleeps' /\ BusySearching' /\ JobPosted' /\ CallsInOrder'
  BY DEF OwnerSleeps, BusySearching, JobPosted, CallsInOrder, TypeOK, Call
<1> QED BY <1>1, <1>2, <1>3

LEMMA SpuriousWakeIInv ==
  ASSUME IInv, NEW t \in Thread, SpuriousWake(t)
  PROVE  IInv'
<1> USE DEF IInv, SpuriousWake
<1>1. TypeOK'
  BY DEF TypeOK
<1>2. Exclusive' /\ BusySearching' /\ JobPosted' /\ CallsInOrder'
  BY DEF Exclusive, BusySearching, JobPosted, CallsInOrder
<1>3. Sleepers' /\ OwnerSleeps' /\ NoLostWakeup'
  BY DEF Sleepers, OwnerSleeps, NoLostWakeup, TypeOK
<1> QED BY <1>1, <1>2, <1>3

-----------------------------------------------------------------------------
LEMMA NextIInv == IInv /\ [Next]_vars => IInv'
<1> SUFFICES ASSUME IInv, [Next]_vars PROVE IInv'
  OBVIOUS
<1>1. CASE \E p \in Client, t \in Thread : MayConstruct(p, t) /\ Construct(p, t)
  BY <1>1, ConstructIInv
<1>2. ASSUME NEW p \in Client, NEW t \in Thread, NEW j \in Job,
             MayCall(p, t), CallRun(p, t, j)
      PROVE  IInv'
  BY <1>2, StartCallIInv DEF CallRun
<1>3. ASSUME NEW p \in Client, NEW t \in Thread, MayCall(p, t), CallWait(p, t)
      PROVE  IInv'
  BY <1>3, StartCallIInv DEF CallWait
<1>4. ASSUME NEW p \in Client, NEW t \in Thread, NEW j \in Job,
             MayDestroy(p, t), Destroy(p, t, j)
      PROVE  IInv'
  BY <1>4, StartCallIInv DEF Destroy, MayDestroy
<1>5. CASE \E p \in Client : ClientStep(p)
  BY <1>5, RunCustomJobIInv, NotifyIInv, WaitIInv, JoinIInv DEF ClientStep
<1>6. CASE \E t \in Thread : OwnerStep(t) \/ FinishJob(t) \/ SpuriousWake(t)
  BY <1>6, IdleEnterIInv, IdleWakeIInv, FinishJobIInv, SpuriousWakeIInv DEF OwnerStep
<1>7. CASE UNCHANGED vars
  BY <1>7 DEF vars, IInv, TypeOK, Exclusive, Sleepers, OwnerSleeps, BusySearching,
              JobPosted, CallsInOrder, NoLostWakeup
<1> QED BY <1>1, <1>2, <1>3, <1>4, <1>5, <1>6, <1>7 DEF Next

LEMMA Invariance == Spec => []IInv
<1> QED BY InitIInv, NextIInv, PTL DEF Spec

\* Every field of a Thread keeps its type, a native thread runs a function
\* exactly while it is out of its wait, and a posted function is only ever
\* found with `searching' up.
THEOREM TypeCorrect == Spec => []TypeOK
<1>1. IInv => TypeOK
  BY DEF IInv
<1> QED BY <1>1, Invariance, PTL

\* The protocol of Thread loses no wake-up, whatever the number of threads and
\* clients, as long as two clients never have a call on the same thread.
THEOREM WakeupsArrive == Spec => []NoLostWakeup
<1>1. IInv => NoLostWakeup
  BY DEF IInv
<1> QED BY <1>1, Invariance, PTL

\* run_custom_job() never replaces a function that was posted before.
THEOREM JobsArrive == Spec => PostedJobIsTaken
<1> DEFINE Taken(t) == jobFunc[t] # NoJob /\ jobFunc'[t] # jobFunc[t] =>
                         jobFunc'[t] = NoJob /\ (job'[t] = jobFunc[t] \/ exit[t])
<1>1. ASSUME IInv, [Next]_vars, NEW t \in Thread PROVE Taken(t)
  <2>1. CASE jobFunc' = jobFunc
    BY <2>1
  <2>2. ASSUME NEW p \in Client, RunCustomJob(p), ~searching[call[p].on],
               jobFunc' = [jobFunc EXCEPT ![call[p].on] = call[p].job]
        PROVE  Taken(t)
    BY <1>1, <2>2 DEF IInv, TypeOK, Call
  <2>3. ASSUME NEW p \in Client, Join(p) PROVE Taken(t)
    BY <1>1, <2>3 DEF IInv, TypeOK, Call, CallsInOrder, Join
  <2>4. ASSUME NEW u \in Thread, IdleWake(u) PROVE Taken(t)
    BY <1>1, <2>4 DEF IInv, TypeOK, IdleWake, Sleep
  <2>5. \/ jobFunc' = jobFunc
        \/ \E p \in Client : Join(p)
        \/ \E u \in Thread : IdleWake(u)
        \/ \E p \in Client : /\ RunCustomJob(p) /\ ~searching[call[p].on]
                             /\ jobFunc' = [jobFunc EXCEPT ![call[p].on] = call[p].job]
    BY <1>1 DEF Next, vars, Construct, CallRun, CallWait, Destroy, ClientStep, OwnerStep,
                RunCustomJob, Notify, WaitForSearchFinished, Sleep, IdleEnter, FinishJob,
                SpuriousWake
  <2> QED BY <2>1, <2>2, <2>3, <2>4, <2>5
<1>2. IInv /\ [Next]_vars => [TakenOrDropped]_vars
  BY <1>1 DEF TakenOrDropped
<1> QED BY <1>2, Invariance, PTL DEF Spec, PostedJobIsTaken
=============================================================================
