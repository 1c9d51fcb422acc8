---------------------------- MODULE WorkerThread ----------------------------
(***************************************************************************)
(* The Thread class of thread.h and thread.cpp: a native thread parked in  *)
(* idle_loop(), one mutex and one condition variable, on which both the    *)
(* thread itself (it waits for `searching') and the callers of             *)
(* run_custom_job() and wait_for_search_finished() (they wait for          *)
(* `~searching') block, and which is only ever signalled by notify_one().  *)
(*                                                                         *)
(* A critical section that does not block is one step.  cv.wait() is the   *)
(* caller's membership of the wait set: a process in the set is asleep, a  *)
(* process that was removed from it evaluates its predicate again.  The    *)
(* notify_one() of run_custom_job() comes after the unlock and is a step   *)
(* of its own.                                                             *)
(*                                                                         *)
(* With one condition variable and notify_one() the class is correct only  *)
(* while at most one client has a call in flight on a thread.  That rule   *)
(* is the contract MayCall of this specification; module SearchPool shows  *)
(* that the engine keeps it.                                               *)
(***************************************************************************)
EXTENDS FiniteSets

CONSTANTS
  Thread,   \* the Thread objects
  Client,   \* the processes that call their methods; a Thread may be one too
  Job,      \* the functions that run_custom_job() is given
  NoJob     \* an empty std::function

ASSUME ThreadAssumption == Thread # {} /\ Job # {} /\ NoJob \notin Job

VARIABLES
  own,        \* own[t]: where t's native thread is in idle_loop()
  searching,  \* searching[t]: the flag both predicates read
  exit,       \* exit[t]: set by the destructor
  jobFunc,    \* jobFunc[t]: the function posted to t and not yet taken
  job,        \* job[t]: the function t is running
  cv,         \* cv[t]: the processes asleep on t's condition variable
  call        \* call[p]: the call that client p has in flight

vars == <<own, searching, exit, jobFunc, job, cv, call>>

OwnState == {"none", "enter", "parked", "busy", "gone"}

CallOp == {"none", "run", "notify", "wait", "join"}

Call == [op : CallOp, on : Thread, job : Job \cup {NoJob}]

NoCall == [op |-> "none", on |-> CHOOSE t \in Thread : TRUE, job |-> NoJob]

TypeOK ==
  /\ own \in [Thread -> OwnState]
  /\ searching \in [Thread -> BOOLEAN]
  /\ exit \in [Thread -> BOOLEAN]
  /\ jobFunc \in [Thread -> Job \cup {NoJob}]
  /\ job \in [Thread -> Job \cup {NoJob}]
  /\ cv \in [Thread -> SUBSET (Client \cup Thread)]
  /\ call \in [Client -> Call]
  /\ \A t \in Thread :
       /\ cv[t] \subseteq Client \cup {t}
       /\ job[t] # NoJob <=> own[t] = "busy"
       /\ jobFunc[t] # NoJob => searching[t] /\ own[t] \in {"parked", "gone"}

Init ==
  /\ own = [t \in Thread |-> "none"]
  /\ searching = [t \in Thread |-> TRUE]
  /\ exit = [t \in Thread |-> FALSE]
  /\ jobFunc = [t \in Thread |-> NoJob]
  /\ job = [t \in Thread |-> NoJob]
  /\ cv = [t \in Thread |-> {}]
  /\ call = [p \in Client |-> NoCall]

(***************************************************************************)
(* Starting a call.  A client has one call in flight at a time; these four *)
(* actions carry no guard on the thread, which is the caller's business.   *)
(***************************************************************************)
Free(p) == call[p].op = "none"

SetCall(p, o, t, j) == call' = [call EXCEPT ![p] = [op |-> o, on |-> t, job |-> j]]

Return(p) == call' = [call EXCEPT ![p] = NoCall]

\* The constructor's native thread: `searching' is set before it starts.
Construct(p, t) ==
  /\ Free(p)
  /\ own' = [own EXCEPT ![t] = "enter"]
  /\ searching' = [searching EXCEPT ![t] = TRUE]
  /\ exit' = [exit EXCEPT ![t] = FALSE]
  /\ UNCHANGED <<jobFunc, job, cv, call>>

CallRun(p, t, j) ==
  /\ Free(p)
  /\ SetCall(p, "run", t, j)
  /\ UNCHANGED <<own, searching, exit, jobFunc, job, cv>>

CallWait(p, t) ==
  /\ Free(p)
  /\ SetCall(p, "wait", t, NoJob)
  /\ UNCHANGED <<own, searching, exit, jobFunc, job, cv>>

\* The destructor: exit = true, then start_searching(), which posts job j.
Destroy(p, t, j) ==
  /\ Free(p)
  /\ exit' = [exit EXCEPT ![t] = TRUE]
  /\ SetCall(p, "run", t, j)
  /\ UNCHANGED <<own, searching, jobFunc, job, cv>>

(***************************************************************************)
(* The steps of a call in flight.                                          *)
(***************************************************************************)

\* notify_one() on the condition variable of t: one sleeper, if there is one.
NotifyOne(t, sleepers) ==
  IF sleepers = {} THEN {{}} ELSE {sleepers \ {q} : q \in sleepers}

Sleep(p, t) ==
  /\ cv' = [cv EXCEPT ![t] = @ \cup {p}]
  /\ UNCHANGED <<own, searching, exit, jobFunc, job, call>>

\* Mutant of RunCustomJob: without cv.wait().
RunCustomJobUnchecked(p) ==
  LET t == call[p].on IN
  /\ call[p].op = "run"
  /\ jobFunc' = [jobFunc EXCEPT ![t] = call[p].job]
  /\ searching' = [searching EXCEPT ![t] = TRUE]
  /\ call' = [call EXCEPT ![p].op = "notify"]
  /\ UNCHANGED <<own, exit, job, cv>>

\* run_custom_job(): the critical section.
RunCustomJob(p) ==
  LET t == call[p].on IN
  /\ call[p].op = "run"
  /\ p \notin cv[t]
  /\ \/ /\ searching[t]
        /\ Sleep(p, t)
     \/ /\ ~searching[t]
        /\ jobFunc' = [jobFunc EXCEPT ![t] = call[p].job]
        /\ searching' = [searching EXCEPT ![t] = TRUE]
        /\ call' = [call EXCEPT ![p].op = "notify"]
        /\ UNCHANGED <<own, exit, job, cv>>

\* Mutant of Notify: notify_one() left out.
NotifyNobody(p) ==
  /\ call[p].op = "notify"
  /\ IF exit[call[p].on] THEN call' = [call EXCEPT ![p].op = "join"] ELSE Return(p)
  /\ UNCHANGED <<own, searching, exit, jobFunc, job, cv>>

\* run_custom_job(): the notification, after the lock was released.  A
\* destructor goes on to join the native thread.
Notify(p) ==
  LET t == call[p].on IN
  /\ call[p].op = "notify"
  /\ \E rest \in NotifyOne(t, cv[t]) : cv' = [cv EXCEPT ![t] = rest]
  /\ IF exit[t] THEN call' = [call EXCEPT ![p].op = "join"] ELSE Return(p)
  /\ UNCHANGED <<own, searching, exit, jobFunc, job>>

WaitForSearchFinished(p) ==
  LET t == call[p].on IN
  /\ call[p].op = "wait"
  /\ p \notin cv[t]
  /\ \/ searching[t] /\ Sleep(p, t)
     \/ /\ ~searching[t]
        /\ Return(p)
        /\ UNCHANGED <<own, searching, exit, jobFunc, job, cv>>

\* stdThread.join(), after which the Thread object is gone.
Join(p) ==
  LET t == call[p].on IN
  /\ call[p].op = "join"
  /\ own[t] = "gone"
  /\ own' = [own EXCEPT ![t] = "none"]
  /\ jobFunc' = [jobFunc EXCEPT ![t] = NoJob]
  /\ Return(p)
  /\ UNCHANGED <<searching, exit, job, cv>>

(***************************************************************************)
(* The native thread: idle_loop().                                         *)
(***************************************************************************)

\* Mutant of IdleEnter: notify_one() left out.
IdleEnterSilently(t) ==
  /\ own[t] = "enter"
  /\ own' = [own EXCEPT ![t] = "parked"]
  /\ searching' = [searching EXCEPT ![t] = FALSE]
  /\ cv' = [cv EXCEPT ![t] = @ \cup {t}]
  /\ UNCHANGED <<exit, jobFunc, job, call>>

\* Under the lock: searching = false, notify_one(), and cv.wait(), whose
\* predicate `searching' has just been made false.
IdleEnter(t) ==
  /\ own[t] = "enter"
  /\ own' = [own EXCEPT ![t] = "parked"]
  /\ searching' = [searching EXCEPT ![t] = FALSE]
  /\ \E rest \in NotifyOne(t, cv[t]) : cv' = [cv EXCEPT ![t] = rest \cup {t}]
  /\ UNCHANGED <<exit, jobFunc, job, call>>

\* cv.wait() returns in the thread: back to sleep, out of the loop, or on to
\* the posted function.
IdleWake(t) ==
  /\ own[t] = "parked"
  /\ t \notin cv[t]
  /\ \/ ~searching[t] /\ Sleep(t, t)
     \/ /\ searching[t]
        /\ exit[t]
        /\ own' = [own EXCEPT ![t] = "gone"]
        /\ UNCHANGED <<searching, exit, jobFunc, job, cv, call>>
     \/ /\ searching[t]
        /\ ~exit[t]
        /\ own' = [own EXCEPT ![t] = "busy"]
        /\ job' = [job EXCEPT ![t] = jobFunc[t]]
        /\ jobFunc' = [jobFunc EXCEPT ![t] = NoJob]
        /\ UNCHANGED <<searching, exit, cv, call>>

\* The function returns and the loop starts over.
FinishJob(t) ==
  /\ own[t] = "busy"
  /\ own' = [own EXCEPT ![t] = "enter"]
  /\ job' = [job EXCEPT ![t] = NoJob]
  /\ UNCHANGED <<searching, exit, jobFunc, cv, call>>

\* A condition variable may wake a sleeper for no reason.
SpuriousWake(t) ==
  /\ \E q \in cv[t] : cv' = [cv EXCEPT ![t] = @ \ {q}]
  /\ UNCHANGED <<own, searching, exit, jobFunc, job, call>>

-----------------------------------------------------------------------------
(***************************************************************************)
(* The contract, and the class under every sequence of calls that keeps    *)
(* it: the object exists, it is not being destroyed, nobody else has a     *)
(* call in flight on it, and a thread does not call itself.                *)
(***************************************************************************)
NobodyElse(p, t) == \A q \in Client \ {p} : call[q].op = "none" \/ call[q].on # t

MayConstruct(p, t) == p # t /\ own[t] = "none" /\ NobodyElse(p, t)

MayCall(p, t) == p # t /\ own[t] # "none" /\ ~exit[t] /\ NobodyElse(p, t)

\* The destructor's assert(!searching).
MayDestroy(p, t) == MayCall(p, t) /\ ~searching[t]

ClientStep(p) == RunCustomJob(p) \/ Notify(p) \/ WaitForSearchFinished(p) \/ Join(p)

OwnerStep(t) == IdleEnter(t) \/ IdleWake(t)

Next ==
  \/ \E p \in Client, t \in Thread : MayConstruct(p, t) /\ Construct(p, t)
  \/ \E p \in Client, t \in Thread, j \in Job : MayCall(p, t) /\ CallRun(p, t, j)
  \/ \E p \in Client, t \in Thread : MayCall(p, t) /\ CallWait(p, t)
  \/ \E p \in Client, t \in Thread, j \in Job : MayDestroy(p, t) /\ Destroy(p, t, j)
  \/ \E p \in Client : ClientStep(p)
  \/ \E t \in Thread : OwnerStep(t) \/ FinishJob(t) \/ SpuriousWake(t)

Spec == Init /\ [][Next]_vars

Fairness ==
  /\ \A p \in Client : WF_vars(ClientStep(p))
  /\ \A t \in Thread : WF_vars(OwnerStep(t)) /\ WF_vars(FinishJob(t))

FairSpec == Spec /\ Fairness

-----------------------------------------------------------------------------
\* No wake-up is ever lost.  A thread asleep in idle_loop() with a job posted
\* has a notify_one() still to come, and no client sleeps on a thread that is
\* idle: notify_one() never goes to the wrong kind of waiter.
NoLostWakeup ==
  \A t \in Thread :
    /\ t \in cv[t] /\ searching[t] =>
         \E p \in Client : call[p].op = "notify" /\ call[p].on = t
    /\ ~searching[t] => cv[t] \subseteq {t}

\* A function posted to a thread is taken by that thread, as it was posted,
\* or dropped by the destructor's exit: no later run_custom_job() replaces it.
TakenOrDropped ==
  \A t \in Thread :
    jobFunc[t] # NoJob /\ jobFunc'[t] # jobFunc[t] =>
      /\ jobFunc'[t] = NoJob
      /\ job'[t] = jobFunc[t] \/ exit[t]

PostedJobIsTaken == [][TakenOrDropped]_vars

\* Every run_custom_job(), wait_for_search_finished() and join() returns.
CallsReturn == \A p \in Client : (call[p].op # "none") ~> (call[p].op = "none")
=============================================================================
