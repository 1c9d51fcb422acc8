--------------------------- MODULE NumaReplication ---------------------------
(***************************************************************************)
(* The evaluation network and its copies on the NUMA nodes:                *)
(* LazyNumaReplicatedSystemWide of numa.h with its context, the handlers   *)
(* of engine.cpp that replace the network, the configuration or the pool,  *)
(* and the threads that read a copy through operator[], which makes it if  *)
(* it is not there yet.                                                    *)
(*                                                                         *)
(* The UCI thread carries out a command as a list `todo' of steps.  How it *)
(* waits for threads is the subject of SearchPool; here a wait is a guard. *)
(***************************************************************************)
EXTENDS NumaConfig

CONSTANTS
  Machines,         \* the machines to run on
  BundleSize,       \* processors that L3 domains are bundled up to: 32
  Policies,         \* the values given to the option NumaPolicy
  NodeLists,        \* NodeLists[p]: the processors that a policy p lists
  Nets,             \* the networks given to EvalFile
  MaxThreads,       \* a bound on the option Threads
  ExportInSearch    \* whether export_net may come while threads search

ASSUME ReplicationAssumption ==
  /\ \A m \in Machines : IsMachine(m)
  /\ BundleSize \in Nat /\ MaxThreads \in Nat \ {0}
  /\ "auto" \in Policies
  /\ DOMAIN NodeLists \subseteq Policies \ {"auto", "system", "hardware", "none"}
  /\ \A p \in DOMAIN NodeLists : NodeLists[p] \in Seq(Seq(Nat))
  /\ ExportInSearch \in BOOLEAN

Absent == "absent"   \* a copy that is still to be made

ASSUME NetsAssumption == Nets # {} /\ Absent \notin Nets

VARIABLES
  machine,    \* the machine the engine runs on
  cfg,        \* the configuration of the context
  policy,     \* the option NumaPolicy
  threads,    \* the option Threads
  net,        \* the network that EvalFile named last
  instances,  \* the copies of the network, node by node
  source,     \* the network that instances are made from anew
  mutex,      \* who holds the mutex of the instances, or Nobody
  bound,      \* the node each thread is bound to, <<>> if they are not bound
  histories,  \* histories[n]: how many threads share the histories of node n
  workers,    \* the workers of the pool
  access,     \* what each thread does in operator[]
  todo,       \* the steps that are left of the command
  terminated  \* std::terminate() was called

vars == <<machine, cfg, policy, threads, net, instances, source, mutex, bound, histories,
          workers, access, todo, terminated>>

Uci == 0                          \* the UCI thread; worker i is thread i
Accessor == 0 .. MaxThreads
Nobody == MaxThreads + 1

Idle == [at |-> "none", node |-> 1, net |-> Absent, live |-> TRUE]

Worker == [token : Nat \ {0}, index : Nat, total : Nat, table : Nets \cup {Absent},
           phase : {"parked", "clear", "search"}]

TypeOK ==
  /\ machine \in Machines
  /\ cfg.nodes \in Seq(SUBSET Nat) /\ cfg.nodes # <<>> /\ cfg.custom \in BOOLEAN
  /\ policy \in Policies
  /\ threads \in 1 .. MaxThreads
  /\ net \in Nets /\ source \in Nets
  /\ instances \in Seq(Nets \cup {Absent})
  /\ mutex \in Accessor \cup {Nobody}
  /\ bound \in Seq(Nat \ {0})
  /\ DOMAIN histories \subseteq Nat \ {0}
  /\ workers \in Seq(Worker) /\ Len(workers) <= MaxThreads
  /\ DOMAIN access = Accessor
  /\ \A a \in Accessor :
       /\ access[a].at \in {"none", "check", "lock", "recheck", "build", "assign", "deref", "use"}
       /\ access[a].net \in Nets \cup {Absent}
  /\ terminated \in BOOLEAN

Parked == \A i \in DOMAIN workers : workers[i].phase = "parked"
Searching == \E i \in DOMAIN workers : workers[i].phase = "search"

-----------------------------------------------------------------------------
(***************************************************************************)
(* The commands, as lists of steps.                                        *)
(***************************************************************************)
Step(op) == [op |-> op]

Each(op, n) == [i \in 1 .. n |-> [op |-> op, worker |-> i]]

\* modify_and_replicate() and on_numa_config_changed()
Replicate(s) == <<[op |-> "copy", net |-> s], Step("empty"), Step("first"), Step("resize")>>

\* ThreadPool::clear()
ClearPool == <<Step("clear"), Step("wait")>>

\* resize_threads()
ResizeThreads(n) ==
  <<Step("wait"), Step("destroy")>> \o Each("create", n) \o ClearPool \o Each("ensure", n)

SetOption(p, n) == <<Step("wait"), [op |-> "set", policy |-> p, threads |-> n]>>

Config(p) ==
  IF p \in DOMAIN NodeLists
  THEN [nodes |-> FromString(NodeLists[p]), custom |-> TRUE]
  ELSE IF p = "none" THEN [nodes |-> <<Cpus(machine)>>, custom |-> FALSE]
  ELSE IF p = "hardware"
  THEN [nodes |-> FromSystem(machine, Cpus(machine), BundleSize), custom |-> TRUE]
  ELSE [nodes |-> FromSystem(machine, machine.allowed, BundleSize), custom |-> FALSE]

\* set_numa_config_from_option() keeps the configuration if the value is no
\* list of processors; the option has taken the value all the same.
Accepted(p) == p \in DOMAIN NodeLists => IsNodeList(NodeLists[p])

\* Mutant of EvalFile: the tables of the workers stay as they are.
EvalFileOnly(s) == <<Step("wait")>> \o Replicate(s) \o Each("ensure", Len(workers))

\* load_network()
EvalFile(s) == <<Step("wait")>> \o Replicate(s) \o ClearPool \o Each("ensure", Len(workers))

NumaPolicy(p) ==
  SetOption(p, threads)
    \o IF Accepted(p)
       THEN <<Step("config")>> \o Replicate(Absent) \o ResizeThreads(threads)
                               \o Each("ensure", threads)
       ELSE <<>>

Threads(n) == SetOption(policy, n) \o ResizeThreads(n)

\* save_network() modifies nothing, and replaces the instances all the same.
ExportNet == Replicate(Absent)

Go == <<Step("wait"), Step("go")>>

Command ==
  /\ todo = <<>>
  /\ \/ \E s \in Nets : todo' = EvalFile(s)
     \/ \E p \in Policies : todo' = NumaPolicy(p)
     \/ \E n \in 1 .. MaxThreads : todo' = Threads(n)
     \/ (Searching => ExportInSearch) /\ todo' = ExportNet
     \/ todo' = Go
  /\ UNCHANGED <<machine, cfg, policy, threads, net, instances, source, mutex, bound, histories,
                 workers, access, terminated>>

-----------------------------------------------------------------------------
(***************************************************************************)
(* The steps of the UCI thread.                                            *)
(***************************************************************************)
Do(op) == todo # <<>> /\ Head(todo).op = op

Done == todo' = Tail(todo)

\* A thread begins to read the copy of its node.
Reads(n) == [Idle EXCEPT !.at = "check", !.node = n]

Wait ==
  /\ Do("wait") /\ Parked
  /\ Done
  /\ UNCHANGED <<machine, cfg, policy, threads, net, instances, source, mutex, bound, histories,
                 workers, access, terminated>>

Set ==
  /\ Do("set")
  /\ policy' = Head(todo).policy
  /\ threads' = Head(todo).threads
  /\ Done
  /\ UNCHANGED <<machine, cfg, net, instances, source, mutex, bound, histories, workers, access,
                 terminated>>

\* set_numa_config()
SetConfig ==
  /\ Do("config")
  /\ cfg' = Config(policy)
  /\ Done
  /\ UNCHANGED <<machine, policy, threads, net, instances, source, mutex, bound, histories, workers,
                 access, terminated>>

Copy ==
  LET s == Head(todo).net IN
  /\ Do("copy")
  /\ source' = IF s = Absent THEN instances[1] ELSE s
  /\ net' = IF s = Absent THEN net ELSE s
  /\ Done
  /\ UNCHANGED <<machine, cfg, policy, threads, instances, mutex, bound, histories, workers, access,
                 terminated>>

\* instances.clear(): whoever holds a reference into them is left with nothing.
Empty ==
  /\ Do("empty")
  /\ instances' = <<>>
  /\ access' = [a \in Accessor |->
       [access[a] EXCEPT !.live = access[a].at \notin {"build", "assign", "deref", "use"}]]
  /\ Done
  /\ UNCHANGED <<machine, cfg, policy, threads, net, source, mutex, bound, histories, workers, terminated>>

First ==
  /\ Do("first")
  /\ instances' = <<source>>
  /\ Done
  /\ UNCHANGED <<machine, cfg, policy, threads, net, source, mutex, bound, histories, workers, access,
                 terminated>>

\* The other copies are left to be made by those who need them.
Resize ==
  /\ Do("resize")
  /\ instances' = IF RequiresReplication(cfg)
                  THEN [n \in DOMAIN cfg.nodes |-> IF n = 1 THEN instances[1] ELSE Absent]
                  ELSE instances
  /\ Done
  /\ UNCHANGED <<machine, cfg, policy, threads, net, source, mutex, bound, histories, workers, access,
                 terminated>>

-----------------------------------------------------------------------------
(***************************************************************************)
(* ThreadPool::set()                                                       *)
(***************************************************************************)
Binds == policy # "none" /\ (policy = "auto" => SuggestsBinding(cfg, threads))

\* The workers of before are gone, and the nodes of the new ones are fixed.
Destroy ==
  /\ Do("destroy")
  /\ workers' = <<>>
  /\ bound' = IF Binds THEN Distribute(cfg.nodes, threads) ELSE <<>>
  /\ histories' = IF bound' = <<>> THEN [n \in {1} |-> threads]
                  ELSE [n \in Range(bound') |-> Occupation(bound', n)]
  /\ Done
  /\ UNCHANGED <<machine, cfg, policy, threads, net, instances, source, mutex, access, terminated>>

\* Threads that are not bound read the copy of the first node.
NodeOf(i) == IF bound = <<>> THEN 1 ELSE bound[i]

\* Mutant of NumaThreadIndex: the index in the whole pool.
PoolThreadIndex(i) == i - 1

\* The index of a thread among those of its node, counts[numaId]++
NumaThreadIndex(i) == Cardinality({j \in 1 .. i - 1 : NodeOf(j) = NodeOf(i)})

\* The worker fills its table from its copy of the network, while the UCI
\* thread waits for its constructor.
Create ==
  LET i == Head(todo).worker IN
  /\ Do("create") /\ Parked
  /\ workers' = Append(workers, [token |-> NodeOf(i), index |-> NumaThreadIndex(i),
                                 total |-> histories[NodeOf(i)], table |-> Absent,
                                 phase |-> "clear"])
  /\ access' = [access EXCEPT ![i] = Reads(NodeOf(i))]
  /\ Done
  /\ UNCHANGED <<machine, cfg, policy, threads, net, instances, source, mutex, bound, histories,
                 terminated>>

\* ThreadPool::clear() once the constructors are done, and start_thinking().
StartAll(phase) == [i \in DOMAIN workers |-> [workers[i] EXCEPT !.phase = phase]]

Clear ==
  /\ Do("clear") /\ Parked
  /\ workers' = StartAll("clear")
  /\ access' = [a \in Accessor |-> IF a \in DOMAIN workers THEN Reads(workers[a].token)
                                   ELSE access[a]]
  /\ Done
  /\ UNCHANGED <<machine, cfg, policy, threads, net, instances, source, mutex, bound, histories,
                 terminated>>

StartSearch ==
  /\ Do("go")
  /\ workers' = StartAll("search")
  /\ Done
  /\ UNCHANGED <<machine, cfg, policy, threads, net, instances, source, mutex, bound, histories, access,
                 terminated>>

\* ensure_network_replicated(), on the UCI thread for each of the workers.
Ensure ==
  /\ Do("ensure") /\ access[Uci].at = "none"
  /\ access' = [access EXCEPT ![Uci] = Reads(workers[Head(todo).worker].token)]
  /\ UNCHANGED <<machine, cfg, policy, threads, net, instances, source, mutex, bound, histories,
                 workers, todo, terminated>>

-----------------------------------------------------------------------------
(***************************************************************************)
(* operator[] and ensure_present().  The assertion that the index is in    *)
(* range is TokenInRange, a guard of the first step.                       *)
(***************************************************************************)
Present(a) == instances[access[a].node] # Absent

Goes(a, to) == access' = [access EXCEPT ![a].at = to]

\* The first look at the copy is without the lock.
Check(a) ==
  /\ access[a].at = "check" /\ access[a].node \in DOMAIN instances
  /\ Goes(a, IF Present(a) THEN "deref" ELSE "lock")
  /\ UNCHANGED <<machine, cfg, policy, threads, net, instances, source, mutex, bound, histories,
                 workers, todo, terminated>>

\* The assignment of a std::variant sets its index to variant_npos before it
\* builds the new value: std::visit() throws, in a function that is noexcept.
CheckDuringAssignment(a) ==
  /\ access[a].at = "check"
  /\ \E b \in Accessor : access[b].at = "assign" /\ access[b].node = access[a].node
  /\ terminated' = TRUE
  /\ UNCHANGED <<machine, cfg, policy, threads, net, instances, source, mutex, bound, histories,
                 workers, access, todo>>

Lock(a) ==
  /\ access[a].at = "lock" /\ mutex = Nobody
  /\ mutex' = a
  /\ Goes(a, "recheck")
  /\ UNCHANGED <<machine, cfg, policy, threads, net, instances, source, bound, histories, workers, todo,
                 terminated>>

\* Mutant of Recheck: without the second check.
RecheckNot(a) ==
  /\ access[a].at = "recheck"
  /\ Goes(a, "build")
  /\ UNCHANGED <<machine, cfg, policy, threads, net, instances, source, mutex, bound, histories,
                 workers, todo, terminated>>

Recheck(a) ==
  /\ access[a].at = "recheck"
  /\ Goes(a, IF Present(a) THEN "deref" ELSE "build")
  /\ mutex' = IF Present(a) THEN Nobody ELSE mutex
  /\ UNCHANGED <<machine, cfg, policy, threads, net, instances, source, bound, histories, workers, todo,
                 terminated>>

\* The copy is made from the first instance, and assigned when it is complete.
Build(a) ==
  /\ access[a].at = "build"
  /\ access' = [access EXCEPT ![a].at = "assign", ![a].net = instances[1]]
  /\ UNCHANGED <<machine, cfg, policy, threads, net, instances, source, mutex, bound, histories,
                 workers, todo, terminated>>

\* An assignment over another copy would take it from its readers.
Assign(a) ==
  /\ access[a].at = "assign"
  /\ instances' = [instances EXCEPT ![access[a].node] = access[a].net]
  /\ mutex' = Nobody
  /\ access' = [b \in Accessor |->
       IF b = a THEN [access[a] EXCEPT !.at = "deref"]
       ELSE [access[b] EXCEPT !.live = @ /\ ~(access[b].at = "use" /\ access[b].node = access[a].node)]]
  /\ UNCHANGED <<machine, cfg, policy, threads, net, source, bound, histories, workers, todo, terminated>>

Deref(a) ==
  /\ access[a].at = "deref" /\ access[a].node \in DOMAIN instances
  /\ access' = [access EXCEPT ![a].at = "use", ![a].net = instances[access[a].node]]
  /\ UNCHANGED <<machine, cfg, policy, threads, net, instances, source, mutex, bound, histories,
                 workers, todo, terminated>>

\* What the copy was needed for: a step of ensure_network_replicated(), the
\* table of a worker that is cleared, or an evaluation.
Use(a) ==
  /\ access[a].at = "use"
  /\ access' = [access EXCEPT ![a] = Idle]
  /\ IF a = Uci
     THEN Done /\ UNCHANGED workers
     ELSE /\ workers' = IF workers[a].phase = "clear"
                        THEN [workers EXCEPT ![a].table = access[a].net, ![a].phase = "parked"]
                        ELSE workers
          /\ UNCHANGED todo
  /\ UNCHANGED <<machine, cfg, policy, threads, net, instances, source, mutex, bound, histories,
                 terminated>>

\* Worker::evaluate()
Evaluate(i) ==
  /\ i \in DOMAIN workers /\ workers[i].phase = "search" /\ access[i].at = "none"
  /\ access' = [access EXCEPT ![i] = Reads(workers[i].token)]
  /\ UNCHANGED <<machine, cfg, policy, threads, net, instances, source, mutex, bound, histories,
                 workers, todo, terminated>>

FinishSearch(i) ==
  /\ i \in DOMAIN workers /\ workers[i].phase = "search" /\ access[i].at = "none"
  /\ workers' = [workers EXCEPT ![i].phase = "parked"]
  /\ UNCHANGED <<machine, cfg, policy, threads, net, instances, source, mutex, bound, histories,
                 access, todo, terminated>>

-----------------------------------------------------------------------------
\* The constructor of Engine: the context, the network, and a pool of one.
Init ==
  /\ machine \in Machines
  /\ cfg = Config("auto")
  /\ policy = "auto"
  /\ threads = 1
  /\ net \in Nets
  /\ instances = <<>> /\ source = net
  /\ mutex = Nobody
  /\ bound = <<>> /\ histories = <<>>
  /\ workers = <<>>
  /\ access = [a \in Accessor |-> Idle]
  /\ todo = <<Step("first"), Step("resize")>> \o ResizeThreads(1)
  /\ terminated = FALSE

UciStep ==
  \/ Wait \/ Set \/ SetConfig \/ Copy \/ Empty \/ First \/ Resize
  \/ Destroy \/ Create \/ Clear \/ StartSearch \/ Ensure

AccessStep(a) ==
  \/ Check(a) \/ CheckDuringAssignment(a) \/ Lock(a) \/ Recheck(a) \/ Build(a) \/ Assign(a)
  \/ Deref(a) \/ Use(a)

Exited == terminated /\ UNCHANGED vars

Next ==
  \/ /\ ~terminated
     /\ \/ Command \/ UciStep
        \/ \E a \in Accessor : AccessStep(a)
        \/ \E i \in 1 .. MaxThreads : Evaluate(i) \/ FinishSearch(i)
  \/ Exited

Spec == Init /\ [][Next]_vars

-----------------------------------------------------------------------------
\* Every configuration divides processors into nodes none of which is empty, as
\* the comment on NumaConfig guarantees.  Nodes that come from the system cover
\* the affinity, lie in one node of it each, keep the
\* processors of an L3 domain together, and outgrow a bundle only as one domain.
ConfigIsSound ==
  LET nodes == cfg.nodes
      domains == {machine.l3[c] \cap machine.allowed : c \in machine.allowed} \ {{}}
  IN /\ \A n \in DOMAIN nodes : nodes[n] # {}
     /\ \A m, n \in DOMAIN nodes : m # n => nodes[m] \cap nodes[n] = {}
     /\ ~cfg.custom /\ Len(nodes) > 1 =>
          /\ UNION Range(nodes) = machine.allowed
          /\ \A n \in DOMAIN nodes : Cardinality({machine.node[c] : c \in nodes[n]}) = 1
          /\ \A d \in domains : \E n \in DOMAIN nodes : d \subseteq nodes[n]
          /\ domains # {} => \A n \in DOMAIN nodes :
               Cardinality(nodes[n]) <= BundleSize \/ nodes[n] \in domains

\* Threads are spread over the nodes in proportion to their processors: no
\* thread would have been better off on another node.
Balanced ==
  bound # <<>> /\ todo = <<>> =>
    \A m, n \in DOMAIN cfg.nodes :
      Occupation(bound, m) > 0 =>
        Occupation(bound, m) * Cardinality(cfg.nodes[n])
          <= (Occupation(bound, n) + 1) * Cardinality(cfg.nodes[m])

\* The workers of a node have the indices from 0 on, so that the ranges of the
\* shared histories that they clear cover them, each element once.
HistoriesCleared ==
  \A i \in DOMAIN workers :
    LET node == workers[i].token
        sharing == {j \in DOMAIN workers : workers[j].token = node}
    IN /\ node \in DOMAIN histories /\ workers[i].total = histories[node]
       /\ {workers[j].index : j \in sharing} = 0 .. Cardinality(sharing) - 1
       /\ Parked /\ todo = <<>> => Cardinality(sharing) = histories[node]

\* assert(token.get_numa_index() < instances.size()), in operator[].  With
\* ExportInSearch it fails (README, section 4).
TokenInRange == \A a \in Accessor : access[a].at = "check" => access[a].node \in DOMAIN instances

\* Nobody uses a copy of the network that is gone, or looks for one behind the
\* end of the vector, which may have become shorter.
ReferencesLive == TypeOK /\ TokenInRange /\ \A a \in Accessor : access[a].live

\* "They all must be identical": every copy is of the network EvalFile named,
\* and so is the table of each worker that searches.
CopiesAgree ==
  /\ \A n \in DOMAIN instances : todo = <<>> => instances[n] \in {net, Absent}
  /\ \A i \in DOMAIN workers : workers[i].phase = "search" => workers[i].table = net
  /\ \A a \in Accessor \ {Uci} : access[a].at = "use" => access[a].net = net

\* "Check again for races": a look at a copy without the lock does no harm.  It
\* ends the program if the copy is just being assigned (README, section 4).
SurvivesRaces == ~terminated
=============================================================================
