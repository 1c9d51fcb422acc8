----------------------------- MODULE NumaConfig -----------------------------
(***************************************************************************)
(* class NumaConfig of numa.h: how the processors of a machine are divided *)
(* into the nodes that the engine replicates the network for, when threads *)
(* are bound to nodes, and how many go to each.                            *)
(*                                                                         *)
(* A machine is what Linux tells about it: `node' gives the NUMA node of   *)
(* each processor, `l3' the processors that share its L3 cache ({} if the  *)
(* system does not say), `allowed' the affinity of the process.  A cache   *)
(* lies in one node, and the system tells about all of them or about none. *)
(* Nodes of a configuration are numbered from 1, those of a machine from 0.*)
(***************************************************************************)
EXTENDS Integers, FiniteSets, SequencesExt

Cpus(machine) == DOMAIN machine.node

IsMachine(machine) ==
  /\ Cpus(machine) \subseteq Nat /\ Cpus(machine) # {} /\ IsFiniteSet(Cpus(machine))
  /\ machine.node \in [Cpus(machine) -> Nat]
  /\ machine.l3 \in [Cpus(machine) -> SUBSET Cpus(machine)]
  /\ \/ \A c \in Cpus(machine) : machine.l3[c] = {}
     \/ \A c \in Cpus(machine) :
          /\ c \in machine.l3[c]
          /\ \A d \in machine.l3[c] : machine.l3[d] = machine.l3[c] /\ machine.node[d] = machine.node[c]
  /\ machine.allowed \subseteq Cpus(machine) /\ machine.allowed # {}

\* A finite set of numbers, from the smallest on.
InOrder(T) ==
  CHOOSE s \in [1 .. Cardinality(T) -> T] : \A i, j \in DOMAIN s : i < j => s[i] < s[j]

\* Mutant of RemoveEmptyNodes: a configuration with holes.
KeepNodes(nodes) == nodes

RemoveEmptyNodes(nodes) ==
  LET kept == InOrder({n \in DOMAIN nodes : nodes[n] # {}})
  IN [i \in DOMAIN kept |-> nodes[kept[i]]]

\* from_system_numa(): the nodes as the system numbers them.
SystemNodes(machine, cpus) ==
  [n \in 1 .. Max({machine.node[c] : c \in cpus}) + 1 |-> {c \in cpus : machine.node[c] = n - 1}]

\* try_get_l3_aware_config(): the L3 domains of a system node, in the order of
\* the processors that nobody had seen before.
L3Domains(machine, cpus, node) ==
  LET firsts == InOrder({c \in cpus : /\ machine.node[c] = node
                                      /\ \A d \in machine.l3[c] \cap cpus : c <= d})
  IN [i \in DOMAIN firsts |-> machine.l3[firsts[i]] \cap cpus]

\* from_l3_info(): one scan over the domains, which merges each with the next
\* one if both fit into a bundle, and goes on behind them.
Scan(domains, bundleSize) ==
  LET Take(scan, cpus) ==
        IF scan.open /\ Cardinality(Last(scan.out)) + Cardinality(cpus) <= bundleSize
        THEN [out |-> Append(Front(scan.out), Last(scan.out) \cup cpus), open |-> FALSE]
        ELSE [out |-> Append(scan.out, cpus), open |-> TRUE]
      scanned[j \in 0 .. Len(domains)] ==
        IF j = 0 THEN [out |-> <<>>, open |-> FALSE] ELSE Take(scanned[j - 1], domains[j])
  IN scanned[Len(domains)].out

\* As many scans as can change anything.
Bundles(domains, bundleSize) ==
  LET ds[k \in 0 .. Len(domains)] == IF k = 0 THEN domains ELSE Scan(ds[k - 1], bundleSize)
  IN ds[Len(domains)]

FromL3(machine, cpus, bundleSize) ==
  FlattenSeq([n \in 1 .. Max({machine.node[c] : c \in cpus}) + 1 |->
                Bundles(L3Domains(machine, cpus, n - 1), bundleSize)])

\* from_system(): by L3 caches where the system knows them.
FromSystem(machine, cpus, bundleSize) ==
  RemoveEmptyNodes(IF \A c \in cpus : machine.l3[c] = {}
                   THEN SystemNodes(machine, cpus)
                   ELSE FromL3(machine, cpus, bundleSize))

\* from_string(): a list of processors for each node; the empty ones are
\* skipped, and no processor may come twice.
IsNodeList(lists) ==
  /\ \E n \in DOMAIN lists : lists[n] # <<>>
  /\ \A m, n \in DOMAIN lists : \A i \in DOMAIN lists[m], j \in DOMAIN lists[n] :
       lists[m][i] = lists[n][j] => m = n /\ i = j

FromString(lists) == RemoveEmptyNodes([n \in DOMAIN lists |-> Range(lists[n])])

RequiresReplication(cfg) == cfg.custom \/ Len(cfg.nodes) > 1

\* suggests_binding_threads(): a node of at most 0.6 of the largest is small.
SuggestsBinding(cfg, threads) ==
  LET size(n) == Cardinality(cfg.nodes[n])
      largest == Max({size(n) : n \in DOMAIN cfg.nodes})
      notSmall == {n \in DOMAIN cfg.nodes : 10 * size(n) > 6 * largest}
  IN \/ cfg.custom
     \/ /\ threads > 1
        /\ Len(cfg.nodes) > 1
        /\ threads > largest \div 2 \/ threads >= 4 * Cardinality(notSmall)

\* distribute_threads_among_numa_nodes(): each thread goes to the first of the
\* nodes that are least filled with it.
Occupation(bound, n) == Cardinality({i \in DOMAIN bound : bound[i] = n})

\* Mutant of FillsLess: the thread itself is not counted.
FillsLessAsItIs(nodes, bound, m, n) ==
  Occupation(bound, m) * Cardinality(nodes[n]) < Occupation(bound, n) * Cardinality(nodes[m])

FillsLess(nodes, bound, m, n) ==
  (Occupation(bound, m) + 1) * Cardinality(nodes[n])
     < (Occupation(bound, n) + 1) * Cardinality(nodes[m])

Distribute(nodes, threads) ==
  LET Best(bound) ==
        Min({n \in DOMAIN nodes : \A m \in DOMAIN nodes : ~FillsLess(nodes, bound, m, n)})
  IN CHOOSE bound \in [1 .. threads -> DOMAIN nodes] :
       \A i \in 1 .. threads : bound[i] = Best(SubSeq(bound, 1, i - 1))
=============================================================================
