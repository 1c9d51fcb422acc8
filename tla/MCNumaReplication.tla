------------------------- MODULE MCNumaReplication -------------------------
(***************************************************************************)
(* NumaReplication on two small machines: one with two nodes and no L3     *)
(* caches, the process being kept off a third; and one whose second node   *)
(* has two L3 domains that bundle and one that does not.                   *)
(***************************************************************************)
EXTENDS NumaReplication

Plain == [node |-> (0 :> 0) @@ (1 :> 2) @@ (2 :> 2) @@ (3 :> 1),
          l3 |-> [c \in 0 .. 3 |-> {}], allowed |-> {0, 1, 2}]

Caches == [node |-> [c \in 0 .. 4 |-> IF c = 0 THEN 0 ELSE 1],
           l3 |-> [c \in 0 .. 4 |-> IF c <= 2 THEN {c} ELSE {3, 4}], allowed |-> 0 .. 4]

MCMachines == {Plain, Caches}

MCPolicies == {"auto", "hardware", "none", "split", "twice"}

MCNodeLists == [split |-> << <<2>>, <<>>, <<0, 1>> >>, twice |-> << <<0, 1>>, <<1>> >>]

=============================================================================
