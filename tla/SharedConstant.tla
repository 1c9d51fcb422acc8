---------------------------- MODULE SharedConstant ----------------------------
(***************************************************************************)
(* What SystemWideSharedConstant promises to the engine: an object that    *)
(* was constructed gives access to the whole value until it is dropped or  *)
(* its engine leaves, whoever else constructs, drops, leaves or dies.      *)
(***************************************************************************)
CONSTANT Objects

VARIABLES
  seen,     \* seen[o]: "none", "whole" if o gives access to the value, or a "null" pointer
  leaving   \* the objects of the engines that are in exit()

constantVars == <<seen, leaving>>

Init ==
  /\ seen = [o \in Objects |-> "none"]
  /\ leaving = {}

Get(o) ==
  /\ o \notin leaving /\ seen[o] = "none"
  /\ seen' = [seen EXCEPT ![o] = "whole"]
  /\ UNCHANGED leaving

\* A process that ends drops all its objects at once.
Drop(S) ==
  /\ seen' = [o \in Objects |-> IF o \in S THEN "none" ELSE seen[o]]
  /\ leaving' = leaving \ S

\* A process that leaves, with the objects S, may lose the access of some, L.
Leave(S, L) ==
  /\ S \cap leaving = {}
  /\ seen' = [o \in Objects |-> IF o \in L /\ seen[o] = "whole" THEN "null" ELSE seen[o]]
  /\ leaving' = leaving \cup S

Next ==
  \/ \E o \in Objects : Get(o)
  \/ \E S \in SUBSET Objects : Drop(S)
  \/ \E S \in SUBSET Objects : \E L \in SUBSET S : Leave(S, L)

Spec == Init /\ [][Next]_constantVars
=============================================================================
