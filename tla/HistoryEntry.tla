------------------------------ MODULE HistoryEntry ------------------------------
(***************************************************************************)
(* One entry of a history that the threads of a NUMA node share (StatsEntry *)
(* with Shared, history.h).  Reading and writing it are atomic, but the    *)
(* update is not: between its two accesses other threads may update the    *)
(* entry, and all of those updates are lost.                               *)
(***************************************************************************)
EXTENDS SearchValues

CONSTANTS
  Thread,   \* the threads of the node
  D,        \* the bound of the entry
  Filling   \* what clear() fills the table with

VARIABLES
  entry,    \* the value all of them see
  val,      \* what each thread has read of it
  bonus,    \* what each thread is adding
  updating  \* the threads that have read the entry and not yet written it

entryVars == <<entry, val, bonus, updating>>

\* The constants as the instantiations of history.h choose them.
EntryBounded == D \in Nat \ {0} /\ Filling \in -D .. D

EntryInit ==
  /\ entry = Filling
  /\ val = [t \in Thread |-> Filling]
  /\ bonus = [t \in Thread |-> 0]
  /\ updating = {}

\* entry << b, up to the reading of the entry.
Read(t, b) ==
  /\ t \notin updating
  /\ val' = [val EXCEPT ![t] = entry]
  /\ bonus' = [bonus EXCEPT ![t] = b]
  /\ updating' = updating \cup {t}
  /\ UNCHANGED entry

\* The rest of it: the new value replaces whatever is there by now.
Store(t) ==
  /\ t \in updating
  /\ entry' = Updated(val[t], bonus[t], D)
  /\ updating' = updating \ {t}
  /\ UNCHANGED <<val, bonus>>

\* Worker::clear(), between two searches.
Clear ==
  /\ updating = {}
  /\ entry' = Filling
  /\ UNCHANGED <<val, bonus, updating>>

EntryNext == (\E t \in Thread : Store(t) \/ \E b \in Int : Read(t, b)) \/ Clear

EntrySpec == EntryInit /\ [][EntryNext]_entryVars

-----------------------------------------------------------------------------

\* The entry never leaves its bounds, however the updates of the threads interleave:
\* every reader of history.h relies on it, and the assertion of operator<<() says it.
StaysInBounds == entry \in -D .. D
================================================================================
