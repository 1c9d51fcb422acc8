---------------------------- MODULE UciProtocol ----------------------------
(***************************************************************************)
(* What the engine promises to the GUI about a search, as the comments of  *)
(* search.cpp, thread.cpp and engine.h put it: one search at a time, one   *)
(* bestmove for each go, no bestmove while the GUI is pondering or asked   *)
(* for an infinite search and has neither stopped it nor played the move,  *)
(* and a bestmove once nothing holds it back any more.                     *)
(***************************************************************************)
VARIABLES
  thinking,  \* a go was accepted and its bestmove was not printed
  held,      \* ... and the GUI has to send stop or ponderhit first
  forced,    \* ... but there is nothing to think about
  bounded    \* ... and the search will come to an end by itself

vars == <<thinking, held, forced, bounded>>

TypeOK == /\ thinking \in BOOLEAN
          /\ held \in BOOLEAN
          /\ forced \in BOOLEAN
          /\ bounded \in BOOLEAN

Idle == ~thinking /\ ~held /\ ~forced /\ ~bounded

Init == Idle

Go ==
  /\ ~thinking
  /\ thinking'
  /\ held' \in BOOLEAN
  /\ forced' \in BOOLEAN
  /\ bounded' \in BOOLEAN

Stop ==
  /\ thinking
  /\ ~held'
  /\ bounded'
  /\ UNCHANGED <<thinking, forced>>

Ponderhit ==
  /\ thinking
  /\ held /\ ~held'
  /\ UNCHANGED <<thinking, forced, bounded>>

Bestmove ==
  /\ thinking
  /\ held => forced
  /\ Idle'

Next == Go \/ Stop \/ Ponderhit \/ Bestmove

Spec == Init /\ [][Next]_vars

\* A search that nothing holds back, and that has a limit, is answered.
Answers == (thinking /\ ~held /\ bounded) ~> ~thinking
=============================================================================
