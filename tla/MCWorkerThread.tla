--------------------------- MODULE MCWorkerThread ---------------------------
(***************************************************************************)
(* WorkerThread with one thread called by two clients in any order the     *)
(* contract allows, and a second thread that is itself one of the clients  *)
(* (the main search thread calls the helpers' methods).                    *)
(***************************************************************************)
EXTENDS WorkerThread

CONSTANTS main, helper, ui

MCThread == {main, helper}
MCClient == {ui, main}
=============================================================================
