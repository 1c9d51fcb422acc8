---------------------------- MODULE MCSharedMemory ----------------------------
(* Two engines, each with two objects of the same name. *)
EXTENDS SharedMemory

CONSTANTS e1, e2

MCProcesses == {e1, e2}
MCPlatforms == {"unix", "windows"}
=============================================================================
