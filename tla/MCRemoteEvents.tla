--------------------------- MODULE MCRemoteEvents ----------------------------
(* Finite instances of RemoteEvents: a cluster of two processes.           *)
EXTENDS RemoteEvents

CONSTANTS d1, d2

MCProcesses == <<d1, d2>>
=============================================================================
