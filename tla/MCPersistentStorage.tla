------------------------ MODULE MCPersistentStorage ------------------------
(***************************************************************************)
(* A small instance of PersistentStorage for TLC.                          *)
(***************************************************************************)
EXTENDS PersistentStorage

CONSTANTS v1, v2, ss

OneBallot == {[n |-> 1, priority |-> 0, pid |-> 1]}
==============================================================================
