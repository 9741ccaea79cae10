------------------------------ MODULE MCLogReads ------------------------------
(***************************************************************************)
(* The small instances of MCSequencePaxos with the reads of the user.      *)
(***************************************************************************)
EXTENDS MCSequencePaxos, LogReads
==============================================================================
