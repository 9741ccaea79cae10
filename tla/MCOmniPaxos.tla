----------------------------- MODULE MCOmniPaxos -----------------------------
(***************************************************************************)
(* A small instance of OmniPaxos for TLC.                                  *)
(***************************************************************************)
EXTENDS OmniPaxos, MCSequencePaxos

SamePriority == [p \in Server |-> 0]

Crashes == [NoFaults EXCEPT !["restart"] = [p \in Server |-> 1]]
CrashesOrTakeover ==
  [k \in {"restart", "set_priority", "try_become_leader", "prepare"} |->
     [p \in Server |-> IF k = "restart" \/ << k, p >> = << "try_become_leader", 1 >> THEN 1 ELSE 0]]
==============================================================================
