------------------------------- MODULE Quorums -------------------------------
(***************************************************************************)
(* The cluster and its quorum sizes (util.rs Quorum, FlexibleQuorum and    *)
(* omni_paxos.rs ClusterConfig::validate).                                 *)
(***************************************************************************)
EXTENDS Naturals, FiniteSets

CONSTANTS Server,         \* the pids of the configuration
          MaxPid,         \* the largest of them
          ReadQuorum,     \* promises needed to leave the Prepare phase
          WriteQuorum     \* accepted replies needed to decide

\* ServerConfig::validate: a pid is not 0.
ASSUME ServerAssumption ==
  /\ IsFiniteSet(Server)
  /\ Server \subseteq Nat \ {0}
  /\ MaxPid \in Server
  /\ \A p \in Server : p <= MaxPid

\* ClusterConfig::validate for flexible quorums; Majority(n / 2 + 1) meets it.
ASSUME QuorumAssumption ==
  /\ Cardinality(Server) > 1
  /\ ReadQuorum \in 2 .. Cardinality(Server)
  /\ WriteQuorum \in 2 .. Cardinality(Server)
  /\ ReadQuorum + WriteQuorum > Cardinality(Server)
  /\ ReadQuorum >= WriteQuorum

\* Variant: the quorums are mixed up.
is_write_sized(num_nodes) == num_nodes >= WriteQuorum

is_prepare_quorum(num_nodes) == num_nodes >= ReadQuorum

is_accept_quorum(num_nodes) == num_nodes >= WriteQuorum
==============================================================================
