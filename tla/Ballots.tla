------------------------------- MODULE Ballots -------------------------------
(***************************************************************************)
(* Ballots, the rounds of Sequence Paxos, and their total order            *)
(* (ballot_leader_election.rs).  The configuration id is left out: it is   *)
(* constant in an instance and Ord ignores it.                             *)
(***************************************************************************)
EXTENDS Naturals

Ballot == [n : Nat, priority : Nat, pid : Nat]

\* Ballot::default(), the promise of a server that never heard of a leader.
DefaultBallot == [n |-> 0, priority |-> 0, pid |-> 0]

\* Ord for Ballot: lexicographic on (n, priority, pid).
a \prec b ==
  \/ a.n < b.n
  \/ a.n = b.n /\ a.priority < b.priority
  \/ a.n = b.n /\ a.priority = b.priority /\ a.pid < b.pid

a \preceq b == a = b \/ a \prec b
==============================================================================
