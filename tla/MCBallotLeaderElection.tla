----------------------- MODULE MCBallotLeaderElection -----------------------
(***************************************************************************)
(* Small instances of BallotLeaderElection for TLC.                        *)
(***************************************************************************)
EXTENDS BallotLeaderElection

SamePriority == [p \in Server |-> 0]

FullMesh == Server \X Server
\* Server 1 is the only one the others reach.
Star1 == {e \in Server \X Server : 1 \in {e[1], e[2]}}

NoFaults == [k \in Bounded |-> [p \in Server |-> 0]]
\* A leaf crashes, the other gets a priority or a Prepare that overtakes the
\* heartbeats, or the hub takes over by hand.
CrashOrUser ==
  [NoFaults EXCEPT !["restart"][3] = 1, !["set_priority"][2] = 1,
                   !["prepare"][2] = 1, !["try_become_leader"][1] = 1]
==============================================================================
