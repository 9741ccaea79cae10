--------------------------- MODULE MCSequencePaxos ---------------------------
(***************************************************************************)
(* Small instances of SequencePaxos for TLC.                               *)
(***************************************************************************)
EXTENDS SequencePaxos

CONSTANTS v1, v2, v3, ss

B(n, pid) == [n |-> n, priority |-> 0, pid |-> pid]

(* Elections *)
OneBallot == {B(1, 1)}
TwoBallots == {B(1, 1), B(2, 2)}
ThreeBallots == {B(1, 1), B(2, 2), B(3, 3)}
\* Servers 1 and 2 take turns.
FourBallots == {B(1, 1), B(2, 2), B(3, 1), B(4, 2)}

(* Users *)
OneAt1 == {<< 1, v1 >>}
TwoAt1 == {<< 1, v1 >>, << 1, v2 >>}
ThreeAt1 == {<< 1, v1 >>, << 1, v2 >>, << 1, v3 >>}
OneEach == {<< 1, v1 >>, << 2, v2 >>}
TwoThenStop == TwoAt1 \cup {<< 2, ss >>}

(* Networks *)
FullMesh == Server \X Server
\* Servers 1 and 2, which get elected, do not hear each other but all others do.
Rivals == FullMesh \ {<< 1, 2 >>, << 2, 1 >>}

(* Faults, timeouts and compactions *)
NoFaults == [k \in Bounded |-> [p \in Server |-> 0]]
Once(kind, p) == [NoFaults EXCEPT ![kind][p] = 1]

FlushesAndTrim == [Once("flush", 1) EXCEPT !["flush"][2] = 1, !["trim"][1] = 1]
SnapshotAt1 == Once("snapshot", 1)
LossAndResendAt3 == [Once("drop", 3) EXCEPT !["resend"][3] = 1]
\* The leader of the first round and the acceptor that both rounds share may crash.
LossRetriesAndCrashes ==
  [LossAndResendAt3 EXCEPT !["resend"][1] = 1, !["reconnect"][1] = 1,
                           !["restart"][1] = 1, !["restart"][3] = 1]
==============================================================================
