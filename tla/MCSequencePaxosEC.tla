-------------------------- MODULE MCSequencePaxosEC --------------------------
(***************************************************************************)
(* Small instances of SequencePaxosEC for TLC.                             *)
(***************************************************************************)
EXTENDS SequencePaxosEC, MCSequencePaxos

\* Users propose data, which is no piece yet.
WholeAt1 == {<< 1, raw(v1) >>}
WholeEach == {<< 1, raw(v1) >>, << 2, raw(v2) >>}
WholeEachThenStop == WholeEach \cup {<< 2, ss >>}

\* Every kind of step once.
EachOnce == [k \in Bounded |-> [p \in Server |-> 1]]
==============================================================================
