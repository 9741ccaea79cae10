----------------------------- MODULE LeaderState -----------------------------
(***************************************************************************)
(* The bookkeeping a leader does for its round, as operators on a record   *)
(* (util.rs LeaderState, PromiseMetaData, SequenceNumber).  The vectors of *)
(* the code have one slot for each number up to the largest pid, used or   *)
(* not.                                                                    *)
(***************************************************************************)
EXTENDS InternalStorage, Quorums

Slots == 1 .. MaxPid

SequenceNumber == [session : Nat, counter : Nat]

DefaultSequenceNumber == [session |-> 0, counter |-> 0]

PromiseMetaData == [n_accepted : Ballot, accepted_idx : Nat, decided_idx : Nat]

DefaultPromiseMetaData ==
  [n_accepted |-> DefaultBallot, accepted_idx |-> 0, decided_idx |-> 0]

\* PromiseState: the metadata has a meaning in state "Promised" only.
PromiseState == [state : {"NotPromised", "Promised", "PromisedHigher"},
                 meta : PromiseMetaData]

NotPromised == [state |-> "NotPromised", meta |-> DefaultPromiseMetaData]

\* latest_accept_meta[q] is the position of the AcceptDecide that still waits
\* in the outgoing messages for q, 0 if there is none.
LeaderStates ==
  [n_leader : Ballot, promises_meta : [Slots -> PromiseState],
   follower_seq_nums : [Slots -> SequenceNumber],
   accepted_indexes : [Slots -> Nat],
   max_promise_meta : PromiseMetaData, max_promise_sync : LogSync \cup {None},
   latest_accept_meta : [Slots -> Nat]]

LeaderState_with(n) ==
  [n_leader |-> n, promises_meta |-> [r \in Slots |-> NotPromised],
   follower_seq_nums |-> [r \in Slots |-> DefaultSequenceNumber],
   accepted_indexes |-> [r \in Slots |-> 0],
   max_promise_meta |-> DefaultPromiseMetaData, max_promise_sync |-> None,
   latest_accept_meta |-> [r \in Slots |-> 0]]

------------------------------------------------------------------------------
(* Promises *)

\* Variant: the longest log wins, whatever its round.
longest_log(a, b) == a.accepted_idx > b.accepted_idx

\* PartialOrd for PromiseMetaData: the larger round, then the longer log.
greater_meta(a, b) ==
  \/ b.n_accepted \prec a.n_accepted
  \/ a.n_accepted = b.n_accepted /\ a.accepted_idx > b.accepted_idx

is_promised(l, q) == l.promises_meta[q].state = "Promised"

\* Records the promise of q; with check_max_prom, also the most advanced log
\* among the promises and what its owner sent of it.
set_promise(l, q, meta, log_sync, check_max_prom) ==
  LET l1 == [l EXCEPT !.promises_meta[q] = [state |-> "Promised", meta |-> meta]]
  IN  IF check_max_prom /\ greater_meta(meta, l.max_promise_meta)
        THEN [l1 EXCEPT !.max_promise_meta = meta, !.max_promise_sync = log_sync]
        ELSE l1

has_prepare_quorum(l) == is_prepare_quorum(Cardinality({r \in Slots : is_promised(l, r)}))

reset_promise(l, q) == [l EXCEPT !.promises_meta[q] = NotPromised]

lost_promise(l, q) == [l EXCEPT !.promises_meta[q] = [NotPromised EXCEPT !.state = "PromisedHigher"]]

promised_decided_idxs(l) ==
  {l.promises_meta[r].meta.decided_idx : r \in {r1 \in Slots : is_promised(l, r1)}}

\* Variant: the least of them.
get_min_decided_idx(l) ==
  LET idxs == promised_decided_idxs(l)
  IN  IF idxs = {} THEN 0 ELSE CHOOSE i \in idxs : \A j \in idxs : i <= j

get_max_decided_idx(l) ==
  LET idxs == promised_decided_idxs(l)
  IN  IF idxs = {} THEN 0 ELSE CHOOSE i \in idxs : \A j \in idxs : j <= i

\* Variant: also those that did not promise yet.
all_followers(l) == {r \in Slots \ {l.n_leader.pid} : l.promises_meta[r].state # "PromisedHigher"}

get_promised_followers(l) == {r \in Slots \ {l.n_leader.pid} : is_promised(l, r)}

\* The peers the leader still has to prepare.
get_preparable_peers(l, p) ==
  {q \in Server \ {p} : l.promises_meta[q].state = "NotPromised"}

------------------------------------------------------------------------------
(* Sequence numbers: AcceptSync opens a session with counter 1. *)

increment_seq_num_session(sn) == [session |-> sn.session + 1, counter |-> 0]

next_seq_num(sn) == [sn EXCEPT !.counter = @ + 1]

\* PartialOrd derived for SequenceNumber: lexicographic.
seq_num_leq(a, b) ==
  \/ a.session < b.session
  \/ a.session = b.session /\ a.counter <= b.counter

\* Variant: gaps go unnoticed.
without_gaps(current, sn) == IF seq_num_leq(sn, current) THEN "Outdated" ELSE "Expected"

check_msg_status(current, sn) ==
  CASE sn = next_seq_num(current) -> "Expected"
    [] seq_num_leq(sn, current) -> "Outdated"
    [] OTHER -> "DroppedPreceding"

------------------------------------------------------------------------------
(* Accepted indexes *)

set_accepted_idx(l, q, idx) == [l EXCEPT !.accepted_indexes[q] = idx]

is_chosen(l, idx) == is_accept_quorum(Cardinality({r \in Slots : l.accepted_indexes[r] >= idx}))

\* Variant: a quorum is enough to trim.
within_quorum_accepted_idx(l, idx) == is_chosen(l, idx)

\* idx <= get_min_all_accepted_idx(): the minimum is over all slots, the
\* unused ones included.
within_min_all_accepted_idx(l, idx) == \A r \in Slots : idx <= l.accepted_indexes[r]

reset_latest_accept_meta(l) == [l EXCEPT !.latest_accept_meta = [r \in Slots |-> 0]]
==============================================================================
