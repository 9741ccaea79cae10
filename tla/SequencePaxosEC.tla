--------------------------- MODULE SequencePaxosEC ---------------------------
(***************************************************************************)
(* Sequence Paxos over fragments (sequence_paxos_ec/, erasure/): the       *)
(* leader erasure-codes the value of an entry and every server stores one  *)
(* fragment of it.  mod.rs and follower.rs repeat those of sequence_paxos, *)
(* so their handlers are the actions of SequencePaxos; what the leader     *)
(* does with entries differs.                                              *)
(*                                                                         *)
(* An entry of the log (Value) is a piece of the data a user proposed: of  *)
(* says of which and path has the indices of the encodings it went         *)
(* through, none for the data itself.  Encoding a fragment again appends   *)
(* to the path.                                                            *)
(***************************************************************************)
EXTENDS SequencePaxos

CONSTANTS Data,           \* what users propose
          DataShards,     \* how many fragments rebuild a value
          ParityShards

\* EntryFragment: what Value is here.  (A batch that the stop sign flushes is
\* announced by pieces of the stop sign.)
Piece == [of : Data \cup StopSign, path : Seq(Nat)]

\* fragments[idx] exists for the index of every server.  (validate does not
\* check it: the default of 1 + 1 shards panics with three servers.)
ASSUME ErasureAssumption ==
  /\ DataShards \in Nat \ {0}
  /\ ParityShards \in Nat \ {0}
  /\ Cardinality(Server) <= DataShards + ParityShards

------------------------------------------------------------------------------
(* Erasure coding (erasure/ec_service.rs) *)

raw(v) == [of |-> v, path |-> << >>]

fragment_index_for_node(p) == p % Cardinality(Server)

\* The fragment idx of what e holds.
encode(e, idx) == [e EXCEPT !.path = Append(@, idx)]

\* Of each entry the fragment that server p keeps.
fragments_for(entries, p) ==
  [i \in DOMAIN entries |-> encode(entries[i], fragment_index_for_node(p))]

\* The value v can be had from a set of entries: one holds it, or enough of them
\* hold different fragments of it.
decode(entries, v) ==
  \/ raw(v) \in entries
  \/ Cardinality({e \in entries : e.of = v /\ Len(e.path) = 1}) >= DataShards

------------------------------------------------------------------------------
(* Accepting entries at the leader (leader.rs) *)

numbered(l, Q) ==
  [l EXCEPT !.follower_seq_nums = [r \in Slots |-> IF r \in Q THEN next_seq_num(@[r]) ELSE @[r]]]

\* send_acceptdecide and send_acceptdecide_batch: every peer, also one that has
\* not promised, gets its fragments in a message of its own.
send_acceptdecide(p, l, out, decided_idx, entries) ==
  IF entries = << >>
    THEN out
    ELSE push(out, [q \in Peers(p) |->
                AcceptDecide(l.n_leader, next_seq_num(l.follower_seq_nums[q]), decided_idx,
                             fragments_for(entries, q))])

acceptdecide_leader_state(p, l, entries) ==
  IF entries = << >> THEN l ELSE numbered(l, Peers(p))

\* The leader stored s and sends entries, encoded, to the others.
ec_accepts(p, s, entries, chan) ==
  LET l == set_accepted_idx(leader_state[p], p, s.accepted_idx)
  IN  /\ storage' = [storage EXCEPT ![p] = s]
      /\ leader_state' = [leader_state EXCEPT ![p] = acceptdecide_leader_state(p, l, entries)]
      /\ EndCall(p, send_acceptdecide(p, l, outgoing[p], s.decided_idx, entries), chan)

\* accept_entry_leader and accept_entries_leader: the leader keeps its own
\* fragments and sends those of the entries of this call.
ec_accept_entries_leader(p, entries, chan) ==
  LET own == fragments_for(entries, p)
      s == append_entries_with_batching(storage[p], own)
  IN  IF fills_batch(storage[p], own)
        THEN ec_accepts(p, s, entries, chan)
        ELSE /\ storage' = [storage EXCEPT ![p] = s]
             /\ EndCall(p, outgoing[p], chan)
             /\ UNCHANGED leader_state

\* A flushed batch is announced by fragments of the stop sign.
ec_accept_stopsign_leader(p, ss, chan) ==
  LET s == append_stopsign(storage[p], ss)
      announced == IF storage[p].batched_entries = << >> THEN << >> ELSE << raw(ss) >>
      l1 == acceptdecide_leader_state(p, leader_state[p], announced)
      out1 == send_acceptdecide(p, leader_state[p], outgoing[p], s.decided_idx, announced)
      Q == get_promised_followers(l1) \cap Server
      l2 == numbered(set_accepted_idx(l1, p, s.accepted_idx), Q)
  IN  /\ storage' = [storage EXCEPT ![p] = s]
      /\ leader_state' = [leader_state EXCEPT ![p] = l2]
      /\ EndCall(p, push(out1, [q \in Q |-> AcceptStopSign(l2.n_leader, l2.follower_seq_nums[q], ss)]),
                 chan)

------------------------------------------------------------------------------
(* Proposals (mod.rs, leader.rs): only a leader that accepts them does what *)
(* SequencePaxos does not.                                                   *)

ec_propose_entries(p, entries, chan) ==
  \/ /\ state[p] = << "Leader", "Accept" >>
     /\ ec_accept_entries_leader(p, entries, chan)
     /\ UNCHANGED buffered_proposals
  \/ /\ state[p] # << "Leader", "Accept" >>
     /\ propose_entries(p, entries, chan)

ec_propose_stopsign(p, ss, chan) ==
  \/ /\ state[p] = << "Leader", "Accept" >>
     /\ ec_accept_stopsign_leader(p, ss, chan)
     /\ UNCHANGED buffered_stopsign
  \/ /\ state[p] # << "Leader", "Accept" >>
     /\ propose_stopsign(p, ss, chan)

\* The user hands over the whole value (EntryFragment::for_request).
ec_append(p, v) ==
  /\ p \notin panicked
  /\ << p, raw(v) >> \in Proposals \ proposed
  /\ ~ accepted_reconfiguration(storage[p])
  /\ ec_propose_entries(p, << raw(v) >>, net)
  /\ proposed' = proposed \cup {<< p, raw(v) >>}
  /\ UNCHANGED << state, follower_state, buffered_stopsign, panicked, budget >>

ec_reconfigure(p, ss) ==
  /\ p \notin panicked
  /\ << p, ss >> \in Proposals \ proposed
  /\ ~ accepted_reconfiguration(storage[p])
  /\ ec_propose_stopsign(p, ss, net)
  /\ proposed' = proposed \cup {<< p, ss >>}
  /\ UNCHANGED << state, follower_state, buffered_proposals, panicked, budget >>

ec_handle_forwarded_proposal(p, q) ==
  /\ Incoming(p, q, "ProposalForward")
  /\ ~ accepted_reconfiguration(storage[p])
  /\ ec_propose_entries(p, Head(net[q][p]).entries, Consume(p, q))
  /\ UNCHANGED << state, follower_state, buffered_stopsign, panicked >>

ec_handle_forwarded_stopsign(p, q) ==
  /\ Incoming(p, q, "ForwardStopSign")
  /\ ~ accepted_reconfiguration(storage[p])
  /\ ec_propose_stopsign(p, Head(net[q][p]).ss, Consume(p, q))
  /\ UNCHANGED << state, follower_state, buffered_proposals, panicked >>

------------------------------------------------------------------------------
(* Synchronising followers (leader.rs) *)

\* Variant: the log is sent as the leader has it.
sync_as_stored(sync, q) == sync

\* What the leader has, its own fragments, is encoded once more for q.
coded_log_sync(sync, q) == [sync EXCEPT !.suffix = fragments_for(@, q)]

ec_accsync_message(s, l, q) ==
  [accsync_message(s, l, q) EXCEPT !.log_sync = coded_log_sync(@, q)]

\* As in SequencePaxos; buffered proposals are appended whole.
ec_handle_majority_promises(p, q, l) ==
  LET s1 == sync_log(storage[p], l.n_leader, get_max_decided_idx(l), l.max_promise_sync)
      stopped == accepted_reconfiguration(s1)
      s2 == IF stopped THEN s1 ELSE append_entries_without_batching(s1, buffered_proposals[p])
      s3 == IF stopped \/ buffered_stopsign[p] = None
              THEN s2 ELSE append_stopsign(s2, buffered_stopsign[p])
      Q == get_promised_followers(l) \cap Server
      l1 == accsync_leader_state([set_accepted_idx(l, p, s3.accepted_idx) EXCEPT
                                    !.max_promise_sync = None], Q)
      sync_panics == sync_log_panics(storage[p], get_max_decided_idx(l), l.max_promise_sync)
  IN  /\ storage' = IF sync_panics THEN storage ELSE [storage EXCEPT ![p] = s3]
      /\ IF sync_panics \/ \E r \in Q : send_accsync_panics(s3, l1, r)
           THEN Panic(p, q)
           ELSE /\ state' = [state EXCEPT ![p] = << "Leader", "Accept" >>]
                /\ leader_state' = [leader_state EXCEPT ![p] = l1]
                /\ buffered_proposals' =
                     IF stopped THEN buffered_proposals ELSE [buffered_proposals EXCEPT ![p] = << >>]
                /\ buffered_stopsign' =
                     IF stopped THEN buffered_stopsign ELSE [buffered_stopsign EXCEPT ![p] = None]
                /\ Handled(p, q, push(outgoing[p], [r \in Q |-> ec_accsync_message(s3, l1, r)]))
                /\ UNCHANGED << follower_state, panicked >>

ec_handle_promise_prepare(p, q) ==
  LET m == Head(net[q][p])
      l == set_promise(leader_state[p], q, PromiseMeta(m), m.log_sync, TRUE)
  IN  /\ Incoming(p, q, "Promise")
      /\ state[p] = << "Leader", "Prepare" >>
      /\ counts_promise(p, m)
      /\ IF has_prepare_quorum(l)
           THEN ec_handle_majority_promises(p, q, l)
           ELSE handle_promise_prepare(p, q)

ec_handle_promise_accept(p, q) ==
  LET m == Head(net[q][p])
      l == accsync_leader_state(
             set_promise(leader_state[p], q, PromiseMeta(m), m.log_sync, FALSE), {q})
  IN  /\ Incoming(p, q, "Promise")
      /\ state[p] = << "Leader", "Accept" >>
      /\ counts_promise(p, m)
      /\ IF send_accsync_panics(storage[p], l, q)
           THEN handle_promise_accept(p, q)
           ELSE /\ leader_state' = [leader_state EXCEPT ![p] = l]
                /\ Handled(p, q, send(outgoing[p], q, ec_accsync_message(storage[p], l, q)))
                /\ UNCHANGED << storage, state, follower_state, buffered_proposals,
                                buffered_stopsign, panicked >>

------------------------------------------------------------------------------
(* Timeouts *)

\* The batch holds the leader's own fragments; they are encoded once more.
ec_flush_batch_leader(p) ==
  /\ state[p] = << "Leader", "Accept" >>
  /\ ec_accepts(p, flush_batch(storage[p]), storage[p].batched_entries, net)
  /\ UNCHANGED follower_state

\* Without a batch nothing happens.
ec_flush_batch_timeout(p) ==
  /\ p \notin panicked
  /\ Spend("flush", p)
  /\ \/ ec_flush_batch_leader(p)
     \/ /\ state[p] # << "Leader", "Accept" >>
        /\ IF state[p] = << "Follower", "Accept" >> /\ storage[p].batched_entries # << >>
             THEN flush_batch_follower(p)
             ELSE UNCHANGED << storage, leader_state, follower_state, outgoing, net >>
  /\ UNCHANGED << state, buffered_proposals, buffered_stopsign, panicked, proposed >>

------------------------------------------------------------------------------
(* What is as in SequencePaxos *)

ec_handle_as_follower(p, q) ==
  \/ handle_prepare(p, q)
  \/ handle_acceptsync(p, q)
  \/ handle_acceptdecide(p, q)
  \/ handle_accept_stopsign(p, q)
  \/ handle_decide(p, q)

\* An AcceptDecide reaches servers that have not promised, so that a ballot the
\* receiver never heard of does come here.
ec_refuse(p, q) == reject_ballot(p, q) \/ dropped_preceding(p, q) \/ ignore(p, q)

\* latest_accept_meta is never set here: every follower gets a Decide.
ec_handle_as_leader(p, q) ==
  \/ handle_preparereq(p, q)
  \/ handle_accepted(p, q)
  \/ handle_notaccepted(p, q)

ec_handle(p, q) ==
  /\ \/ ec_handle_as_follower(p, q)
     \/ ec_handle_as_leader(p, q)
     \/ ec_handle_promise_prepare(p, q)
     \/ ec_handle_promise_accept(p, q)
     \/ ec_handle_forwarded_proposal(p, q)
     \/ ec_handle_forwarded_stopsign(p, q)
     \/ handle_compaction(p, q)
     \/ ec_refuse(p, q)
  /\ UNCHANGED << proposed, budget >>

ec_handle_leader(p) == \E n \in Ballots : handle_leader(p, n)

ec_trim(p) == \E idx \in 1 .. storage[p].decided_idx : trim(p, idx)

ec_snapshot(p) ==
  \E local_only \in BOOLEAN, idx \in {None} \cup 1 .. storage[p].decided_idx :
    snapshot(p, idx, local_only)

ec_resend_message_timeout(p) == resend_message_timeout(p)

ec_reconnected(p) == \E q \in Peers(p) : user_reconnected(p, q)

ec_take_outgoing_msgs(p) == take_outgoing_msgs(p)

ec_restart(p) == restart(p)

ECNext ==
  \E p \in Server :
    \/ ec_handle_leader(p)
    \/ \E q \in Peers(p) : ec_handle(p, q)
    \/ \E v \in Data : ec_append(p, v)
    \/ \E ss \in StopSign : ec_reconfigure(p, ss)
    \/ ec_trim(p)
    \/ ec_snapshot(p)
    \/ ec_resend_message_timeout(p)
    \/ ec_flush_batch_timeout(p)
    \/ ec_reconnected(p)
    \/ ec_take_outgoing_msgs(p)
    \/ \E q \in Peers(p) : drop(p, q)
    \/ ec_restart(p)

ECSpec == Init /\ [][ECNext]_vars

------------------------------------------------------------------------------
(* Properties *)

\* What an entry of the log is a piece of.
Whole(e) == IF e \in StopSign THEN e ELSE e.of

SameWhole(s, t, i) ==
  i \in Held(s) \cap Held(t) => Whole(EntryAt(s, i)) = Whole(EntryAt(t, i))

\* No two servers decide pieces of different values at an index, although a new
\* leader adopts the fragments of another server and encodes them again
\* (handle_majority_promises, send_accsync).
CodedAgreement ==
  \A p, q \in Server :
    \A i \in 1 .. minimum(storage[p].decided_idx, storage[q].decided_idx) :
      SameWhole(storage[p], storage[q], i)

\* A write quorum stores a piece of every decided value, also if it was sent to
\* servers that had not promised (send_acceptdecide).
CodedDurable ==
  \A p \in Server :
    \A i \in 1 .. storage[p].decided_idx :
      Cardinality({q \in Server : Keeps(storage[q], i) /\ SameWhole(storage[p], storage[q], i)})
        >= WriteQuorum

\* "send only the correct fragment to each follower": what a server that was
\* never elected stores was last encoded for it, however it was synchronised.
FollowersHoldTheirFragment ==
  \A p \in Server \ {n.pid : n \in Ballots} :
    \A i \in DOMAIN storage[p].log :
      LET path == storage[p].log[i].path
      IN  path # << >> /\ path[Len(path)] = fragment_index_for_node(p)

\* "EC-aware log sync: send only the correct fragments": a decided value can be
\* rebuilt from what the servers store.
DecidedIsRebuildable ==
  \A p \in Server :
    \A i \in (1 .. storage[p].decided_idx) \cap Held(storage[p]) :
      LET e == EntryAt(storage[p], i)
          pieces == {EntryAt(storage[q], i) : q \in {r \in Server : i \in Held(storage[r])}}
      IN  e \notin StopSign => decode({d \in pieces : d \notin StopSign}, e.of)
==============================================================================
