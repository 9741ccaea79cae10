---------------------------- MODULE SequencePaxos ----------------------------
(***************************************************************************)
(* Sequence Paxos (sequence_paxos/{mod,leader,follower}.rs): the servers   *)
(* of one configuration replicate a log.  Each server has its storage, its *)
(* role and phase, the bookkeeping of the round it leads and of the round  *)
(* it follows, and its outgoing messages.  One action is one call of the   *)
(* program: a handler of a message, a call of the user or a timeout.       *)
(*                                                                         *)
(* The environment is the leader election, which may hand any of Ballots   *)
(* to the server it names; the user, who takes the outgoing messages and   *)
(* sends them; a network whose channels lose messages but neither reorder  *)
(* nor duplicate them; and crashes, after which a server restarts from its *)
(* persistent state.                                                       *)
(***************************************************************************)
EXTENDS LeaderState

CONSTANTS Ballots,        \* the ballots the leader election may elect
          Proposals,      \* <<p, e>>: the user of server p proposes e
          Links,          \* <<p, q>>: messages of p can reach q
          EagerTake,      \* the user takes the outgoing messages after every call
          Budget,         \* Budget[kind][p]: how often a kind of step may happen at p
          Disturbances    \* of how many kinds and servers in one behaviour

Bounded == {"drop", "restart", "resend", "reconnect", "flush", "trim", "snapshot"}

ASSUME PaxosAssumption ==
  /\ Ballots \subseteq Ballot
  /\ \A n \in Ballots : n.pid \in Server
  /\ Proposals \subseteq Server \X (Value \cup StopSign)
  /\ Links \subseteq Server \X Server
  /\ EagerTake \in BOOLEAN
  /\ Budget \in [Bounded -> [Server -> Nat]]
  /\ Disturbances \in Nat

VARIABLES storage,             \* internal_storage of each server
          state,               \* (Role, Phase)
          leader_state,        \* leader_state
          follower_state,      \* current_seq_num, cached_promise_message, latest_accepted_meta
          buffered_proposals,  \* proposals made before there was a leader to accept them
          buffered_stopsign,
          outgoing,            \* outgoing[p][q]: messages of p for q the user has not taken
          net,                 \* net[p][q]: messages of p on their way to q
          panicked,            \* servers whose process aborted
          proposed,            \* the Proposals made so far
          budget               \* what is left of Budget

serverVars == << storage, state, leader_state, follower_state,
                 buffered_proposals, buffered_stopsign >>
vars == << serverVars, outgoing, net, panicked, proposed, budget >>

------------------------------------------------------------------------------
(* Messages (messages.rs) *)

PrepareReq(n) == [type |-> "PrepareReq", n |-> n]

Prepare(n, s) ==
  [type |-> "Prepare", n |-> n, decided_idx |-> s.decided_idx,
   n_accepted |-> s.accepted_round, accepted_idx |-> s.accepted_idx]

Promise(n, s, log_sync) ==
  [type |-> "Promise", n |-> n, n_accepted |-> s.accepted_round,
   decided_idx |-> s.decided_idx, accepted_idx |-> s.accepted_idx,
   log_sync |-> log_sync]

AcceptSync(n, seq_num, decided_idx, log_sync) ==
  [type |-> "AcceptSync", n |-> n, seq_num |-> seq_num,
   decided_idx |-> decided_idx, log_sync |-> log_sync]

AcceptDecide(n, seq_num, decided_idx, entries) ==
  [type |-> "AcceptDecide", n |-> n, seq_num |-> seq_num,
   decided_idx |-> decided_idx, entries |-> entries]

AcceptStopSign(n, seq_num, ss) ==
  [type |-> "AcceptStopSign", n |-> n, seq_num |-> seq_num, ss |-> ss]

Decide(n, seq_num, decided_idx) ==
  [type |-> "Decide", n |-> n, seq_num |-> seq_num, decided_idx |-> decided_idx]

Accepted(n, accepted_idx) == [type |-> "Accepted", n |-> n, accepted_idx |-> accepted_idx]

NotAccepted(n) == [type |-> "NotAccepted", n |-> n]

ProposalForward(entries) == [type |-> "ProposalForward", entries |-> entries]

ForwardStopSign(ss) == [type |-> "ForwardStopSign", ss |-> ss]

Compaction(kind, idx) == [type |-> "Compaction", kind |-> kind, idx |-> idx]

PromiseMessage ==
  [type : {"Promise"}, n : Ballot, n_accepted : Ballot,
   decided_idx : Nat, accepted_idx : Nat, log_sync : LogSync \cup {None}]

Message ==
  [type : {"PrepareReq", "NotAccepted"}, n : Ballot]
  \cup [type : {"Prepare"}, n : Ballot, decided_idx : Nat,
        n_accepted : Ballot, accepted_idx : Nat]
  \cup PromiseMessage
  \cup [type : {"AcceptSync"}, n : Ballot, seq_num : SequenceNumber,
        decided_idx : Nat, log_sync : LogSync]
  \cup [type : {"AcceptDecide"}, n : Ballot, seq_num : SequenceNumber,
        decided_idx : Nat, entries : Entries]
  \cup [type : {"AcceptStopSign"}, n : Ballot, seq_num : SequenceNumber, ss : StopSign]
  \cup [type : {"Decide"}, n : Ballot, seq_num : SequenceNumber, decided_idx : Nat]
  \cup [type : {"Accepted"}, n : Ballot, accepted_idx : Nat]
  \cup [type : {"ProposalForward"}, entries : Entries]
  \cup [type : {"ForwardStopSign"}, ss : StopSign]
  \cup [type : {"Compaction"}, kind : {"Trim"}, idx : Nat]
  \cup [type : {"Compaction"}, kind : {"Snapshot"}, idx : Nat \cup {None}]

\* The messages a leader sends in its Accept phase; all carry its ballot.
AcceptTypes == {"AcceptSync", "AcceptDecide", "AcceptStopSign", "Decide"}

------------------------------------------------------------------------------
(* Outgoing messages, the network and panics *)

NoMessages == [q \in Server |-> << >>]

\* Appends msgs[q] to the outgoing messages of each q in the domain of msgs.
push(out, msgs) ==
  [q \in Server |-> IF q \in DOMAIN msgs THEN Append(out[q], msgs[q]) ELSE out[q]]

send(out, q, m) == [out EXCEPT ![q] = Append(@, m)]

\* self.outgoing.len() before a push, kept to extend the message later.  A user
\* who takes the messages after every call resets it in the same step.
cached_idx(out, q) == IF EagerTake THEN 0 ELSE Len(out[q]) + 1

\* The messages of p enter the network; those on a broken link are lost.
Transmit(chan, p, out) ==
  [chan EXCEPT ![p] = [q \in Server |-> IF << p, q >> \in Links THEN @[q] \o out[q] ELSE @[q]]]

\* p's call ends with out as its outgoing messages and chan as the network.
EndCall(p, out, chan) ==
  IF EagerTake
    THEN /\ net' = Transmit(chan, p, out)
         /\ UNCHANGED outgoing
    ELSE /\ net' = chan
         /\ outgoing' = [outgoing EXCEPT ![p] = out]

Called(p, out) == EndCall(p, out, net)

Consume(p, q) == [net EXCEPT ![q][p] = Tail(@)]

\* The call handled the first message of q.
Handled(p, q, out) == EndCall(p, out, Consume(p, q))

\* p handles a message of q next, and the message is m.
Incoming(p, q, type) ==
  /\ p \notin panicked
  /\ net[q][p] # << >>
  /\ Head(net[q][p]).type = type

\* The handler returns without doing anything.
Discard(p, q) ==
  /\ net' = Consume(p, q)
  /\ UNCHANGED << serverVars, outgoing, panicked >>

\* The handler panics: what it stored stays, the rest is lost on restart.
Panic(p, q) ==
  /\ net' = Consume(p, q)
  /\ panicked' = panicked \cup {p}
  /\ UNCHANGED << state, leader_state, follower_state, buffered_proposals,
                  buffered_stopsign, outgoing >>

\* The kinds and servers of which a step was taken.
Spent == {x \in Bounded \X Server : budget[x[1]][x[2]] < Budget[x[1]][x[2]]}

Spend(kind, p) ==
  /\ budget[kind][p] > 0
  /\ Cardinality(Spent \cup {<< kind, p >>}) <= Disturbances
  /\ budget' = [budget EXCEPT ![kind][p] = @ - 1]

DefaultFollowerState ==
  [current_seq_num |-> DefaultSequenceNumber, cached_promise_message |-> None,
   latest_accepted_meta |-> [n |-> DefaultBallot, idx |-> 0]]

get_current_leader(p) == storage[p].promise.pid

\* Variant: entries are accepted behind a stop sign.
never_reconfigures(s) == FALSE

accepted_reconfiguration(s) == s.stopsign # None

Peers(p) == Server \ {p}

------------------------------------------------------------------------------
(* Accepting entries at the leader (leader.rs) *)

has_latest_accdec(l, out, q) ==
  /\ l.latest_accept_meta[q] # 0
  /\ out[q][l.latest_accept_meta[q]].type = "AcceptDecide"

\* Variant: a waiting AcceptDecide is overwritten.
accdec_overwrites(l, out, decided_idx, entries) ==
  [q \in Server |->
     IF q \notin get_promised_followers(l)
       THEN out[q]
       ELSE IF has_latest_accdec(l, out, q)
              THEN [out[q] EXCEPT ![l.latest_accept_meta[q]] =
                      [@ EXCEPT !.entries = entries, !.decided_idx = decided_idx]]
              ELSE Append(out[q], AcceptDecide(l.n_leader, next_seq_num(l.follower_seq_nums[q]),
                                               decided_idx, entries))]

extended(m, decided_idx, entries) ==
  [m EXCEPT !.entries = @ \o entries, !.decided_idx = decided_idx]

\* send_acceptdecide: an AcceptDecide that still waits in the outgoing messages
\* is extended, otherwise a new one takes the next sequence number.
accdec_outgoing(l, out, decided_idx, entries) ==
  [q \in Server |->
     IF q \notin get_promised_followers(l)
       THEN out[q]
       ELSE IF has_latest_accdec(l, out, q)
              THEN [out[q] EXCEPT ![l.latest_accept_meta[q]] = extended(@, decided_idx, entries)]
              ELSE Append(out[q], AcceptDecide(l.n_leader, next_seq_num(l.follower_seq_nums[q]),
                                               decided_idx, entries))]

accdec_leader_state(l, out) ==
  LET new == {q \in get_promised_followers(l) \cap Server : ~ has_latest_accdec(l, out, q)}
  IN  [l EXCEPT !.follower_seq_nums =
                  [r \in Slots |-> IF r \in new THEN next_seq_num(@[r]) ELSE @[r]],
                !.latest_accept_meta =
                  [r \in Slots |-> IF r \in new THEN cached_idx(out, r) ELSE @[r]]]

\* The leader stored s, which includes flushed entries (if there were any).
accepts(p, s, entries, chan) ==
  LET l == set_accepted_idx(leader_state[p], p, s.accepted_idx)
  IN  /\ storage' = [storage EXCEPT ![p] = s]
      /\ leader_state' = [leader_state EXCEPT ![p] = accdec_leader_state(l, outgoing[p])]
      /\ EndCall(p, accdec_outgoing(l, outgoing[p], s.decided_idx, entries), chan)

\* accept_entry_leader and accept_entries_leader.
accept_entries_leader(p, entries, chan) ==
  LET s == append_entries_with_batching(storage[p], entries)
  IN  IF fills_batch(storage[p], entries)
        THEN accepts(p, s, storage[p].batched_entries \o entries, chan)
        ELSE /\ storage' = [storage EXCEPT ![p] = s]
             /\ EndCall(p, outgoing[p], chan)
             /\ UNCHANGED leader_state

\* The batch goes out before the stop sign, each with its sequence number.
accept_stopsign_leader(p, ss, chan) ==
  LET s == append_stopsign(storage[p], ss)
      l0 == leader_state[p]
      batched == storage[p].batched_entries
      l1 == IF batched = << >> THEN l0 ELSE accdec_leader_state(l0, outgoing[p])
      out1 == IF batched = << >> THEN outgoing[p]
              ELSE accdec_outgoing(l0, outgoing[p], s.decided_idx, batched)
      Q == get_promised_followers(l1) \cap Server
      l2 == [set_accepted_idx(l1, p, s.accepted_idx) EXCEPT
               !.follower_seq_nums = [r \in Slots |-> IF r \in Q THEN next_seq_num(@[r]) ELSE @[r]]]
  IN  /\ storage' = [storage EXCEPT ![p] = s]
      /\ leader_state' = [leader_state EXCEPT ![p] = l2]
      /\ EndCall(p, push(out1, [q \in Q |-> AcceptStopSign(l2.n_leader, l2.follower_seq_nums[q], ss)]),
                 chan)

------------------------------------------------------------------------------
(* Proposals of the user and of other servers (mod.rs, leader.rs) *)

\* A follower forwards to the leader it promised; a server that knows of no
\* leader but itself keeps the proposal.
knows_other_leader(p) == get_current_leader(p) > 0 /\ get_current_leader(p) # p

forward_proposals_outgoing(p, out, entries) ==
  IF knows_other_leader(p)
    THEN send(out, get_current_leader(p), ProposalForward(entries))
    ELSE out

\* Variant: a forwarded proposal is kept as well.
keeps_every_proposal(p) == TRUE

keeps_proposal(p) == state[p] = << "Leader", "Prepare" >> \/ ~ knows_other_leader(p)

propose_entries(p, entries, chan) ==
  \/ /\ state[p] = << "Leader", "Accept" >>
     /\ accept_entries_leader(p, entries, chan)
     /\ UNCHANGED buffered_proposals
  \/ /\ state[p] # << "Leader", "Accept" >>
     /\ buffered_proposals' =
          IF keeps_proposal(p)
            THEN [buffered_proposals EXCEPT ![p] = @ \o entries]
            ELSE buffered_proposals
     /\ EndCall(p, IF state[p] = << "Leader", "Prepare" >>
                     THEN outgoing[p]
                     ELSE forward_proposals_outgoing(p, outgoing[p], entries), chan)
     /\ UNCHANGED << storage, leader_state >>

propose_stopsign(p, ss, chan) ==
  \/ /\ state[p] = << "Leader", "Accept" >>
     /\ accept_stopsign_leader(p, ss, chan)
     /\ UNCHANGED buffered_stopsign
  \/ /\ state[p] = << "Leader", "Prepare" >>
     /\ buffered_stopsign' = [buffered_stopsign EXCEPT ![p] = ss]
     /\ EndCall(p, outgoing[p], chan)
     /\ UNCHANGED << storage, leader_state >>
  \/ /\ state[p][1] = "Follower"
     /\ buffered_stopsign' =
          IF knows_other_leader(p) \/ buffered_stopsign[p] # None
            THEN buffered_stopsign
            ELSE [buffered_stopsign EXCEPT ![p] = ss]
     /\ EndCall(p, IF knows_other_leader(p)
                     THEN send(outgoing[p], get_current_leader(p), ForwardStopSign(ss))
                     ELSE outgoing[p], chan)
     /\ UNCHANGED << storage, leader_state >>

append(p, v) ==
  /\ p \notin panicked
  /\ << p, v >> \in Proposals \ proposed
  /\ ~ accepted_reconfiguration(storage[p])
  /\ propose_entries(p, << v >>, net)
  /\ proposed' = proposed \cup {<< p, v >>}
  /\ UNCHANGED << state, follower_state, buffered_stopsign, panicked, budget >>

reconfigure(p, ss) ==
  /\ p \notin panicked
  /\ << p, ss >> \in Proposals \ proposed
  /\ ~ accepted_reconfiguration(storage[p])
  /\ propose_stopsign(p, ss, net)
  /\ proposed' = proposed \cup {<< p, ss >>}
  /\ UNCHANGED << state, follower_state, buffered_proposals, panicked, budget >>

handle_forwarded_proposal(p, q) ==
  /\ Incoming(p, q, "ProposalForward")
  /\ ~ accepted_reconfiguration(storage[p])
  /\ propose_entries(p, Head(net[q][p]).entries, Consume(p, q))
  /\ UNCHANGED << state, follower_state, buffered_stopsign, panicked >>

handle_forwarded_stopsign(p, q) ==
  /\ Incoming(p, q, "ForwardStopSign")
  /\ ~ accepted_reconfiguration(storage[p])
  /\ propose_stopsign(p, Head(net[q][p]).ss, Consume(p, q))
  /\ UNCHANGED << state, follower_state, buffered_proposals, panicked >>

------------------------------------------------------------------------------
(* Becoming leader: the Prepare phase (leader.rs) *)

PromiseMeta(m) ==
  [n_accepted |-> m.n_accepted, accepted_idx |-> m.accepted_idx, decided_idx |-> m.decided_idx]

\* The election names p as the leader of n.  (It tells only the winner.)
handle_leader(p, n) ==
  LET s == [flush_batch(storage[p]) EXCEPT !.promise = n]
      my_promise == Promise(n, s, None)
  IN  /\ p \notin panicked
      /\ n.pid = p
      /\ leader_state[p].n_leader \prec n
      /\ storage[p].promise \prec n
      /\ storage' = [storage EXCEPT ![p] = s]
      /\ leader_state' = [leader_state EXCEPT ![p] =
                            set_promise(LeaderState_with(n), p, PromiseMeta(my_promise), None, TRUE)]
      /\ state' = [state EXCEPT ![p] = << "Leader", "Prepare" >>]
      /\ Called(p, push(outgoing[p], [q \in Peers(p) |-> Prepare(n, s)]))
      /\ UNCHANGED << follower_state, buffered_proposals, buffered_stopsign,
                      panicked, proposed, budget >>

\* Variant: only a follower behind this round is prepared again.
answers_older_only(p, m) == state[p][1] = "Leader" /\ m.n \prec leader_state[p].n_leader

\* A follower that recovers asks to be prepared again.
answers_preparereq(p, m) == state[p][1] = "Leader" /\ m.n \preceq leader_state[p].n_leader

handle_preparereq(p, q) ==
  LET m == Head(net[q][p])
      l == reset_promise(leader_state[p], q)
  IN  /\ Incoming(p, q, "PrepareReq")
      /\ answers_preparereq(p, m)
      /\ leader_state' = [leader_state EXCEPT ![p] = [l EXCEPT !.latest_accept_meta[q] = 0]]
      /\ Handled(p, q, send(outgoing[p], q, Prepare(l.n_leader, storage[p])))
      /\ UNCHANGED << storage, state, follower_state, buffered_proposals,
                      buffered_stopsign, panicked >>

\* Variant: logs of any rounds are taken to agree.
ignoring_rounds(l, q) ==
  minimum(l.max_promise_meta.accepted_idx, l.promises_meta[q].meta.accepted_idx)

\* Up to where the log of follower q agrees with the leader's, as its promise
\* tells.
followers_valid_entries_idx(l, q) ==
  LET meta == l.promises_meta[q].meta
  IN  IF meta.n_accepted = l.n_leader
        THEN meta.accepted_idx
        ELSE IF meta.n_accepted = l.max_promise_meta.n_accepted
               THEN minimum(l.max_promise_meta.accepted_idx, meta.accepted_idx)
               ELSE meta.decided_idx

send_accsync_panics(s, l, q) == create_log_sync_panics(s, followers_valid_entries_idx(l, q))

\* send_accsync opens a new session of accepts with each follower in Q.
accsync_leader_state(l, Q) ==
  [l EXCEPT !.follower_seq_nums =
     [r \in Slots |-> IF r \in Q THEN next_seq_num(increment_seq_num_session(@[r])) ELSE @[r]]]

accsync_message(s, l, q) ==
  AcceptSync(l.n_leader, l.follower_seq_nums[q], s.decided_idx,
             create_log_sync(s, followers_valid_entries_idx(l, q),
                             l.promises_meta[q].meta.decided_idx))

\* The leader adopts the most advanced log among the promises, appends what it
\* buffered and synchronises everyone who promised.
handle_majority_promises(p, q, l) ==
  LET s1 == sync_log(storage[p], l.n_leader, get_max_decided_idx(l), l.max_promise_sync)
      stopped == accepted_reconfiguration(s1)
      s2 == IF stopped THEN s1 ELSE append_entries_without_batching(s1, buffered_proposals[p])
      s3 == IF stopped \/ buffered_stopsign[p] = None
              THEN s2 ELSE append_stopsign(s2, buffered_stopsign[p])
      Q == get_promised_followers(l) \cap Server
      l1 == accsync_leader_state([set_accepted_idx(l, p, s3.accepted_idx) EXCEPT
                                    !.max_promise_sync = None], Q)
      sync_panics == sync_log_panics(storage[p], get_max_decided_idx(l), l.max_promise_sync)
  IN  /\ storage' = IF sync_panics THEN storage ELSE [storage EXCEPT ![p] = s3]
      /\ IF sync_panics \/ \E r \in Q : send_accsync_panics(s3, l1, r)
           THEN Panic(p, q)
           ELSE /\ state' = [state EXCEPT ![p] = << "Leader", "Accept" >>]
                /\ leader_state' = [leader_state EXCEPT ![p] = l1]
                /\ buffered_proposals' =
                     IF stopped THEN buffered_proposals ELSE [buffered_proposals EXCEPT ![p] = << >>]
                /\ buffered_stopsign' =
                     IF stopped THEN buffered_stopsign ELSE [buffered_stopsign EXCEPT ![p] = None]
                /\ Handled(p, q, push(outgoing[p], [r \in Q |-> accsync_message(s3, l1, r)]))
                /\ UNCHANGED << follower_state, panicked >>

\* Variant: promises of earlier rounds count.
counts_any_promise(p, m) == TRUE

counts_promise(p, m) == m.n = leader_state[p].n_leader

handle_promise_prepare(p, q) ==
  LET m == Head(net[q][p])
      l == set_promise(leader_state[p], q, PromiseMeta(m), m.log_sync, TRUE)
  IN  /\ Incoming(p, q, "Promise")
      /\ state[p] = << "Leader", "Prepare" >>
      /\ counts_promise(p, m)
      /\ \/ /\ has_prepare_quorum(l)
            /\ handle_majority_promises(p, q, l)
         \/ /\ ~ has_prepare_quorum(l)
            /\ leader_state' = [leader_state EXCEPT ![p] = l]
            /\ Handled(p, q, outgoing[p])
            /\ UNCHANGED << storage, state, follower_state, buffered_proposals,
                            buffered_stopsign, panicked >>

\* A promise that comes when the leader already accepts: synchronise q.
handle_promise_accept(p, q) ==
  LET m == Head(net[q][p])
      l == accsync_leader_state(
             set_promise(leader_state[p], q, PromiseMeta(m), m.log_sync, FALSE), {q})
  IN  /\ Incoming(p, q, "Promise")
      /\ state[p] = << "Leader", "Accept" >>
      /\ counts_promise(p, m)
      /\ UNCHANGED storage
      /\ IF send_accsync_panics(storage[p], l, q)
           THEN Panic(p, q)
           ELSE /\ leader_state' = [leader_state EXCEPT ![p] = l]
                /\ Handled(p, q, send(outgoing[p], q, accsync_message(storage[p], l, q)))
                /\ UNCHANGED << state, follower_state, buffered_proposals,
                                buffered_stopsign, panicked >>

------------------------------------------------------------------------------
(* Deciding at the leader (leader.rs) *)

counts_accepted(p, m) ==
  state[p] = << "Leader", "Accept" >> /\ m.n = leader_state[p].n_leader

\* A Decide goes out to those whose last AcceptDecide was already taken.
handle_accepted(p, q) ==
  LET m == Head(net[q][p])
      idx == m.accepted_idx
      l == set_accepted_idx(leader_state[p], q, idx)
      out == outgoing[p]
      Q == get_promised_followers(l) \cap Server
      new == {r \in Q : ~ has_latest_accdec(l, out, r)}
      l1 == [l EXCEPT !.follower_seq_nums =
               [r \in Slots |-> IF r \in new THEN next_seq_num(@[r]) ELSE @[r]]]
      marked == [r \in Server |->
                   IF r \in Q \ new
                     THEN [out[r] EXCEPT ![l.latest_accept_meta[r]] = [@ EXCEPT !.decided_idx = idx]]
                     ELSE out[r]]
  IN  /\ Incoming(p, q, "Accepted")
      /\ counts_accepted(p, m)
      /\ \/ /\ idx > storage[p].decided_idx
            /\ is_chosen(l, idx)
            /\ storage' = [storage EXCEPT ![p].decided_idx = idx]
            /\ leader_state' = [leader_state EXCEPT ![p] = l1]
            /\ Handled(p, q, push(marked, [r \in new |-> Decide(l.n_leader, l1.follower_seq_nums[r], idx)]))
         \/ /\ ~ (idx > storage[p].decided_idx /\ is_chosen(l, idx))
            /\ leader_state' = [leader_state EXCEPT ![p] = l]
            /\ Handled(p, q, out)
            /\ UNCHANGED storage
      /\ UNCHANGED << state, follower_state, buffered_proposals, buffered_stopsign, panicked >>

loses_promise(p, m) == state[p][1] = "Leader" /\ leader_state[p].n_leader \prec m.n

handle_notaccepted(p, q) ==
  /\ Incoming(p, q, "NotAccepted")
  /\ loses_promise(p, Head(net[q][p]))
  /\ leader_state' = [leader_state EXCEPT ![p] = lost_promise(@, q)]
  /\ Handled(p, q, outgoing[p])
  /\ UNCHANGED << storage, state, follower_state, buffered_proposals, buffered_stopsign, panicked >>

------------------------------------------------------------------------------
(* Following a leader (follower.rs) *)

accepts_prepare(p, m) ==
  \/ storage[p].promise \prec m.n
  \/ storage[p].promise = m.n /\ state[p][2] = "Recover"

\* The promise tells the leader what it is missing if this log is ahead.
handle_prepare(p, q) ==
  LET m == Head(net[q][p])
      s == [flush_batch(storage[p]) EXCEPT !.promise = m.n]
      newer_round == m.n_accepted \prec s.accepted_round
      longer_log == m.n_accepted = s.accepted_round /\ m.accepted_idx < s.accepted_idx
      from == IF newer_round THEN m.decided_idx ELSE m.accepted_idx
      promise == Promise(m.n, s, IF newer_round \/ longer_log
                                   THEN create_log_sync(s, from, m.decided_idx)
                                   ELSE None)
  IN  /\ Incoming(p, q, "Prepare")
      /\ accepts_prepare(p, m)
      /\ storage' = [storage EXCEPT ![p] = s]
      /\ IF (newer_round \/ longer_log) /\ create_log_sync_panics(s, from)
           THEN Panic(p, q)
           ELSE /\ state' = [state EXCEPT ![p] = << "Follower", "Prepare" >>]
                /\ follower_state' =
                     [follower_state EXCEPT ![p].current_seq_num = DefaultSequenceNumber,
                                            ![p].cached_promise_message = promise]
                /\ Handled(p, q, send(outgoing[p], q, promise))
                /\ UNCHANGED << leader_state, buffered_proposals, buffered_stopsign, panicked >>

\* The phase in which p handles an accept message of the leader it follows.
in_phase(p, m) ==
  CASE m.type = "AcceptSync" -> state[p] = << "Follower", "Prepare" >>
    [] m.type = "Decide" -> state[p][2] = "Accept"
    [] OTHER -> state[p] = << "Follower", "Accept" >>

msg_status(p, m) ==
  IF m.type = "AcceptSync"
    THEN "Expected"
    ELSE check_msg_status(follower_state[p].current_seq_num, m.seq_num)

\* What every accept message must pass before its handler does anything.
IncomingAccept(p, q, type) ==
  LET m == Head(net[q][p])
  IN  /\ Incoming(p, q, type)
      /\ m.n = storage[p].promise
      /\ in_phase(p, m)
      /\ msg_status(p, m) = "Expected"

\* reconnected(q): ask to be prepared again, and stop following q until then.
reconnected(p, q, out, chan) ==
  /\ state' = IF q = get_current_leader(p)
                THEN [state EXCEPT ![p] = << "Follower", "Recover" >>]
                ELSE state
  /\ EndCall(p, send(out, q, PrepareReq(storage[p].promise)), chan)

\* check_valid_ballot fails: refuse an old ballot.  (A ballot p never promised
\* should never come.)
reject_ballot(p, q) ==
  LET m == Head(net[q][p])
      promise == storage[p].promise
  IN  /\ \E type \in AcceptTypes : Incoming(p, q, type)
      /\ m.n # promise
      /\ IF m.n \prec promise
           THEN /\ Handled(p, q, send(outgoing[p], m.n.pid, NotAccepted(promise)))
                /\ UNCHANGED state
           ELSE reconnected(p, m.n.pid, outgoing[p], Consume(p, q))
      /\ UNCHANGED << storage, leader_state, follower_state, buffered_proposals,
                      buffered_stopsign, panicked >>

\* handle_sequence_num finds a gap: an accept message was lost.
dropped_preceding(p, q) ==
  LET m == Head(net[q][p])
  IN  /\ \E type \in AcceptTypes : Incoming(p, q, type)
      /\ m.n = storage[p].promise
      /\ in_phase(p, m)
      /\ msg_status(p, m) = "DroppedPreceding"
      /\ reconnected(p, m.n.pid, outgoing[p], Consume(p, q))
      /\ UNCHANGED << storage, leader_state, follower_state, buffered_proposals,
                      buffered_stopsign, panicked >>

\* reply_accepted: an Accepted of round n that still waits is updated.
has_latest_accepted(f, out, n) ==
  /\ f.latest_accepted_meta.idx # 0
  /\ f.latest_accepted_meta.n = n
  /\ out[n.pid][f.latest_accepted_meta.idx].type = "Accepted"

\* Variant: the index after the last one.
reply_next_idx(f, out, n, accepted_idx) ==
  IF has_latest_accepted(f, out, n)
    THEN [out EXCEPT ![n.pid][f.latest_accepted_meta.idx] = [@ EXCEPT !.accepted_idx = accepted_idx + 1]]
    ELSE send(out, n.pid, Accepted(n, accepted_idx + 1))

reply_accepted_outgoing(f, out, n, accepted_idx) ==
  IF has_latest_accepted(f, out, n)
    THEN [out EXCEPT ![n.pid][f.latest_accepted_meta.idx] = [@ EXCEPT !.accepted_idx = accepted_idx]]
    ELSE send(out, n.pid, Accepted(n, accepted_idx))

reply_accepted_meta(f, out, n) ==
  IF has_latest_accepted(f, out, n)
    THEN f
    ELSE [f EXCEPT !.latest_accepted_meta = [n |-> n, idx |-> cached_idx(out, n.pid)]]

handle_acceptsync(p, q) ==
  LET m == Head(net[q][p])
      s == sync_log(storage[p], m.n, m.decided_idx, m.log_sync)
      proposals == buffered_proposals[p]
      forwards == s.stopsign = None /\ proposals # << >>
      out == IF forwards THEN forward_proposals_outgoing(p, outgoing[p], proposals) ELSE outgoing[p]
  IN  /\ IncomingAccept(p, q, "AcceptSync")
      /\ IF sync_log_panics(storage[p], m.decided_idx, m.log_sync)
           THEN Panic(p, q) /\ UNCHANGED storage
           ELSE /\ storage' = [storage EXCEPT ![p] = s]
                /\ state' = [state EXCEPT ![p] = << "Follower", "Accept" >>]
                /\ follower_state' = [follower_state EXCEPT ![p] =
                     [current_seq_num |-> m.seq_num, cached_promise_message |-> None,
                      latest_accepted_meta |-> [n |-> m.n, idx |-> cached_idx(out, q)]]]
                /\ buffered_proposals' = IF forwards /\ knows_other_leader(p)
                                           THEN [buffered_proposals EXCEPT ![p] = << >>]
                                           ELSE buffered_proposals
                /\ Handled(p, q, send(out, q, Accepted(m.n, s.accepted_idx)))
                /\ UNCHANGED << leader_state, buffered_stopsign, panicked >>

\* Batched entries are flushed if that is needed to keep decided <= accepted.
flushes_to_decide(s, decided_idx) == decided_idx > s.decided_idx /\ decided_idx > s.accepted_idx

\* Variant: the batch is not flushed.
decides_without_flush(s, decided_idx) ==
  IF decided_idx <= s.decided_idx THEN s ELSE [s EXCEPT !.decided_idx = decided_idx]

update_decided_idx(s, decided_idx) ==
  IF decided_idx <= s.decided_idx
    THEN s
    ELSE IF flushes_to_decide(s, decided_idx)
           THEN LET f == flush_batch(s)
                IN  [f EXCEPT !.decided_idx = minimum(decided_idx, f.accepted_idx)]
           ELSE [s EXCEPT !.decided_idx = decided_idx]

\* The rest of a handler of an accept message: p has stored s and replies if
\* that made more entries durable.
follow(p, q, s, replies) ==
  LET m == Head(net[q][p])
      f == [follower_state[p] EXCEPT !.current_seq_num = m.seq_num]
      out == outgoing[p]
  IN  /\ storage' = [storage EXCEPT ![p] = s]
      /\ follower_state' = [follower_state EXCEPT ![p] =
                              IF replies THEN reply_accepted_meta(f, out, m.n) ELSE f]
      /\ Handled(p, q, IF replies THEN reply_accepted_outgoing(f, out, m.n, s.accepted_idx) ELSE out)
      /\ UNCHANGED << state, leader_state, buffered_proposals, buffered_stopsign, panicked >>

handle_acceptdecide(p, q) ==
  LET m == Head(net[q][p])
      s == append_entries_with_batching(storage[p], m.entries)
  IN  /\ IncomingAccept(p, q, "AcceptDecide")
      /\ follow(p, q, update_decided_idx(s, m.decided_idx),
                fills_batch(storage[p], m.entries) \/ flushes_to_decide(s, m.decided_idx))

handle_accept_stopsign(p, q) ==
  /\ IncomingAccept(p, q, "AcceptStopSign")
  /\ follow(p, q, set_stopsign(flush_batch(storage[p]), Head(net[q][p]).ss), TRUE)

handle_decide(p, q) ==
  LET m == Head(net[q][p])
  IN  /\ IncomingAccept(p, q, "Decide")
      /\ follow(p, q, update_decided_idx(storage[p], m.decided_idx),
                flushes_to_decide(storage[p], m.decided_idx))

------------------------------------------------------------------------------
(* Compaction (mod.rs) *)

\* The leader trims what every server has accepted; the others follow.
trim(p, idx) ==
  /\ p \notin panicked
  /\ state[p][1] = "Leader"
  /\ within_min_all_accepted_idx(leader_state[p], idx)
  /\ idx <= storage[p].decided_idx
  /\ Spend("trim", p)
  /\ storage' = [storage EXCEPT ![p] = try_trim(@, idx)]
  /\ Called(p, push(outgoing[p], [q \in Peers(p) |-> Compaction("Trim", idx)]))
  /\ UNCHANGED << state, leader_state, follower_state, buffered_proposals,
                  buffered_stopsign, panicked, proposed >>

snapshot(p, idx, local_only) ==
  /\ UseSnapshots
  /\ p \notin panicked
  /\ idx # None => idx <= storage[p].decided_idx
  /\ Spend("snapshot", p)
  /\ storage' = [storage EXCEPT ![p] = try_snapshot(@, idx)]
  /\ Called(p, IF local_only
                 THEN outgoing[p]
                 ELSE push(outgoing[p], [q \in Peers(p) |-> Compaction("Snapshot", idx)]))
  /\ UNCHANGED << state, leader_state, follower_state, buffered_proposals,
                  buffered_stopsign, panicked, proposed >>

handle_compaction(p, q) ==
  LET m == Head(net[q][p])
  IN  /\ Incoming(p, q, "Compaction")
      /\ storage' = [storage EXCEPT ![p] =
                       IF m.kind = "Trim" THEN try_trim(@, m.idx) ELSE try_snapshot(@, m.idx)]
      /\ Handled(p, q, outgoing[p])
      /\ UNCHANGED << state, leader_state, follower_state, buffered_proposals,
                      buffered_stopsign, panicked >>

------------------------------------------------------------------------------
(* Timeouts (leader.rs, follower.rs) *)

\* Prepare again whoever has not promised; in the Accept phase also the stop
\* sign, or that it is decided, with the sequence number last used.
resend_messages_leader(p) ==
  LET s == storage[p]
      l == leader_state[p]
      resent(q) ==
        IF q \in get_preparable_peers(l, p)
          THEN << Prepare(l.n_leader, s) >>
          ELSE IF /\ state[p][2] = "Accept"
                  /\ accepted_reconfiguration(s)
                  /\ q \in get_promised_followers(l)
                 THEN IF stopsign_is_decided(s)
                        THEN << Decide(l.n_leader, l.follower_seq_nums[q], s.decided_idx) >>
                        ELSE IF l.accepted_indexes[q] # s.accepted_idx
                               THEN << AcceptStopSign(l.n_leader, l.follower_seq_nums[q], s.stopsign) >>
                               ELSE << >>
                 ELSE << >>
  IN  /\ state[p][1] = "Leader"
      /\ Called(p, [q \in Server |-> outgoing[p][q] \o resent(q)])
      /\ UNCHANGED state

\* In phase Prepare there is always a promise to send again.
resend_messages_follower(p) ==
  LET cached == follower_state[p].cached_promise_message
  IN  /\ state[p][1] = "Follower"
      /\ state[p][2] \in {"Prepare", "Recover"}
      /\ IF state[p][2] = "Prepare" /\ cached # None
           THEN /\ Called(p, send(outgoing[p], cached.n.pid, cached))
                /\ UNCHANGED state
           ELSE /\ Called(p, push(outgoing[p], [q \in Peers(p) |-> PrepareReq(storage[p].promise)]))
                /\ state' = [state EXCEPT ![p] = << "Follower", "Recover" >>]

resend_message_timeout(p) ==
  /\ p \notin panicked
  /\ Spend("resend", p)
  /\ resend_messages_leader(p) \/ resend_messages_follower(p)
  /\ UNCHANGED << storage, leader_state, follower_state, buffered_proposals,
                  buffered_stopsign, panicked, proposed >>

flush_batch_leader(p) ==
  /\ state[p] = << "Leader", "Accept" >>
  /\ accepts(p, flush_batch(storage[p]), storage[p].batched_entries, net)
  /\ UNCHANGED follower_state

flush_batch_follower(p) ==
  LET s == flush_batch(storage[p])
      f == follower_state[p]
  IN  /\ state[p] = << "Follower", "Accept" >>
      /\ storage' = [storage EXCEPT ![p] = s]
      /\ follower_state' = [follower_state EXCEPT ![p] = reply_accepted_meta(f, outgoing[p], s.promise)]
      /\ Called(p, reply_accepted_outgoing(f, outgoing[p], s.promise, s.accepted_idx))
      /\ UNCHANGED leader_state

flush_batch_timeout(p) ==
  /\ p \notin panicked
  /\ Spend("flush", p)
  /\ storage[p].batched_entries # << >>
  /\ flush_batch_leader(p) \/ flush_batch_follower(p)
  /\ UNCHANGED << state, buffered_proposals, buffered_stopsign, panicked, proposed >>

------------------------------------------------------------------------------
(* The handler of every message, and the steps of the environment *)

\* The handler of m returns early at p.
ignored(p, m) ==
  \/ m.type = "PrepareReq" /\ ~ answers_preparereq(p, m)
  \/ m.type = "Prepare" /\ ~ accepts_prepare(p, m)
  \/ /\ m.type = "Promise"
     /\ state[p][1] # "Leader" \/ ~ counts_promise(p, m)
  \/ /\ m.type \in AcceptTypes
     /\ m.n = storage[p].promise
     /\ ~ in_phase(p, m) \/ msg_status(p, m) = "Outdated"
  \/ m.type = "Accepted" /\ ~ counts_accepted(p, m)
  \/ m.type = "NotAccepted" /\ ~ loses_promise(p, m)
  \/ m.type \in {"ProposalForward", "ForwardStopSign"} /\ accepted_reconfiguration(storage[p])

ignore(p, q) ==
  /\ p \notin panicked
  /\ net[q][p] # << >>
  /\ ignored(p, Head(net[q][p]))
  /\ Discard(p, q)

handle(p, q) ==
  /\ \/ handle_preparereq(p, q)
     \/ handle_prepare(p, q)
     \/ handle_promise_prepare(p, q)
     \/ handle_promise_accept(p, q)
     \/ handle_acceptsync(p, q)
     \/ handle_acceptdecide(p, q)
     \/ handle_notaccepted(p, q)
     \/ handle_accepted(p, q)
     \/ handle_decide(p, q)
     \/ handle_forwarded_proposal(p, q)
     \/ handle_compaction(p, q)
     \/ handle_accept_stopsign(p, q)
     \/ handle_forwarded_stopsign(p, q)
     \/ reject_ballot(p, q)
     \/ dropped_preceding(p, q)
     \/ ignore(p, q)
  /\ UNCHANGED << proposed, budget >>

\* The user is told that the connection to q is back.
user_reconnected(p, q) ==
  /\ p \notin panicked
  /\ Spend("reconnect", p)
  /\ reconnected(p, q, outgoing[p], net)
  /\ UNCHANGED << storage, leader_state, follower_state, buffered_proposals,
                  buffered_stopsign, panicked, proposed >>

take_outgoing_msgs(p) ==
  /\ ~ EagerTake
  /\ p \notin panicked
  /\ outgoing[p] # NoMessages
  /\ net' = Transmit(net, p, outgoing[p])
  /\ outgoing' = [outgoing EXCEPT ![p] = NoMessages]
  /\ leader_state' = [leader_state EXCEPT ![p] = reset_latest_accept_meta(@)]
  /\ follower_state' = [follower_state EXCEPT ![p].latest_accepted_meta = [n |-> DefaultBallot, idx |-> 0]]
  /\ UNCHANGED << storage, state, buffered_proposals, buffered_stopsign, panicked, proposed, budget >>

\* The network loses the oldest message from q to p.
drop(p, q) ==
  /\ net[q][p] # << >>
  /\ Spend("drop", p)
  /\ net' = Consume(p, q)
  /\ UNCHANGED << serverVars, outgoing, panicked, proposed >>

\* A crash and the recovery of SequencePaxos::with from the persistent state.
restart(p) ==
  LET s == load_cache(storage[p])
  IN  /\ Spend("restart", p)
      /\ storage' = [storage EXCEPT ![p] = s]
      /\ state' = [state EXCEPT ![p] = << "Follower", "Recover" >>]
      /\ leader_state' = [leader_state EXCEPT ![p] = LeaderState_with(s.promise)]
      /\ follower_state' = [follower_state EXCEPT ![p] = DefaultFollowerState]
      /\ buffered_proposals' = [buffered_proposals EXCEPT ![p] = << >>]
      /\ buffered_stopsign' = [buffered_stopsign EXCEPT ![p] = None]
      /\ panicked' = panicked \ {p}
      /\ Called(p, push(NoMessages, [q \in Peers(p) |-> PrepareReq(s.promise)]))
      /\ UNCHANGED proposed

------------------------------------------------------------------------------
Init ==
  /\ storage = [p \in Server |-> EmptyStorage]
  /\ state = [p \in Server |-> << "Follower", "None" >>]
  /\ leader_state = [p \in Server |-> LeaderState_with(DefaultBallot)]
  /\ follower_state = [p \in Server |-> DefaultFollowerState]
  /\ buffered_proposals = [p \in Server |-> << >>]
  /\ buffered_stopsign = [p \in Server |-> None]
  /\ outgoing = [p \in Server |-> NoMessages]
  /\ net = [p \in Server |-> NoMessages]
  /\ panicked = {}
  /\ proposed = {}
  /\ budget = Budget

Next ==
  \/ \E p \in Server, n \in Ballots : handle_leader(p, n)
  \/ \E p \in Server : \E q \in Peers(p) : handle(p, q)
  \/ \E p \in Server, v \in Value : append(p, v)
  \/ \E p \in Server, ss \in StopSign : reconfigure(p, ss)
  \/ \E p \in Server : \E idx \in 1 .. storage[p].decided_idx : trim(p, idx)
  \/ \E p \in Server, local_only \in BOOLEAN :
       \E idx \in {None} \cup 1 .. storage[p].decided_idx : snapshot(p, idx, local_only)
  \/ \E p \in Server : resend_message_timeout(p)
  \/ \E p \in Server : flush_batch_timeout(p)
  \/ \E p \in Server : \E q \in Peers(p) : user_reconnected(p, q)
  \/ \E p \in Server : take_outgoing_msgs(p)
  \/ \E p \in Server : \E q \in Peers(p) : drop(p, q)
  \/ \E p \in Server : restart(p)

Spec == Init /\ [][Next]_vars

------------------------------------------------------------------------------
(* Properties *)

FollowerState ==
  [current_seq_num : SequenceNumber, cached_promise_message : PromiseMessage \cup {None},
   latest_accepted_meta : [n : Ballot, idx : Nat]]

\* Every variable of every server has its type, and so has every message.
TypeOK ==
  /\ storage \in [Server -> Storage]
  /\ state \in [Server -> {"Leader", "Follower"} \X {"Prepare", "Accept", "Recover", "None"}]
  /\ leader_state \in [Server -> LeaderStates]
  /\ follower_state \in [Server -> FollowerState]
  /\ buffered_proposals \in [Server -> Entries]
  /\ buffered_stopsign \in [Server -> StopSign \cup {None}]
  /\ outgoing \in [Server -> [Server -> Seq(Message)]]
  /\ net \in [Server -> [Server -> Seq(Message)]]
  /\ panicked \subseteq Server
  /\ proposed \subseteq Proposals
  /\ budget \in [Bounded -> [Server -> Nat]]

\* The log with the stop sign as its last entry, from compacted_idx on.
LogWithStopSign(s) == IF s.stopsign = None THEN s.log ELSE Append(s.log, s.stopsign)

\* The indices whose entry the server still has, in its log or its snapshot.
Held(s) ==
  (s.compacted_idx + 1 .. s.compacted_idx + Len(LogWithStopSign(s)))
  \cup (IF s.snapshot = None THEN {} ELSE 1 .. Len(s.snapshot))

EntryAt(s, i) ==
  IF i > s.compacted_idx THEN LogWithStopSign(s)[i - s.compacted_idx] ELSE s.snapshot[i]

\* The server has the entry, or trimmed it.
Keeps(s, i) == i \in Held(s) \/ (i <= s.compacted_idx /\ s.snapshot = None)

SameEntry(s, t, i) ==
  i \in Held(s) \cap Held(t) => EntryAt(s, i) = EntryAt(t, i)

\* No two servers ever decide different entries at an index, whatever the
\* elections, losses and crashes: the decided_idx of handle_accepted,
\* update_decided_idx and sync_log.
Agreement ==
  \A p, q \in Server :
    \A i \in 1 .. minimum(storage[p].decided_idx, storage[q].decided_idx) :
      SameEntry(storage[p], storage[q], i)

\* Every decided entry is kept by a write quorum, so it survives a crash:
\* what is_chosen counts is really in the logs.
DecidedIsDurable ==
  \A p \in Server :
    \A i \in 1 .. storage[p].decided_idx :
      Cardinality({q \in Server : Keeps(storage[q], i) /\ SameEntry(storage[p], storage[q], i)})
        >= WriteQuorum

\* Servers that accepted in the same round have logs of which one is a prefix of
\* the other: send_accsync finds the right common prefix and the sequence
\* numbers leave no gap.
LogMatching ==
  \A p, q \in Server :
    storage[p].accepted_round = storage[q].accepted_round =>
      \A i \in 1 .. minimum(storage[p].accepted_idx, storage[q].accepted_idx) :
        SameEntry(storage[p], storage[q], i)

\* A leader that has left the Prepare phase has every entry decided in its own
\* or an earlier round: handle_majority_promises adopts the right log.
LeaderCompleteness ==
  \A p, q \in Server :
    /\ state[p] = << "Leader", "Accept" >>
    /\ storage[q].accepted_round \preceq leader_state[p].n_leader
    => \A i \in 1 .. storage[q].decided_idx :
         /\ i <= storage[p].accepted_idx
         /\ SameEntry(storage[p], storage[q], i)

\* What the leader counts as accepted by q in its round, q has stored, across
\* batching, crashes of q and replies merged in its outgoing messages.
AckedIsStored ==
  \A p, q \in Server :
    /\ state[p] = << "Leader", "Accept" >>
    /\ leader_state[p].accepted_indexes[q] > 0
    /\ storage[q].accepted_round \preceq leader_state[p].n_leader
    => /\ storage[q].accepted_round = leader_state[p].n_leader
       /\ leader_state[p].accepted_indexes[q] <= storage[q].accepted_idx

\* A value that was proposed once is never in a log twice, although proposals
\* are buffered, forwarded, batched and synchronised.
NoDuplicates ==
  \A p \in Server :
    LET entries == storage[p].log \o storage[p].batched_entries
    IN  \A i, j \in DOMAIN entries : entries[i] = entries[j] => i = j

\* get_accepted_idx is "the length of the replicated log, as if log was never
\* compacted": the cached value is what a restart would compute.
AcceptedIdxIsLogLength ==
  \A p \in Server : storage[p].accepted_idx = load_cache(storage[p]).accepted_idx

\* Nobody decides more than it has accepted ("To maintain decided index <=
\* accepted index, batched entries may be flushed").
DecidedIsAccepted == \A p \in Server : storage[p].decided_idx <= storage[p].accepted_idx

\* No handler panics.
NoPanic == panicked = {}

\* "Should never happen": no accept message of a ballot the receiver has not
\* promised is on its way (check_valid_ballot).
NeverUnpromised ==
  \A p \in Server : \A q \in Peers(p) :
    \A i \in DOMAIN net[q][p] :
      net[q][p][i].type \in AcceptTypes => net[q][p][i].n \preceq storage[p].promise

\* A decided entry is never replaced or removed, by whatever a later leader
\* synchronises (sync_log) and through crashes; it may only be compacted.
DecidedIsStable ==
  [][\A p \in Server : \A i \in 1 .. storage[p].decided_idx :
       i \in Held(storage[p]) =>
         /\ Keeps(storage'[p], i)
         /\ SameEntry(storage[p], storage'[p], i)]_vars

\* A server takes back a decided index only as a follower that the leader of a
\* later round synchronises (sync_log assigns the index of the AcceptSync): a
\* leader never does when it adopts a log (get_max_decided_idx), and neither do
\* Accepted, AcceptDecide and Decide messages that arrive late.
DecidedIdxAdvances ==
  [][\A p \in Server :
       storage'[p].decided_idx < storage[p].decided_idx =>
         /\ state'[p] = << "Follower", "Accept" >>
         /\ storage[p].accepted_round \prec storage'[p].accepted_round]_vars

\* The rounds a server promised and accepted in never go back, not even through
\* a crash, and it accepts only in rounds it promised.
RoundsAdvance ==
  [][\A p \in Server :
       /\ storage[p].promise \preceq storage'[p].promise
       /\ storage[p].accepted_round \preceq storage'[p].accepted_round
       /\ storage'[p].accepted_round \preceq storage'[p].promise]_vars

\* "If it gets decided, the log is sealed and prevented from being further
\* appended": the stop sign stays, nothing is batched or stored behind it, and
\* snapshots do not swallow it.
LogIsSealed ==
  [][\A p \in Server : stopsign_is_decided(storage[p]) =>
       /\ storage'[p].stopsign = storage[p].stopsign
       /\ storage'[p].batched_entries = << >>
       /\ load_cache(storage'[p]).accepted_idx = storage[p].accepted_idx]_vars

\* What a server trimmed every server has accepted, so nobody needs it to be
\* synchronised (get_min_all_accepted_idx, try_trim).
TrimmedIsAcceptedByAll ==
  \A p, q \in Server : storage[p].compacted_idx <= storage[q].accepted_idx
==============================================================================
