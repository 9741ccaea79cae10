---------------------------- MODULE ErasureProofs ----------------------------
(***************************************************************************)
(* SequencePaxosEC for every cluster, every set of ballots and proposals   *)
(* and any number of losses, crashes and timeouts: its variables keep      *)
(* their types, the rounds of a server never go back, and a server that    *)
(* never leads holds nothing but fragments encoded for it.                 *)
(*                                                                         *)
(* The handlers that are those of SequencePaxos preserve the invariant of  *)
(* SequencePaxosProofs by the lemmas there.  The ones that differ encode   *)
(* what they store and send, and send to who has not promised, too.        *)
(***************************************************************************)
EXTENDS SequencePaxosProofs, SequencePaxosEC, FiniteSetTheorems

\* What the theorems are about: entries are pieces of what users propose.
CodedEntries == Coded /\ Value = Piece

------------------------------------------------------------------------------
(* Encoding *)

\* A server has an index in the fragments of a value.
LEMMA FragmentIndexType ==
  ASSUME NEW p \in Server
  PROVE  fragment_index_for_node(p) \in Nat
<1>1. Cardinality(Server) \in Nat /\ Cardinality(Server) > 0 /\ p \in Nat
  BY ServerAssumption, QuorumAssumption, FS_CardinalityType
<1> DEFINE N == Cardinality(Server)
<1> HIDE DEF N
<1>2. N \in Nat /\ N > 0 => p % N \in Nat
  BY <1>1
<1> QED BY <1>1, <1>2 DEF N, fragment_index_for_node

\* The data itself is a piece, and so is its encoding.
LEMMA PieceType ==
  ASSUME CodedEntries
  PROVE  /\ \A v \in Data \cup StopSign : raw(v) \in Value /\ << raw(v) >> \in Entries
         /\ \A e \in Value, idx \in Nat :
              /\ encode(e, idx) \in Value
              /\ encode(e, idx).of = e.of /\ encode(e, idx).path = Append(e.path, idx)
<1>1. ASSUME NEW v \in Data \cup StopSign PROVE raw(v) \in Value /\ << raw(v) >> \in Entries
  <2>1. raw(v) \in Piece
    BY EmptySeq DEF raw, Piece
  <2> QED BY <2>1 DEF CodedEntries, Entries
<1>2. ASSUME NEW e \in Value, NEW idx \in Nat
      PROVE  /\ encode(e, idx) \in Value
             /\ encode(e, idx).of = e.of /\ encode(e, idx).path = Append(e.path, idx)
  <2>1. e \in [of : Data \cup StopSign, path : Seq(Nat)]
    BY DEF CodedEntries, Piece
  <2> DEFINE path == Append(e.path, idx)
  <2>2. path \in Seq(Nat)
    BY <2>1, AppendProperties
  <2>3. encode(e, idx) = [e EXCEPT !.path = path]
    BY DEF encode
  <2> HIDE DEF path
  <2>4. /\ encode(e, idx) \in [of : Data \cup StopSign, path : Seq(Nat)]
        /\ encode(e, idx).of = e.of /\ encode(e, idx).path = path
    BY <2>1, <2>2, <2>3
  <2> QED BY <2>4 DEF CodedEntries, Piece, path
<1> QED BY <1>1, <1>2

\* The fragments of entries for a server are entries, as many.
LEMMA FragmentsType ==
  ASSUME CodedEntries, NEW p \in Server, NEW entries \in Entries
  PROVE  /\ fragments_for(entries, p) \in Entries
         /\ Len(fragments_for(entries, p)) = Len(entries)
         /\ \A i \in 1 .. Len(entries) :
              fragments_for(entries, p)[i] = encode(entries[i], fragment_index_for_node(p))
<1> DEFINE idx == fragment_index_for_node(p)
           f == [i \in 1 .. Len(entries) |-> encode(entries[i], idx)]
<1>1. Len(entries) \in Nat /\ DOMAIN entries = 1 .. Len(entries)
  BY LenProperties DEF Entries
<1>2. \A i \in 1 .. Len(entries) : encode(entries[i], idx) \in Value
  BY <1>1, FragmentIndexType, PieceType, ElementOfSeq DEF Entries
<1>3. fragments_for(entries, p) = f
  BY <1>1 DEF fragments_for
<1> HIDE DEF idx
<1>4. f \in Seq(Value) /\ Len(f) = Len(entries)
  BY <1>1, <1>2, IsASeq, LenProperties
<1> QED BY <1>3, <1>4 DEF Entries, idx

------------------------------------------------------------------------------
(* Accepting at the leader *)

\* numbered gives new sequence numbers and leaves the promises alone.
LEMMA NumberedOK ==
  ASSUME NEW l \in LeaderStates, NEW Q
  PROVE  numbered(l, Q) \in LeaderStates /\ SamePromises(l, numbered(l, Q))
<1> DEFINE sns == [r \in Slots |-> IF r \in Q THEN next_seq_num(l.follower_seq_nums[r])
                                              ELSE l.follower_seq_nums[r]]
<1>1. sns \in [Slots -> SequenceNumber]
  BY SequenceNumberType DEF LeaderStates
<1>2. numbered(l, Q) = [l EXCEPT !.follower_seq_nums = sns]
  BY DEF numbered
<1> HIDE DEF sns
<1> QED BY <1>1, <1>2, SequenceNumbersOK

\* The bookkeeping of send_acceptdecide.
LEMMA AcceptdecideStateOK ==
  ASSUME NEW l \in LeaderStates, NEW p, NEW entries
  PROVE  /\ acceptdecide_leader_state(p, l, entries) \in LeaderStates
         /\ SamePromises(l, acceptdecide_leader_state(p, l, entries))
BY NumberedOK DEF acceptdecide_leader_state, SamePromises

\* send_acceptdecide sends to every peer, promised or not.
LEMMA SendAcceptdecideOK ==
  ASSUME CodedEntries, NEW p \in Server, NEW s, NEW out, OutOK(p, s, out),
         NEW l \in LeaderStates, l.n_leader.pid \in Server,
         NEW decided_idx \in Nat, NEW entries \in Entries
  PROVE  OutOK(p, s, send_acceptdecide(p, l, out, decided_idx, entries))
<1> DEFINE msgs == [q \in Peers(p) |->
                      AcceptDecide(l.n_leader, next_seq_num(l.follower_seq_nums[q]), decided_idx,
                                   fragments_for(entries, q))]
<1>1. ASSUME NEW q \in Server, q \in DOMAIN msgs PROVE msgs[q] \in Sendable(p, s, q)
  <2> DEFINE sn == next_seq_num(l.follower_seq_nums[q])
             f == fragments_for(entries, q)
  <2>1. msgs[q] = AcceptDecide(l.n_leader, sn, decided_idx, f)
    BY <1>1
  <2>2. sn \in SequenceNumber
    BY ServersHaveSlots, SequenceNumberType DEF LeaderStates
  <2>3. f \in Entries
    BY FragmentsType
  <2>4. l.n_leader \in Ballot
    BY DEF LeaderStates
  <2> HIDE DEF sn, f
  <2>5. msgs[q] \in Message /\ msgs[q].type = "AcceptDecide" /\ msgs[q].n = l.n_leader
    BY <2>1, <2>2, <2>3, <2>4 DEF AcceptDecide, Message
  <2> HIDE DEF msgs
  <2> QED BY <2>5 DEF Sendable, Broadcast, CodedEntries
<1>2. send_acceptdecide(p, l, out, decided_idx, entries) \in {out, push(out, msgs)}
  BY DEF send_acceptdecide
<1> HIDE DEF msgs
<1> QED BY <1>1, <1>2, PushOK

\* Whoever leads the Accept phase, or the Prepare phase, has a pid.
LEMMA LeaderIsServer ==
  ASSUME Inv, NEW p \in Server, p \notin panicked, state[p][1] = "Leader"
  PROVE  leader_state[p].n_leader = storage[p].promise /\ leader_state[p].n_leader.pid \in Server
BY DEF Inv, RoleInv, RoleOK

\* accept_entries_leader and flush_batch_leader, from the storage on.
LEMMA ECAcceptsOK ==
  ASSUME CodedEntries, Inv, NEW p \in Server, p \notin panicked, state[p][1] = "Leader",
         NEW s, StorageOK(s), SameRounds(storage[p], s),
         NEW entries \in Entries, NEW chan, ChanOK(chan), ec_accepts(p, s, entries, chan),
         UNCHANGED << state, follower_state, panicked >>, RestOK'
  PROVE  Inv' /\ RoundsStep
<1> DEFINE l1 == set_accepted_idx(leader_state[p], p, s.accepted_idx)
           l2 == acceptdecide_leader_state(p, l1, entries)
           out == send_acceptdecide(p, l1, outgoing[p], s.decided_idx, entries)
<1>1. RoundsOK(p, s) /\ s.decided_idx \in Nat /\ s.accepted_idx \in Nat
  BY StoredOK DEF StorageOK, Storage
<1>2. OutOK(p, s, outgoing[p])
  BY <1>1, OutgoingOK
<1>3. PromisesOK(p, s, leader_state[p]) /\ CachedOK(s, follower_state[p])
  BY <1>1, KeptPromisesOK
<1>4. l1 \in LeaderStates /\ SamePromises(leader_state[p], l1)
  BY <1>1, KeptOK, ServersHaveSlots, SetAcceptedIdxOK
<1>5. /\ storage' = [storage EXCEPT ![p] = s]
      /\ leader_state' = [leader_state EXCEPT ![p] = l2]
      /\ EndCall(p, out, chan)
  BY DEF ec_accepts
<1> HIDE DEF l1
<1>6. l2 \in LeaderStates /\ SamePromises(l1, l2)
  BY <1>4, AcceptdecideStateOK
<1>7. l1.n_leader = leader_state[p].n_leader /\ l1.n_leader.pid \in Server
  BY <1>4, LeaderIsServer DEF SamePromises
<1>8. OutOK(p, s, out)
  BY <1>1, <1>2, <1>4, <1>7, SendAcceptdecideOK
<1> HIDE DEF l2, out
<1>9. PromisesOK(p, s, l2)
  BY <1>3, <1>4, <1>6, SamePromisesOK
<1>10. p \notin panicked => RoleOK(state[p], s, l2)
  BY <1>4, <1>6 DEF SamePromises, SameRounds, Inv, RoleInv, RoleOK
<1> QED BY <1>1, <1>3, <1>5, <1>6, <1>8, <1>9, <1>10, KeptOK, CallPreservesInv

\* accept_stopsign_leader.
LEMMA ECAcceptStopSignOK ==
  ASSUME CodedEntries, Inv, NEW p \in Server, p \notin panicked, state[p][1] = "Leader",
         NEW ss \in StopSign, NEW chan, ChanOK(chan), ec_accept_stopsign_leader(p, ss, chan),
         UNCHANGED << state, follower_state, panicked >>, RestOK'
  PROVE  Inv' /\ RoundsStep
<1> DEFINE s == append_stopsign(storage[p], ss)
           l0 == leader_state[p]
           announced == IF storage[p].batched_entries = << >> THEN << >> ELSE << raw(ss) >>
           l1 == acceptdecide_leader_state(p, l0, announced)
           out1 == send_acceptdecide(p, l0, outgoing[p], s.decided_idx, announced)
           Q == get_promised_followers(l1) \cap Server
           la == set_accepted_idx(l1, p, s.accepted_idx)
           l2 == numbered(la, Q)
           msgs == [q \in Q |-> AcceptStopSign(l2.n_leader, l2.follower_seq_nums[q], ss)]
<1>1. /\ storage' = [storage EXCEPT ![p] = s]
      /\ leader_state' = [leader_state EXCEPT ![p] = l2]
      /\ EndCall(p, push(out1, msgs), chan)
  BY DEF ec_accept_stopsign_leader
<1>2. StorageOK(s) /\ SameRounds(storage[p], s)
  BY KeptOK, AppendStopSignOK DEF RoundsOK
<1>3. announced \in Entries
  BY PieceType, EmptySeq DEF Entries
<1> HIDE DEF s, announced
<1>4. RoundsOK(p, s) /\ s.decided_idx \in Nat /\ s.accepted_idx \in Nat
  BY <1>2, StoredOK DEF StorageOK, Storage
<1>5. OutOK(p, s, outgoing[p]) /\ PromisesOK(p, s, l0) /\ CachedOK(s, follower_state[p])
  BY <1>4, OutgoingOK, KeptPromisesOK
<1>6. l0 \in LeaderStates /\ l0.n_leader.pid \in Server
  BY KeptOK, LeaderIsServer
<1>7. l1 \in LeaderStates /\ SamePromises(l0, l1)
  BY <1>6, AcceptdecideStateOK
<1>8. OutOK(p, s, out1)
  BY <1>3, <1>4, <1>5, <1>6, SendAcceptdecideOK
<1> HIDE DEF l0, l1, out1
<1>9. la \in LeaderStates /\ SamePromises(l1, la)
  BY <1>4, <1>7, ServersHaveSlots, SetAcceptedIdxOK
<1> HIDE DEF la
<1>10. l2 \in LeaderStates /\ SamePromises(la, l2)
  BY <1>9, NumberedOK
<1> HIDE DEF l2
<1>11. PromisesOK(p, s, l2) /\ l2.n_leader = l0.n_leader
  BY <1>5, <1>7, <1>9, <1>10, SamePromisesOK DEF SamePromises
<1>12. ASSUME NEW q \in Server, q \in DOMAIN msgs
       PROVE  msgs[q] \in Sendable(p, s, q)
  <2>1. q \in Slots /\ is_promised(l1, q) /\ msgs[q] = AcceptStopSign(l2.n_leader, l2.follower_seq_nums[q], ss)
    BY <1>12 DEF get_promised_followers
  <2>2. is_promised(l2, q)
    BY <2>1, <1>9, <1>10 DEF SamePromises
  <2>3. l2.n_leader \in Ballot /\ l2.follower_seq_nums[q] \in SequenceNumber
    BY <2>1, <1>10 DEF LeaderStates
  <2>4. msgs[q] \in Message /\ msgs[q].type = "AcceptStopSign" /\ msgs[q].n = l2.n_leader
    BY <2>1, <2>3 DEF AcceptStopSign, Message
  <2> HIDE DEF msgs
  <2> QED BY <2>2, <2>4, <1>11, AcceptSendable DEF AcceptTypes
<1>13. OutOK(p, s, push(out1, msgs))
  BY <1>8, <1>12, PushOK
<1>14. p \notin panicked => RoleOK(state[p], s, l2)
  BY <1>2, <1>11 DEF SameRounds, Inv, RoleInv, RoleOK, l0
<1> HIDE DEF msgs
<1> QED BY <1>1, <1>4, <1>5, <1>10, <1>11, <1>13, <1>14, KeptOK, CallPreservesInv

------------------------------------------------------------------------------
(* Proposals *)

\* accept_entries_leader stores the leader's fragments, and sends those of the
\* call if the batch is full.
LEMMA ECAcceptEntriesOK ==
  ASSUME CodedEntries, Inv, NEW p \in Server, p \notin panicked, state[p][1] = "Leader",
         NEW entries \in Entries, NEW chan, ChanOK(chan), ec_accept_entries_leader(p, entries, chan),
         UNCHANGED << state, follower_state, panicked >>, RestOK'
  PROVE  Inv' /\ RoundsStep
<1> DEFINE own == fragments_for(entries, p)
           s == append_entries_with_batching(storage[p], own)
<1>1. own \in Entries
  BY FragmentsType
<1>2. \/ ec_accepts(p, s, entries, chan)
      \/ /\ storage' = [storage EXCEPT ![p] = s]
         /\ EndCall(p, outgoing[p], chan)
         /\ leader_state' = leader_state
  BY DEF ec_accept_entries_leader
<1> HIDE DEF own
<1>3. StorageOK(s) /\ SameRounds(storage[p], s)
  BY <1>1, KeptOK, AppendWithBatchingOK DEF RoundsOK
<1> HIDE DEF s
<1>4. OutOK(p, s, outgoing[p])
  BY <1>3, StoredOK, OutgoingOK
<1>5. CASE ec_accepts(p, s, entries, chan)
  BY <1>3, <1>5, ECAcceptsOK
<1>6. CASE ~ ec_accepts(p, s, entries, chan)
  BY <1>2, <1>3, <1>4, <1>6, StoresOK
<1> QED BY <1>5, <1>6

\* propose_entry and handle_forwarded_proposal.
LEMMA ECProposeEntriesOK ==
  ASSUME CodedEntries, Inv, NEW p \in Server, p \notin panicked,
         NEW entries \in Entries, NEW chan, ChanOK(chan), ec_propose_entries(p, entries, chan),
         UNCHANGED << state, follower_state, buffered_stopsign, panicked >>,
         proposed' \subseteq Proposals, budget' = budget
  PROVE  Inv' /\ RoundsStep
<1>1. CASE propose_entries(p, entries, chan)
  BY <1>1, ProposeEntriesOK
<1>2. CASE ~ propose_entries(p, entries, chan)
  <2>1. /\ state[p] = << "Leader", "Accept" >>
        /\ ec_accept_entries_leader(p, entries, chan)
        /\ buffered_proposals' = buffered_proposals
    BY <1>2 DEF ec_propose_entries
  <2>2. RestOK'
    BY <2>1, KeptOK DEF RestOK
  <2>3. state[p][1] = "Leader"
    BY <2>1
  <2> QED BY <2>1, <2>2, <2>3, ECAcceptEntriesOK
<1> QED BY <1>1, <1>2

\* reconfigure and handle_forwarded_stopsign.
LEMMA ECProposeStopSignOK ==
  ASSUME CodedEntries, Inv, NEW p \in Server, p \notin panicked,
         NEW ss \in StopSign, NEW chan, ChanOK(chan), ec_propose_stopsign(p, ss, chan),
         UNCHANGED << state, follower_state, buffered_proposals, panicked >>,
         proposed' \subseteq Proposals, budget' = budget
  PROVE  Inv' /\ RoundsStep
<1>1. CASE propose_stopsign(p, ss, chan)
  BY <1>1, ProposeStopSignOK
<1>2. CASE ~ propose_stopsign(p, ss, chan)
  <2>1. /\ state[p] = << "Leader", "Accept" >>
        /\ ec_accept_stopsign_leader(p, ss, chan)
        /\ buffered_stopsign' = buffered_stopsign
    BY <1>2 DEF ec_propose_stopsign
  <2>2. RestOK'
    BY <2>1, KeptOK DEF RestOK
  <2>3. state[p][1] = "Leader"
    BY <2>1
  <2> QED BY <2>1, <2>2, <2>3, ECAcceptStopSignOK
<1> QED BY <1>1, <1>2

\* append, reconfigure and the handlers of forwarded proposals.
LEMMA ECProposalsOK ==
  ASSUME CodedEntries, Inv, NEW p \in Server
  PROVE  /\ \A v \in Data : ec_append(p, v) => Inv' /\ RoundsStep
         /\ \A ss \in StopSign : ec_reconfigure(p, ss) => Inv' /\ RoundsStep
         /\ \A q \in Server :
              /\ UNCHANGED << proposed, budget >>
              /\ ec_handle_forwarded_proposal(p, q) \/ ec_handle_forwarded_stopsign(p, q)
              => Inv' /\ RoundsStep
<1>1. RestOK /\ ChanOK(net)
  BY KeptOK, ChannelsOK
<1>2. ASSUME NEW v \in Data, ec_append(p, v) PROVE Inv' /\ RoundsStep
  <2>1. << raw(v) >> \in Entries
    BY PieceType
  <2>2. proposed' \subseteq Proposals
    BY <1>1, <1>2 DEF ec_append, RestOK
  <2> QED BY <1>1, <1>2, <2>1, <2>2, ECProposeEntriesOK DEF ec_append
<1>3. ASSUME NEW ss \in StopSign, ec_reconfigure(p, ss) PROVE Inv' /\ RoundsStep
  <2>1. proposed' \subseteq Proposals
    BY <1>1, <1>3 DEF ec_reconfigure, RestOK
  <2> QED BY <1>1, <1>3, <2>1, ECProposeStopSignOK DEF ec_reconfigure
<1>4. ASSUME NEW q \in Server, UNCHANGED << proposed, budget >>, ec_handle_forwarded_proposal(p, q)
      PROVE  Inv' /\ RoundsStep
  <2>1. p \notin panicked /\ net[q][p] # << >> /\ Head(net[q][p]).type = "ProposalForward"
    BY <1>4 DEF ec_handle_forwarded_proposal, Incoming
  <2>2. Head(net[q][p]).entries \in Entries
    BY <2>1, IncomingMessage, MessageFields
  <2>3. ChanOK(Consume(p, q)) /\ proposed' \subseteq Proposals
    BY <2>1, <1>1, <1>4, ChannelsOK DEF RestOK
  <2> QED BY <1>4, <2>1, <2>2, <2>3, ECProposeEntriesOK DEF ec_handle_forwarded_proposal
<1>5. ASSUME NEW q \in Server, UNCHANGED << proposed, budget >>, ec_handle_forwarded_stopsign(p, q)
      PROVE  Inv' /\ RoundsStep
  <2>1. p \notin panicked /\ net[q][p] # << >> /\ Head(net[q][p]).type = "ForwardStopSign"
    BY <1>5 DEF ec_handle_forwarded_stopsign, Incoming
  <2>2. Head(net[q][p]).ss \in StopSign
    BY <2>1, IncomingMessage, MessageFields
  <2>3. ChanOK(Consume(p, q)) /\ proposed' \subseteq Proposals
    BY <2>1, <1>1, <1>5, ChannelsOK DEF RestOK
  <2> QED BY <1>5, <2>1, <2>2, <2>3, ECProposeStopSignOK DEF ec_handle_forwarded_stopsign
<1> QED BY <1>2, <1>3, <1>4, <1>5

------------------------------------------------------------------------------
(* Synchronising followers *)

\* An AcceptSync with what was encoded for q.
IsSync(q, m) ==
  m.type = "AcceptSync" /\ \E entries \in Entries : m.log_sync.suffix = fragments_for(entries, q)

\* send_accsync sends what the log sync of SequencePaxos has, encoded.
LEMMA CodedSyncOK ==
  ASSUME CodedEntries, NEW p, NEW s, NEW l, NEW q \in Server, accsync_message(s, l, q) \in Sendable(p, s, q)
  PROVE  ec_accsync_message(s, l, q) \in Sendable(p, s, q) /\ IsSync(q, ec_accsync_message(s, l, q))
<1> DEFINE m == accsync_message(s, l, q)
           sync == coded_log_sync(m.log_sync, q)
           x == [m EXCEPT !.log_sync = sync]
<1>1. ec_accsync_message(s, l, q) = x
  BY DEF ec_accsync_message
<1>2. m.type = "AcceptSync"
  BY DEF accsync_message, AcceptSync
<1>3. m \in Sendable(p, s, q)
  OBVIOUS
<1> HIDE DEF m
<1>4. m \in [type : {"AcceptSync"}, n : Ballot, seq_num : SequenceNumber,
             decided_idx : Nat, log_sync : LogSync]
  BY <1>2, <1>3 DEF Sendable, Message, PromiseMessage
<1>5. m.log_sync \in LogSync /\ m.log_sync.suffix \in Entries
  BY <1>4 DEF LogSync
<1>6. sync = [m.log_sync EXCEPT !.suffix = fragments_for(m.log_sync.suffix, q)]
  BY DEF coded_log_sync
<1>7. sync \in LogSync /\ sync.suffix = fragments_for(m.log_sync.suffix, q)
  BY <1>5, <1>6, FragmentsType DEF LogSync
<1> HIDE DEF sync
<1>8. /\ x \in [type : {"AcceptSync"}, n : Ballot, seq_num : SequenceNumber,
                decided_idx : Nat, log_sync : LogSync]
      /\ x.type = "AcceptSync" /\ x.n = m.n /\ x.log_sync = sync
  BY <1>4, <1>7
<1>9. x \in Message
  BY <1>8 DEF Message
<1> HIDE DEF x
<1>10. x \in Sendable(p, s, q)
  BY <1>2, <1>3, <1>8, <1>9 DEF Sendable, Broadcast
<1> QED BY <1>1, <1>5, <1>7, <1>8, <1>10 DEF IsSync

\* p counted a promise of q, and maybe synchronised q or all who promised.
SentSync(p, q) ==
  \/ \E s, msgs :
       /\ storage' = [storage EXCEPT ![p] = s]
       /\ EndCall(p, push(outgoing[p], msgs), Consume(p, q))
       /\ \A r \in Server : r \in DOMAIN msgs => IsSync(r, msgs[r])
  \/ \E m :
       /\ storage' = storage
       /\ EndCall(p, send(outgoing[p], q, m), Consume(p, q))
       /\ IsSync(q, m)
  \/ storage' = storage /\ EndCall(p, outgoing[p], Consume(p, q))

\* handle_majority_promises.
LEMMA ECMajorityPromisesOK ==
  ASSUME CodedEntries, Inv, NEW p \in Server, NEW q \in Server, net[q][p] # << >>,
         NEW l \in LeaderStates, l.n_leader = storage[p].promise, l.n_leader.pid \in Server,
         PromisesOK(p, storage[p], l),
         ec_handle_majority_promises(p, q, l), UNCHANGED << proposed, budget >>
  PROVE  Inv' /\ RoundsStep /\ (Panic(p, q) \/ SentSync(p, q))
<1> DEFINE s1 == sync_log(storage[p], l.n_leader, get_max_decided_idx(l), l.max_promise_sync)
           stopped == accepted_reconfiguration(s1)
           s2 == IF stopped THEN s1 ELSE append_entries_without_batching(s1, buffered_proposals[p])
           s3 == IF stopped \/ buffered_stopsign[p] = None
                   THEN s2 ELSE append_stopsign(s2, buffered_stopsign[p])
           Q == get_promised_followers(l) \cap Server
           la == set_accepted_idx(l, p, s3.accepted_idx)
           lb == [la EXCEPT !.max_promise_sync = None]
           l1 == accsync_leader_state(lb, Q)
           sync_panics == sync_log_panics(storage[p], get_max_decided_idx(l), l.max_promise_sync)
           msgs == [r \in Q |-> ec_accsync_message(s3, l1, r)]
           st == << "Leader", "Accept" >>
<1>1. CASE sync_panics
  <2>1. storage' = storage /\ Panic(p, q)
    BY <1>1 DEF ec_handle_majority_promises
  <2> QED BY <2>1, KeptOK, PanicOK
<1>2. CASE ~ sync_panics
  <2>1. RoundsOK(p, s3) /\ StorageOK(s3) /\ s3.promise = storage[p].promise
    BY <1>2, AdoptedLogOK
  <2>2. /\ storage' = [storage EXCEPT ![p] = s3]
        /\ \/ Panic(p, q)
           \/ /\ \A r \in Q : ~ send_accsync_panics(s3, l1, r)
              /\ state' = [state EXCEPT ![p] = st]
              /\ leader_state' = [leader_state EXCEPT ![p] = l1]
              /\ buffered_proposals' \in {buffered_proposals, [buffered_proposals EXCEPT ![p] = << >>]}
              /\ buffered_stopsign' \in {buffered_stopsign, [buffered_stopsign EXCEPT ![p] = None]}
              /\ EndCall(p, push(outgoing[p], msgs), Consume(p, q))
              /\ UNCHANGED << follower_state, panicked >>
    BY <1>2 DEF ec_handle_majority_promises, Handled
  <2> HIDE DEF s3
  <2>3. CASE Panic(p, q)
    BY <2>1, <2>2, <2>3, PanicOK
  <2>4. CASE ~ Panic(p, q)
    <3>1. s3.accepted_idx \in Nat
      BY <2>1 DEF StorageOK, Storage
    <3>2. la \in LeaderStates /\ SamePromises(l, la)
      BY <3>1, ServersHaveSlots, SetAcceptedIdxOK
    <3> HIDE DEF la
    <3>3. lb \in LeaderStates /\ SamePromises(la, lb)
      BY <3>2 DEF LeaderStates, SamePromises, is_promised
    <3> HIDE DEF lb
    <3>4. PromisesOK(p, s3, lb) /\ lb.n_leader = s3.promise
      BY <2>1, <3>2, <3>3, SamePromisesOK, PromisesKeptOK DEF SamePromises
    <3>5. /\ l1 \in LeaderStates /\ l1.n_leader = s3.promise /\ PromisesOK(p, s3, l1)
          /\ \A r \in Server : is_promised(lb, r) /\ ~ send_accsync_panics(s3, l1, r) =>
                                 accsync_message(s3, l1, r) \in Sendable(p, s3, r)
      BY <2>1, <3>3, <3>4, AccSyncOK
    <3> HIDE DEF l1
    <3>6. \A r \in Q : r \in Slots /\ is_promised(lb, r)
      BY <3>2, <3>3 DEF get_promised_followers, SamePromises
    <3>7. \A r \in Server : r \in DOMAIN msgs => accsync_message(s3, l1, r) \in Sendable(p, s3, r)
      BY <2>2, <2>4, <3>5, <3>6
    <3>8. \A r \in Server : r \in DOMAIN msgs => msgs[r] \in Sendable(p, s3, r) /\ IsSync(r, msgs[r])
      BY <3>7, CodedSyncOK
    <3> HIDE DEF msgs
    <3>9. OutOK(p, s3, push(outgoing[p], msgs)) /\ CachedOK(s3, follower_state[p])
      BY <2>1, <3>8, OutgoingOK, PushOK, KeptPromisesOK
    <3>10. RestOK' /\ ChanOK(Consume(p, q))
      <4>1. << >> \in Entries /\ RestOK
        BY KeptOK, EmptySeq DEF Entries
      <4>2. buffered_proposals' \in [Server -> Entries]
        BY <2>2, <2>4, <4>1 DEF RestOK
      <4>3. buffered_stopsign' \in [Server -> StopSign \cup {None}]
        BY <2>2, <2>4, <4>1 DEF RestOK
      <4> QED BY <4>1, <4>2, <4>3, ChannelsOK DEF RestOK
    <3>11. st \in States /\ RoleOK(st, s3, l1)
      BY <2>1, <3>5 DEF States, RoleOK
    <3> HIDE DEF st
    <3>12. SentSync(p, q)
      BY <2>2, <2>4, <3>8 DEF SentSync
    <3> QED BY <2>1, <2>2, <2>4, <3>5, <3>9, <3>10, <3>11, <3>12, KeptOK, CallPreservesInv
  <2> QED BY <2>3, <2>4
<1> QED BY <1>1, <1>2

\* handle_promise_prepare.
LEMMA ECHandlePromisePrepareOK ==
  ASSUME CodedEntries, Inv, NEW p \in Server, NEW q \in Server, ec_handle_promise_prepare(p, q),
         UNCHANGED << proposed, budget >>
  PROVE  Inv' /\ RoundsStep /\ (Panic(p, q) \/ SentSync(p, q))
<1> DEFINE m == Head(net[q][p])
           l == set_promise(leader_state[p], q, PromiseMeta(m), m.log_sync, TRUE)
<1>1. /\ p \notin panicked /\ net[q][p] # << >> /\ m.type = "Promise"
      /\ state[p] = << "Leader", "Prepare" >> /\ m.n = leader_state[p].n_leader
      /\ \/ ec_handle_majority_promises(p, q, l)
         \/ ~ has_prepare_quorum(l) /\ handle_promise_prepare(p, q)
  BY DEF ec_handle_promise_prepare, counts_promise, Incoming
<1> state[p][1] = "Leader"
  BY <1>1
<1>2. l \in LeaderStates /\ l.n_leader = leader_state[p].n_leader /\ PromisesOK(p, storage[p], l)
  BY <1>1, CountPromiseOK
<1> HIDE DEF l
<1>3. l.n_leader = storage[p].promise /\ l.n_leader.pid \in Server
  BY <1>1, <1>2 DEF Inv, RoleInv, RoleOK
<1>4. CASE ec_handle_majority_promises(p, q, l)
  BY <1>1, <1>2, <1>3, <1>4, ECMajorityPromisesOK
<1>5. CASE ~ has_prepare_quorum(l) /\ handle_promise_prepare(p, q)
  <2>1. storage' = storage /\ EndCall(p, outgoing[p], Consume(p, q))
    BY <1>5 DEF handle_promise_prepare, Handled, l
  <2> QED BY <1>5, <2>1, HandlePromisePrepareOK DEF SentSync
<1> QED BY <1>1, <1>4, <1>5

\* handle_promise_accept.
LEMMA ECHandlePromiseAcceptOK ==
  ASSUME CodedEntries, Inv, NEW p \in Server, NEW q \in Server, ec_handle_promise_accept(p, q),
         UNCHANGED << proposed, budget >>
  PROVE  Inv' /\ RoundsStep /\ (Panic(p, q) \/ SentSync(p, q))
<1> DEFINE m == Head(net[q][p])
           l0 == set_promise(leader_state[p], q, PromiseMeta(m), m.log_sync, FALSE)
           l == accsync_leader_state(l0, {q})
           msg == ec_accsync_message(storage[p], l, q)
<1>1. /\ p \notin panicked /\ net[q][p] # << >> /\ m.type = "Promise"
      /\ state[p] = << "Leader", "Accept" >> /\ m.n = leader_state[p].n_leader
      /\ \/ send_accsync_panics(storage[p], l, q) /\ handle_promise_accept(p, q)
         \/ /\ ~ send_accsync_panics(storage[p], l, q)
            /\ leader_state' = [leader_state EXCEPT ![p] = l]
            /\ EndCall(p, send(outgoing[p], q, msg), Consume(p, q))
            /\ UNCHANGED << storage, state, follower_state, buffered_proposals, buffered_stopsign, panicked >>
  BY DEF ec_handle_promise_accept, counts_promise, Incoming, Handled
<1>2. CASE send_accsync_panics(storage[p], l, q)
  <2>1. handle_promise_accept(p, q) /\ Panic(p, q)
    BY <1>1, <1>2 DEF handle_promise_accept
  <2> QED BY <2>1, HandlePromiseAcceptOK
<1>3. CASE ~ send_accsync_panics(storage[p], l, q)
  <2> state[p][1] = "Leader"
    BY <1>1
  <2>1. /\ l0 \in LeaderStates /\ l0.n_leader = leader_state[p].n_leader
        /\ PromisesOK(p, storage[p], l0) /\ is_promised(l0, q)
    BY <1>1, CountPromiseOK
  <2> HIDE DEF l0
  <2>2. StorageOK(storage[p])
    BY KeptOK DEF RoundsOK
  <2>3. /\ l \in LeaderStates /\ l.n_leader = leader_state[p].n_leader /\ PromisesOK(p, storage[p], l)
        /\ accsync_message(storage[p], l, q) \in Sendable(p, storage[p], q)
    BY <1>1, <1>3, <2>1, <2>2, AccSyncOK
  <2>4. msg \in Sendable(p, storage[p], q) /\ IsSync(q, msg)
    BY <2>3, CodedSyncOK
  <2> HIDE DEF l, msg
  <2>5. OutOK(p, storage[p], send(outgoing[p], q, msg))
    BY <2>4, KeptOK, OutgoingOK, SendOK
  <2>6. RestOK' /\ ChanOK(Consume(p, q))
    BY <1>1, <1>3, KeptOK, ChannelsOK DEF RestOK
  <2>7. SentSync(p, q)
    BY <1>1, <1>3, <2>4 DEF SentSync
  <2> QED BY <1>1, <1>3, <2>3, <2>5, <2>6, <2>7, BookkeepingOK
<1> QED BY <1>2, <1>3

------------------------------------------------------------------------------
(* Timeouts *)

\* flush_batch_timeout.
LEMMA ECFlushTimeoutOK ==
  ASSUME CodedEntries, Inv, NEW p \in Server, ec_flush_batch_timeout(p)
  PROVE  Inv' /\ RoundsStep
<1>1. /\ p \notin panicked /\ Spend("flush", p)
      /\ UNCHANGED << state, buffered_proposals, buffered_stopsign, panicked, proposed >>
      /\ \/ ec_flush_batch_leader(p)
         \/ flush_batch_follower(p) /\ storage[p].batched_entries # << >>
         \/ UNCHANGED << storage, leader_state, follower_state, outgoing, net >>
  BY DEF ec_flush_batch_timeout
<1>2. RestOK' /\ ChanOK(net)
  BY <1>1, KeptOK, SpendOK, ChannelsOK DEF RestOK, Bounded
<1>3. StorageOK(storage[p])
  BY KeptOK DEF RoundsOK
<1>4. CASE ec_flush_batch_leader(p)
  <2> DEFINE s == flush_batch(storage[p])
  <2>1. /\ state[p] = << "Leader", "Accept" >>
        /\ ec_accepts(p, s, storage[p].batched_entries, net) /\ follower_state' = follower_state
    BY <1>4 DEF ec_flush_batch_leader
  <2>2. StorageOK(s) /\ SameRounds(storage[p], s) /\ storage[p].batched_entries \in Entries
    BY <1>3, FlushBatchOK DEF StorageOK, Storage
  <2> HIDE DEF s
  <2>3. state[p][1] = "Leader"
    BY <2>1
  <2> QED BY <1>1, <1>2, <2>1, <2>2, <2>3, ECAcceptsOK
<1>5. CASE flush_batch_follower(p) /\ storage[p].batched_entries # << >>
  <2>1. flush_batch_timeout(p)
    BY <1>1, <1>5 DEF flush_batch_timeout
  <2> QED BY <2>1, FlushTimeoutOK
<1>6. CASE UNCHANGED << storage, leader_state, follower_state, outgoing, net >>
  <2>1. Ends(p, outgoing[p], net)
    BY <1>6 DEF Ends
  <2>2. /\ leader_state' = [leader_state EXCEPT ![p] = leader_state[p]]
        /\ follower_state' = [follower_state EXCEPT ![p] = follower_state[p]]
        /\ leader_state[p] \in LeaderStates /\ follower_state[p] \in FollowerState
        /\ SamePromises(leader_state[p], leader_state[p])
    BY <1>6, KeptOK DEF SamePromises
  <2> QED BY <1>1, <1>2, <1>6, <2>1, <2>2, MessagesOnlyOK
<1> QED BY <1>1, <1>4, <1>5, <1>6

------------------------------------------------------------------------------
(* The induction *)

\* Every handler of a message preserves the invariant.
LEMMA ECHandleOK ==
  ASSUME CodedEntries, Inv, NEW p \in Server, NEW q \in Server, ec_handle(p, q)
  PROVE  Inv' /\ RoundsStep
<1> UNCHANGED << proposed, budget >>
  BY DEF ec_handle
<1>1. CASE handle_prepare(p, q)
  BY <1>1, HandlePrepareOK
<1>2. CASE handle_acceptsync(p, q)
  BY <1>2, HandleAcceptSyncOK
<1>3. CASE handle_acceptdecide(p, q) \/ handle_accept_stopsign(p, q) \/ handle_decide(p, q)
  BY <1>3, FollowersOK
<1>4. CASE handle_preparereq(p, q)
  BY <1>4, HandlePrepareReqOK
<1>5. CASE handle_accepted(p, q)
  BY <1>5, HandleAcceptedOK
<1>6. CASE handle_notaccepted(p, q)
  BY <1>6, HandleNotAcceptedOK
<1>7. CASE ec_handle_promise_prepare(p, q)
  BY <1>7, ECHandlePromisePrepareOK
<1>8. CASE ec_handle_promise_accept(p, q)
  BY <1>8, ECHandlePromiseAcceptOK
<1>9. CASE ec_handle_forwarded_proposal(p, q) \/ ec_handle_forwarded_stopsign(p, q)
  BY <1>9, ECProposalsOK
<1>10. CASE handle_compaction(p, q)
  BY <1>10, HandleCompactionOK
<1>11. CASE reject_ballot(p, q) \/ dropped_preceding(p, q)
  BY <1>11, RefusedOK
<1>12. CASE ignore(p, q)
  BY <1>12, EnvironmentOK
<1> QED BY <1>1, <1>2, <1>3, <1>4, <1>5, <1>6, <1>7, <1>8, <1>9, <1>10, <1>11, <1>12
  DEF ec_handle, ec_handle_as_follower, ec_handle_as_leader, ec_refuse

\* Every step preserves the invariant and moves the rounds forward.
LEMMA ECNextOK ==
  ASSUME CodedEntries, Inv, [ECNext]_vars
  PROVE  Inv' /\ (RoundsStep \/ UNCHANGED vars)
<1>0. Ballots \subseteq Ballot
  BY PaxosAssumption
<1>1. ASSUME NEW p \in Server, NEW n \in Ballot, handle_leader(p, n) PROVE Inv' /\ RoundsStep
  BY <1>1, HandleLeaderOK
<1>2. ASSUME NEW p \in Server, NEW q \in Peers(p), ec_handle(p, q) PROVE Inv' /\ RoundsStep
  BY <1>2, ECHandleOK DEF Peers
<1>3. ASSUME NEW p \in Server, NEW v \in Data, ec_append(p, v) PROVE Inv' /\ RoundsStep
  BY <1>3, ECProposalsOK
<1>4. ASSUME NEW p \in Server, NEW ss \in StopSign, ec_reconfigure(p, ss) PROVE Inv' /\ RoundsStep
  BY <1>4, ECProposalsOK
<1>5. ASSUME NEW p \in Server, NEW idx \in 1 .. storage[p].decided_idx, trim(p, idx)
      PROVE  Inv' /\ RoundsStep
  <2>1. idx \in Nat
    BY KeptOK DEF RoundsOK, StorageOK, Storage
  <2> QED BY <1>5, <2>1, TrimOK
<1>6. ASSUME NEW p \in Server, NEW local_only \in BOOLEAN,
             NEW idx \in {None} \cup 1 .. storage[p].decided_idx, snapshot(p, idx, local_only)
      PROVE  Inv' /\ RoundsStep
  <2>1. idx \in Nat \cup {None}
    BY KeptOK DEF RoundsOK, StorageOK, Storage
  <2> QED BY <1>6, <2>1, SnapshotOK
<1>7. ASSUME NEW p \in Server, resend_message_timeout(p) PROVE Inv' /\ RoundsStep
  BY <1>7, ResendTimeoutOK
<1>8. ASSUME NEW p \in Server, ec_flush_batch_timeout(p) PROVE Inv' /\ RoundsStep
  BY <1>8, ECFlushTimeoutOK
<1>9. ASSUME NEW p \in Server, NEW q \in Peers(p), user_reconnected(p, q) PROVE Inv' /\ RoundsStep
  BY <1>9, UserReconnectedOK DEF Peers
<1>10. ASSUME NEW p \in Server, take_outgoing_msgs(p) PROVE Inv' /\ RoundsStep
  BY <1>10, EnvironmentOK
<1>11. ASSUME NEW p \in Server, NEW q \in Peers(p), drop(p, q) PROVE Inv' /\ RoundsStep
  BY <1>11, EnvironmentOK DEF Peers
<1>12. ASSUME NEW p \in Server, restart(p) PROVE Inv' /\ RoundsStep
  BY <1>12, RestartOK
<1>13. CASE UNCHANGED vars
  BY <1>13 DEF vars, serverVars, Inv, TypeOK, StorageInv, RoleInv, PromiseInv, CachedInv, ChannelInv, Sendable
<1>14. CASE ECNext
  BY <1>0, <1>1, <1>2, <1>3, <1>4, <1>5, <1>6, <1>7, <1>8, <1>9, <1>10, <1>11, <1>12, <1>14
    DEF ECNext, ec_handle_leader, ec_trim, ec_snapshot, ec_resend_message_timeout, ec_reconnected,
        ec_take_outgoing_msgs, ec_restart
<1> QED BY <1>13, <1>14

\* The invariant holds in every reachable state.
THEOREM ECInvariance ==
  ASSUME CodedEntries
  PROVE  ECSpec => []Inv
<1>1. Inv /\ [ECNext]_vars => Inv'
  BY ECNextOK
<1> QED BY <1>1, InitOK, PTL DEF ECSpec

\* The variables keep their types: whatever is encoded, also once more by a new
\* leader, is a piece of something that was proposed.
THEOREM ECTypeCorrectness ==
  ASSUME CodedEntries
  PROVE  ECSpec => []TypeOK
<1>1. Inv => TypeOK
  BY DEF Inv
<1> QED BY <1>1, ECInvariance, PTL

\* The promise and the accepted round of a server never go back, and it accepts
\* in rounds it promised only, although it is sent entries of others as well.
THEOREM ECRoundsNeverGoBack ==
  ASSUME CodedEntries
  PROVE  ECSpec => RoundsAdvance
<1>1. Inv /\ [ECNext]_vars =>
        [\A p \in Server :
           /\ storage[p].promise \preceq storage'[p].promise
           /\ storage[p].accepted_round \preceq storage'[p].accepted_round
           /\ storage'[p].accepted_round \preceq storage'[p].promise]_vars
  BY ECNextOK DEF RoundsStep
<1> QED BY <1>1, ECInvariance, PTL DEF ECSpec, RoundsAdvance

------------------------------------------------------------------------------
(* Whose fragments a server stores.  Whatever is sent to a server was last  *)
(* encoded for it, by whoever led at the time, and a server that never      *)
(* leads stores nothing else.                                               *)

\* Pieces that were last encoded for p.
Own(p) == {e \in Value : e.path # << >> /\ e.path[Len(e.path)] = fragment_index_for_node(p)}

Elected == {n.pid : n \in Ballots}

\* s holds and batches entries of E only.
StoresOnly(s, E) == s.log \in Seq(E) /\ s.batched_entries \in Seq(E)

\* The entries in m are for q.
Fits(q, m) ==
  /\ m.type = "AcceptSync" => m.log_sync.suffix \in Seq(Own(q))
  /\ m.type = "AcceptDecide" => m.entries \in Seq(Own(q))

AllFit(q, msgs) == \E S : msgs \in Seq(S) /\ \A m \in S : Fits(q, m)

OutFits(out) == \A q \in Server \ Elected : AllFit(q, out[q])

ChanFits(chan) == \A x \in Server, q \in Server \ Elected : AllFit(q, chan[x][q])

OwnInv ==
  /\ \A p \in Server \ Elected : state[p][1] = "Follower" /\ StoresOnly(storage[p], Own(p))
  /\ ChanFits(outgoing) /\ ChanFits(net)

\* Messages of the other types have no entries.
LEMMA OthersFit ==
  ASSUME NEW q, NEW m, m.type \notin {"AcceptSync", "AcceptDecide"}
  PROVE  Fits(q, m)
BY DEF Fits

\* No message, one more, those of two sequences, all but the first.
LEMMA FitSequences ==
  ASSUME NEW q
  PROVE  /\ AllFit(q, << >>)
         /\ \A s, m : AllFit(q, s) /\ Fits(q, m) => AllFit(q, Append(s, m))
         /\ \A s, t : AllFit(q, s) /\ AllFit(q, t) => AllFit(q, s \o t)
         /\ \A s : AllFit(q, s) /\ s # << >> => AllFit(q, Tail(s)) /\ Fits(q, Head(s))
<1>1. AllFit(q, << >>)
  <2> DEFINE S == {}
  <2>1. << >> \in Seq(S) /\ \A m \in S : Fits(q, m)
    BY EmptySeq
  <2> HIDE DEF S
  <2> QED BY <2>1 DEF AllFit
<1>2. ASSUME NEW s, NEW m, AllFit(q, s), Fits(q, m) PROVE AllFit(q, Append(s, m))
  <2>1. PICK S : s \in Seq(S) /\ \A x \in S : Fits(q, x)
    BY <1>2 DEF AllFit
  <2> DEFINE T == S \cup {m}
  <2>2. s \in Seq(T) /\ m \in T /\ \A x \in T : Fits(q, x)
    BY <1>2, <2>1, SeqMonotonic
  <2> HIDE DEF T
  <2>3. Append(s, m) \in Seq(T)
    BY <2>2, AppendProperties
  <2> QED BY <2>2, <2>3 DEF AllFit
<1>3. ASSUME NEW s, NEW t, AllFit(q, s), AllFit(q, t) PROVE AllFit(q, s \o t)
  <2>1. PICK S : s \in Seq(S) /\ \A x \in S : Fits(q, x)
    BY <1>3 DEF AllFit
  <2>2. PICK T : t \in Seq(T) /\ \A x \in T : Fits(q, x)
    BY <1>3 DEF AllFit
  <2> DEFINE U == S \cup T
  <2>3. s \in Seq(U) /\ t \in Seq(U) /\ \A x \in U : Fits(q, x)
    BY <2>1, <2>2, SeqMonotonic
  <2> HIDE DEF U
  <2>4. s \o t \in Seq(U)
    BY <2>3, ConcatProperties
  <2> QED BY <2>3, <2>4 DEF AllFit
<1>4. ASSUME NEW s, AllFit(q, s), s # << >> PROVE AllFit(q, Tail(s)) /\ Fits(q, Head(s))
  <2>1. PICK S : s \in Seq(S) /\ \A x \in S : Fits(q, x)
    BY <1>4 DEF AllFit
  <2>2. Tail(s) \in Seq(S) /\ Head(s) \in S
    BY <1>4, <2>1, HeadTailProperties
  <2> QED BY <2>1, <2>2 DEF AllFit
<1> QED BY <1>1, <1>2, <1>3, <1>4

\* A message that is changed in place.
LEMMA FitOverwrite ==
  ASSUME NEW q, NEW s, AllFit(q, s), NEW k, NEW e,
         k \in 1 .. Len(s) /\ Fits(q, s[k]) => Fits(q, e)
  PROVE  AllFit(q, [s EXCEPT ![k] = e])
<1>1. PICK S : s \in Seq(S) /\ \A x \in S : Fits(q, x)
  BY DEF AllFit
<1> DEFINE T == S \cup (IF k \in 1 .. Len(s) THEN {e} ELSE {})
<1>2. k \in 1 .. Len(s) => s[k] \in S
  BY <1>1, ElementOfSeq
<1>3. s \in Seq(T) /\ \A x \in T : Fits(q, x)
  BY <1>1, <1>2, SeqMonotonic
<1>4. k \in 1 .. Len(s) => e \in T
  OBVIOUS
<1> HIDE DEF T
<1>5. [s EXCEPT ![k] = e] \in Seq(T)
  BY <1>3, <1>4, OverwriteOK
<1> QED BY <1>3, <1>5 DEF AllFit

\* send and push.
LEMMA FitSend ==
  ASSUME NEW out, out = [q \in Server |-> out[q]], OutFits(out)
  PROVE  /\ \A r, m : (r \in Server \ Elected => Fits(r, m)) => OutFits(send(out, r, m))
         /\ \A msgs : (\A q \in Server \ Elected : q \in DOMAIN msgs => Fits(q, msgs[q]))
                        => OutFits(push(out, msgs))
<1>1. ASSUME NEW r, NEW m, r \in Server \ Elected => Fits(r, m) PROVE OutFits(send(out, r, m))
  <2>1. send(out, r, m) = [q \in Server |-> IF q = r THEN Append(out[q], m) ELSE out[q]]
    BY DEF send
  <2>2. ASSUME NEW q \in Server \ Elected PROVE AllFit(q, send(out, r, m)[q])
    <3>1. AllFit(q, out[q])
      BY DEF OutFits
    <3>2. q = r => AllFit(q, Append(out[q], m))
      BY <1>1, <3>1, FitSequences
    <3> QED BY <2>1, <3>1, <3>2
  <2> QED BY <2>2 DEF OutFits
<1>2. ASSUME NEW msgs, \A q \in Server \ Elected : q \in DOMAIN msgs => Fits(q, msgs[q])
      PROVE  OutFits(push(out, msgs))
  <2>1. push(out, msgs) = [q \in Server |-> IF q \in DOMAIN msgs THEN Append(out[q], msgs[q]) ELSE out[q]]
    BY DEF push
  <2>2. ASSUME NEW q \in Server \ Elected PROVE AllFit(q, push(out, msgs)[q])
    <3>1. AllFit(q, out[q])
      BY DEF OutFits
    <3>2. q \in DOMAIN msgs => AllFit(q, Append(out[q], msgs[q]))
      BY <1>2, <3>1, FitSequences
    <3> QED BY <2>1, <3>1, <3>2
  <2> QED BY <2>2 DEF OutFits
<1> QED BY <1>1, <1>2

\* A call leaves p with the storage s and the role st, and stores and sends
\* what fits.
Fitting(p, s, st, out, chan) ==
  /\ storage' \in {storage, [storage EXCEPT ![p] = s]}
  /\ state' \in {state, [state EXCEPT ![p] = st]}
  /\ p \notin Elected => st[1] = "Follower" /\ StoresOnly(s, Own(p))
  /\ Ends(p, out, chan) /\ OutFits(out)
  /\ ChanFits(chan) /\ chan \in [Server -> [Server -> Seq(Message)]]

\* Such a call keeps every server to its fragments.
LEMMA OwnCall ==
  ASSUME Inv, OwnInv, NEW p \in Server, NEW s, NEW st, NEW out, NEW chan,
         Fitting(p, s, st, out, chan)
  PROVE  OwnInv'
<1> USE DEF Fitting
<1>0. storage \in [Server -> Storage] /\ DOMAIN state = Server
  BY DEF Inv, TypeOK
<1>1. \A q \in Server \ Elected : state'[q][1] = "Follower" /\ StoresOnly(storage'[q], Own(q))
  BY <1>0 DEF OwnInv
<1>2. \A x \in Server, q \in Server \ Elected :
        /\ AllFit(q, outgoing[x][q]) /\ AllFit(q, chan[x][q]) /\ AllFit(q, out[q])
        /\ AllFit(q, NoMessages[q]) /\ AllFit(q, chan[x][q] \o out[q])
  BY FitSequences DEF OwnInv, ChanFits, OutFits, NoMessages
<1>3. outgoing \in [Server -> [Server -> Seq(Message)]]
  BY DEF Inv, TypeOK
<1>4. ASSUME NEW x \in Server, NEW q \in Server \ Elected
      PROVE  AllFit(q, outgoing'[x][q])
  BY <1>2, <1>3 DEF Ends
<1>5. ASSUME NEW x \in Server, NEW q \in Server \ Elected
      PROVE  AllFit(q, net'[x][q])
  <2>1. CASE net' = chan
    BY <1>2, <2>1
  <2>2. CASE net' = Transmit(chan, p, out)
    <3>1. net'[x][q] \in {chan[x][q], chan[x][q] \o out[q]}
      BY <2>2 DEF Transmit
    <3> QED BY <1>2, <3>1
  <2> QED BY <2>1, <2>2 DEF Ends
<1> QED BY <1>1, <1>4, <1>5 DEF OwnInv, ChanFits

\* What a call starts from.
LEMMA OwnBefore ==
  ASSUME Inv, OwnInv, NEW p \in Server
  PROVE  /\ OutFits(outgoing[p]) /\ outgoing[p] = [q \in Server |-> outgoing[p][q]]
         /\ OutFits(NoMessages) /\ NoMessages = [q \in Server |-> NoMessages[q]]
         /\ ChanFits(net) /\ net \in [Server -> [Server -> Seq(Message)]]
         /\ p \notin Elected => state[p][1] = "Follower" /\ StoresOnly(storage[p], Own(p))
         /\ \A q \in Server : net[q][p] # << >> =>
              /\ ChanFits(Consume(p, q)) /\ Consume(p, q) \in [Server -> [Server -> Seq(Message)]]
              /\ p \notin Elected => Fits(p, Head(net[q][p]))
<1>1. TypeOK
  BY DEF Inv
<1>2. OutFits(outgoing[p]) /\ outgoing[p] = [q \in Server |-> outgoing[p][q]]
  BY <1>1 DEF TypeOK, OwnInv, OutFits, ChanFits
<1>3. OutFits(NoMessages) /\ NoMessages = [q \in Server |-> NoMessages[q]]
  BY FitSequences DEF OutFits, NoMessages
<1>4. ChanFits(net) /\ net \in [Server -> [Server -> Seq(Message)]]
  BY <1>1 DEF TypeOK, OwnInv
<1>5. p \notin Elected => state[p][1] = "Follower" /\ StoresOnly(storage[p], Own(p))
  BY DEF OwnInv
<1>6. ASSUME NEW q \in Server, net[q][p] # << >>
      PROVE  /\ ChanFits(Consume(p, q)) /\ Consume(p, q) \in [Server -> [Server -> Seq(Message)]]
             /\ p \notin Elected => Fits(p, Head(net[q][p]))
  <2>1. Consume(p, q) \in [Server -> [Server -> Seq(Message)]]
    BY <1>6, ChannelsOK DEF ChanOK
  <2>2. ASSUME NEW x \in Server, NEW r \in Server \ Elected PROVE AllFit(r, Consume(p, q)[x][r])
    <3>1. Consume(p, q)[x][r] = IF x = q /\ r = p THEN Tail(net[x][r]) ELSE net[x][r]
      BY <1>4 DEF Consume
    <3>2. AllFit(r, net[x][r])
      BY <1>4 DEF ChanFits
    <3> QED BY <1>6, <3>1, <3>2, FitSequences
  <2>3. p \notin Elected => Fits(p, Head(net[q][p]))
    BY <1>4, <1>6, FitSequences DEF ChanFits
  <2> QED BY <2>1, <2>2, <2>3 DEF ChanFits
<1> QED BY <1>2, <1>3, <1>4, <1>5, <1>6

\* Operations on the storage that add entries of E, or none, keep it to E.
LEMMA StoresOnlyAppends ==
  ASSUME NEW s \in Storage, NEW E, StoresOnly(s, E)
  PROVE  /\ StoresOnly(flush_batch(s), E)
         /\ \A n : StoresOnly([flush_batch(s) EXCEPT !.promise = n], E)
         /\ \A entries \in Seq(E) : StoresOnly(append_entries_with_batching(s, entries), E)
         /\ \A ss : StoresOnly(set_stopsign(flush_batch(s), ss), E)
         /\ \A d : StoresOnly(update_decided_idx(s, d), E)
         /\ StoresOnly(load_cache(s), E)
<1> DEFINE f == flush_batch(s)
           log == s.log \o s.batched_entries
           cleared == [s EXCEPT !.batched_entries = << >>]
<1>1. s.log \in Seq(E) /\ s.batched_entries \in Seq(E) /\ << >> \in Seq(E)
  BY EmptySeq DEF StoresOnly
<1>2. log \in Seq(E)
  BY <1>1, ConcatProperties
<1>3. /\ cleared = [promise |-> s.promise, accepted_round |-> s.accepted_round, decided_idx |-> s.decided_idx,
                    log |-> s.log, compacted_idx |-> s.compacted_idx, snapshot |-> s.snapshot,
                    stopsign |-> s.stopsign, accepted_idx |-> s.accepted_idx, batched_entries |-> << >>]
  BY DEF Storage
<1>4. f = [promise |-> s.promise, accepted_round |-> s.accepted_round, decided_idx |-> s.decided_idx,
           log |-> log, compacted_idx |-> s.compacted_idx, snapshot |-> s.snapshot,
           stopsign |-> s.stopsign, accepted_idx |-> s.accepted_idx + Len(s.batched_entries),
           batched_entries |-> << >>]
  <2>1. f = [cleared EXCEPT !.log = cleared.log \o s.batched_entries,
                         !.accepted_idx = cleared.accepted_idx + Len(s.batched_entries)]
    BY DEF flush_batch, append_entries_without_batching
  <2> HIDE DEF f, cleared
  <2> QED BY <1>3, <2>1
<1> HIDE DEF log
<1>5. StoresOnly(f, E)
  BY <1>1, <1>2, <1>4 DEF StoresOnly
<1>6. \A n : StoresOnly([f EXCEPT !.promise = n], E)
  BY <1>1, <1>2, <1>4 DEF StoresOnly
<1>7. \A ss : StoresOnly(set_stopsign(f, ss), E)
  BY <1>1, <1>2, <1>4 DEF StoresOnly, set_stopsign
<1>8. \A d : StoresOnly(update_decided_idx(s, d), E)
  <2> TAKE d
  <2>1. StoresOnly([s EXCEPT !.decided_idx = d], E)
    BY <1>1 DEF StoresOnly, Storage
  <2>2. StoresOnly([f EXCEPT !.decided_idx = minimum(d, f.accepted_idx)], E)
    BY <1>1, <1>2, <1>4 DEF StoresOnly
  <2> HIDE DEF f
  <2>3. StoresOnly(s, E)
    OBVIOUS
  <2> QED BY <2>1, <2>2, <2>3 DEF update_decided_idx, f
<1>9. ASSUME NEW entries \in Seq(E) PROVE StoresOnly(append_entries_with_batching(s, entries), E)
  <2> DEFINE batch == s.batched_entries \o entries
             b == [s EXCEPT !.batched_entries = batch]
             full == s.log \o batch
  <2>1. batch \in Seq(E)
    BY <1>1, ConcatProperties
  <2>2. full \in Seq(E)
    BY <1>1, <2>1, ConcatProperties
  <2> HIDE DEF batch, full
  <2>3. StoresOnly(b, E)
    BY <1>1, <2>1 DEF StoresOnly, Storage
  <2>4. flush_batch(b).log = full /\ flush_batch(b).batched_entries = << >>
    BY DEF flush_batch, append_entries_without_batching, Storage, full
  <2>5. StoresOnly(flush_batch(b), E)
    BY <1>1, <2>2, <2>4 DEF StoresOnly
  <2>6. append_entries_with_batching(s, entries) \in {b, flush_batch(b)}
    BY DEF append_entries_with_batching, batch
  <2> HIDE DEF b
  <2> QED BY <2>3, <2>5, <2>6
<1>10. StoresOnly(load_cache(s), E)
  BY <1>1 DEF load_cache, StoresOnly, Storage
<1> QED BY <1>5, <1>6, <1>7, <1>8, <1>9, <1>10

\* What is cut from a log leaves entries that were there.
LEMMA StoresOnlyCuts ==
  ASSUME NEW s, StorageOK(s), NEW E, StoresOnly(s, E)
  PROVE  /\ \A idx \in Nat : StoresOnly(try_trim(s, idx), E)
         /\ \A idx \in Nat \cup {None} : StoresOnly(try_snapshot(s, idx), E)
<1>1. s \in Storage /\ s.compacted_idx \in Nat /\ s.decided_idx \in Nat /\ s.log \in Seq(E)
  BY DEF StorageOK, Storage, StoresOnly
<1>2. ASSUME NEW k \in Nat, k > s.compacted_idx
      PROVE  compact(s, k).log \in Seq(E) /\ compact(s, k).batched_entries = s.batched_entries
             /\ compact(s, k) \in Storage
  <2>1. k - s.compacted_idx \in Nat
    BY <1>1, <1>2
  <2>2. drain(s.log, k - s.compacted_idx) \in Seq(E)
    BY <1>1, <2>1, DrainType
  <2>3. compact(s, k).log = drain(s.log, k - s.compacted_idx)
        /\ compact(s, k).batched_entries = s.batched_entries
    BY <1>1 DEF compact, Storage
  <2> QED BY <1>2, <2>2, <2>3, CompactOK DEF StorageOK
<1>3. ASSUME NEW idx \in Nat PROVE StoresOnly(try_trim(s, idx), E)
  <2> DEFINE k == compaction_idx(s, idx)
  <2>1. k \in Nat
    BY CompactionIdxType
  <2>2. \/ try_trim(s, idx) = s
        \/ k > s.compacted_idx /\ try_trim(s, idx) = compact(s, k)
    BY DEF try_trim
  <2> HIDE DEF k
  <2> QED BY <1>2, <2>1, <2>2 DEF StoresOnly
<1>4. ASSUME NEW idx \in Nat \cup {None} PROVE StoresOnly(try_snapshot(s, idx), E)
  <2> DEFINE i == IF idx = None THEN s.decided_idx ELSE idx
             k == compaction_idx(s, i)
             snap == create_snapshot(s, k)
             c == compact(s, k)
  <2>1. k \in Nat
    BY <1>1, CompactionIdxType
  <2>2. \/ try_snapshot(s, idx) = s
        \/ k > s.compacted_idx /\ try_snapshot(s, idx) = [c EXCEPT !.snapshot = snap]
    BY DEF try_snapshot
  <2>3. k > s.compacted_idx => c.log \in Seq(E) /\ c.batched_entries = s.batched_entries /\ c \in Storage
    BY <1>2, <2>1
  <2> HIDE DEF k, snap, c
  <2>4. c \in Storage => [c EXCEPT !.snapshot = snap].log = c.log
                         /\ [c EXCEPT !.snapshot = snap].batched_entries = c.batched_entries
    BY DEF Storage
  <2> QED BY <2>2, <2>3, <2>4 DEF StoresOnly
<1> QED BY <1>3, <1>4

\* A log that is synchronised with entries of E.
LEMMA StoresOnlySync ==
  ASSUME NEW s, StorageOK(s), NEW E, StoresOnly(s, E), NEW n, NEW d, NEW sync \in LogSync,
         sync.suffix \in Seq(E), ~ sync_log_panics(s, d, sync)
  PROVE  StoresOnly(sync_log(s, n, d, sync), E)
<1> DEFINE k == sync.sync_idx - s.compacted_idx
           log == IF sync.decided_snapshot.kind = "None" THEN truncate(s.log, k) \o sync.suffix ELSE sync.suffix
<1>1. s \in Storage /\ s.compacted_idx \in Nat /\ s.log \in Seq(E) /\ sync.sync_idx \in Nat /\ sync # None
  BY NoneAssumption DEF StorageOK, Storage, StoresOnly, LogSync
<1>2. k \in Nat
  BY <1>1 DEF sync_log_panics
<1>3. log \in Seq(E)
  BY <1>1, <1>2, TruncateType, ConcatProperties
<1>4. sync_log(s, n, d, sync).log = log /\ sync_log(s, n, d, sync).batched_entries = s.batched_entries
  BY <1>1 DEF sync_log, Storage
<1> QED BY <1>3, <1>4 DEF StoresOnly

\* Fragments for q were encoded for q.
LEMMA FragmentsFit ==
  ASSUME CodedEntries, NEW q \in Server
  PROVE  /\ \A entries \in Entries : fragments_for(entries, q) \in Seq(Own(q))
         /\ \A m : IsSync(q, m) => Fits(q, m)
<1>1. ASSUME NEW entries \in Entries PROVE fragments_for(entries, q) \in Seq(Own(q))
  <2> DEFINE idx == fragment_index_for_node(q)
             f == fragments_for(entries, q)
  <2>1. f \in Seq(Value) /\ Len(f) = Len(entries) /\ \A i \in 1 .. Len(entries) : f[i] = encode(entries[i], idx)
    BY FragmentsType DEF Entries
  <2> HIDE DEF f
  <2>2. ASSUME NEW i \in 1 .. Len(f) PROVE f[i] \in Own(q)
    <3>1. entries[i] \in Value /\ f[i] = encode(entries[i], idx) /\ f[i] \in Value
      BY <2>1, ElementOfSeq DEF Entries
    <3>2. f[i].path = Append(entries[i].path, idx) /\ entries[i].path \in Seq(Nat)
      BY <3>1, FragmentIndexType, PieceType DEF CodedEntries, Piece
    <3> DEFINE path == entries[i].path
               appended == Append(path, idx)
    <3>3. path \in Seq(Nat) /\ idx \in Nat /\ f[i].path = appended
      BY <3>2, FragmentIndexType
    <3> HIDE DEF path, idx
    <3>4. Len(path) \in Nat /\ Len(appended) = Len(path) + 1 /\ appended[Len(path) + 1] = idx
      BY <3>3, LenProperties, AppendProperties
    <3>5. appended # << >> /\ appended[Len(appended)] = idx
      BY <3>3, <3>4, AppendProperties
    <3> HIDE DEF appended
    <3> QED BY <3>1, <3>3, <3>5 DEF Own, idx
  <2>3. f \in Seq(Own(q))
    <3>1. Len(f) \in Nat /\ f = [i \in 1 .. Len(f) |-> f[i]]
      BY <2>1, LenProperties
    <3>2. [i \in 1 .. Len(f) |-> f[i]] \in Seq(Own(q))
      BY <2>2, <3>1, IsASeq
    <3> QED BY <3>1, <3>2
  <2> QED BY <2>3 DEF f
<1>2. ASSUME NEW m, IsSync(q, m) PROVE Fits(q, m)
  BY <1>1, <1>2 DEF IsSync, Fits
<1> QED BY <1>1, <1>2

\* A handler that panics.
LEMMA OwnPanic ==
  ASSUME Inv, OwnInv, NEW p \in Server, NEW q \in Server, net[q][p] # << >>, Panic(p, q),
         NEW s, storage' \in {storage, [storage EXCEPT ![p] = s]},
         p \notin Elected => StoresOnly(s, Own(p))
  PROVE  OwnInv'
<1>1. state' = state /\ Ends(p, outgoing[p], Consume(p, q))
  BY DEF Panic, Ends
<1>2. state' \in {state, [state EXCEPT ![p] = state[p]]}
  BY <1>1
<1>3. /\ p \notin Elected => state[p][1] = "Follower" /\ StoresOnly(s, Own(p))
      /\ OutFits(outgoing[p]) /\ ChanFits(Consume(p, q))
      /\ Consume(p, q) \in [Server -> [Server -> Seq(Message)]]
  BY OwnBefore
<1>4. Fitting(p, s, state[p], outgoing[p], Consume(p, q))
  BY <1>1, <1>2, <1>3 DEF Fitting
<1> QED BY <1>4, OwnCall

\* A call that changes no log.
LEMMA OwnUnstored ==
  ASSUME Inv, OwnInv, NEW p \in Server, storage' = storage,
         NEW st, state' \in {state, [state EXCEPT ![p] = st]}, p \notin Elected => st[1] = "Follower",
         NEW out, NEW chan, EndCall(p, out, chan) \/ Ends(p, out, chan), OutFits(out),
         ChanFits(chan), chan \in [Server -> [Server -> Seq(Message)]]
  PROVE  OwnInv'
<1>1. Ends(p, out, chan)
  BY DEF EndCall, Ends
<1>2. p \notin Elected => StoresOnly(storage[p], Own(p))
  BY OwnBefore
<1>3. Fitting(p, storage[p], st, out, chan)
  BY <1>1, <1>2 DEF Fitting
<1> QED BY <1>3, OwnCall

\* A call that changes no role.
LEMMA OwnStored ==
  ASSUME Inv, OwnInv, NEW p \in Server, state' = state,
         NEW s, storage' = [storage EXCEPT ![p] = s], p \notin Elected => StoresOnly(s, Own(p)),
         NEW out, NEW chan, EndCall(p, out, chan) \/ Ends(p, out, chan), OutFits(out),
         ChanFits(chan), chan \in [Server -> [Server -> Seq(Message)]]
  PROVE  OwnInv'
<1>1. Ends(p, out, chan)
  BY DEF EndCall, Ends
<1>2. p \notin Elected => state[p][1] = "Follower"
  BY OwnBefore
<1>3. Fitting(p, s, state[p], out, chan)
  BY <1>1, <1>2 DEF Fitting
<1> QED BY <1>3, OwnCall

\* One more message, or one for each of several servers, without entries.
LEMMA PlainFits ==
  ASSUME NEW out, out = [q \in Server |-> out[q]], OutFits(out)
  PROVE  /\ \A r, m : m.type \notin {"AcceptSync", "AcceptDecide"} => OutFits(send(out, r, m))
         /\ \A msgs : (\A q \in Server : q \in DOMAIN msgs =>
                         msgs[q].type \notin {"AcceptSync", "AcceptDecide"})
                        => OutFits(push(out, msgs))
BY FitSend, OthersFit

\* Replying to the leader.
LEMMA ReplyFits ==
  ASSUME NEW p, NEW s, NEW out, OutOK(p, s, out), OutFits(out), NEW f, NEW n, NEW idx \in Nat
  PROVE  OutFits(reply_accepted_outgoing(f, out, n, idx))
<1> DEFINE k == f.latest_accepted_meta.idx
           q == n.pid
           x == [out[q][k] EXCEPT !.accepted_idx = idx]
           seq == [out[q] EXCEPT ![k] = x]
<1>0. out = [r \in Server |-> out[r]]
  BY DEF OutOK
<1>1. CASE has_latest_accepted(f, out, n)
  <2>1. reply_accepted_outgoing(f, out, n, idx) = [r \in Server |-> IF r = q THEN seq ELSE out[r]]
    BY <1>0, <1>1 DEF reply_accepted_outgoing
  <2>2. ASSUME q \in Server, k \in 1 .. Len(out[q]) PROVE x.type = "Accepted"
    <3>1. out[q][k] \in Message /\ out[q][k].type = "Accepted"
      BY <1>1, <2>2, ElementOfSeq DEF OutOK, Sendable, has_latest_accepted
    <3>2. out[q][k] \in [type : {"Accepted"}, n : Ballot, accepted_idx : Nat]
      BY <3>1 DEF Message, PromiseMessage
    <3> QED BY <3>2
  <2> HIDE DEF x
  <2>3. q \in Server \ Elected => AllFit(q, seq)
    <3> SUFFICES ASSUME q \in Server \ Elected PROVE AllFit(q, seq)
      OBVIOUS
    <3>1. AllFit(q, out[q])
      BY DEF OutFits
    <3>2. k \in 1 .. Len(out[q]) => Fits(q, x)
      BY <2>2, OthersFit
    <3> QED BY <3>1, <3>2, FitOverwrite
  <2> HIDE DEF seq
  <2> QED BY <2>1, <2>3 DEF OutFits
<1>2. CASE ~ has_latest_accepted(f, out, n)
  <2>1. reply_accepted_outgoing(f, out, n, idx) = send(out, q, Accepted(n, idx))
    BY <1>2 DEF reply_accepted_outgoing
  <2> QED BY <1>0, <2>1, PlainFits DEF Accepted
<1> QED BY <1>1, <1>2

\* Who leads was elected.
LEMMA LeaderIsElected ==
  ASSUME OwnInv, NEW p \in Server, state[p][1] = "Leader"
  PROVE  p \in Elected
BY DEF OwnInv

\* handle_leader.
LEMMA OwnLeader ==
  ASSUME Inv, OwnInv, NEW p \in Server, NEW n \in Ballots, handle_leader(p, n)
  PROVE  OwnInv'
<1> DEFINE s == [flush_batch(storage[p]) EXCEPT !.promise = n]
           st == << "Leader", "Prepare" >>
           msgs == [q \in Peers(p) |-> Prepare(n, s)]
           out == push(outgoing[p], msgs)
<1>1. /\ p \in Elected /\ storage' = [storage EXCEPT ![p] = s]
      /\ state' = [state EXCEPT ![p] = st] /\ EndCall(p, out, net)
  BY DEF handle_leader, Called, Elected
<1>2. \A q \in Server : q \in DOMAIN msgs => msgs[q].type \notin {"AcceptSync", "AcceptDecide"}
  BY DEF Prepare
<1> HIDE DEF s, st, msgs
<1>3. OutFits(out)
  BY <1>2, OwnBefore, PlainFits
<1> HIDE DEF out
<1>4. Ends(p, out, net)
  BY <1>1 DEF EndCall, Ends
<1>5. ChanFits(net) /\ net \in [Server -> [Server -> Seq(Message)]]
  BY OwnBefore
<1>6. Fitting(p, s, st, out, net)
  BY <1>1, <1>3, <1>4, <1>5 DEF Fitting
<1> QED BY <1>6, OwnCall

\* handle_prepare.
LEMMA OwnPrepare ==
  ASSUME Inv, OwnInv, NEW p \in Server, NEW q \in Server, handle_prepare(p, q)
  PROVE  OwnInv'
<1> DEFINE m == Head(net[q][p])
           s == [flush_batch(storage[p]) EXCEPT !.promise = m.n]
           st == << "Follower", "Prepare" >>
<1>1. /\ net[q][p] # << >> /\ storage' = [storage EXCEPT ![p] = s]
      /\ \/ Panic(p, q)
         \/ /\ state' = [state EXCEPT ![p] = st]
            /\ \E n, sync : EndCall(p, send(outgoing[p], q, Promise(n, s, sync)), Consume(p, q))
  BY DEF handle_prepare, Incoming, Handled
<1>2. p \notin Elected => StoresOnly(s, Own(p))
  BY KeptOK, OwnBefore, StoresOnlyAppends DEF RoundsOK, StorageOK
<1> HIDE DEF s
<1>3. CASE Panic(p, q)
  <2>1. storage' \in {storage, [storage EXCEPT ![p] = s]} /\ net[q][p] # << >>
    BY <1>1
  <2> QED BY <1>2, <1>3, <2>1, OwnPanic
<1>4. CASE ~ Panic(p, q)
  <2>1. PICK n, sync : EndCall(p, send(outgoing[p], q, Promise(n, s, sync)), Consume(p, q))
    BY <1>1, <1>4
  <2> DEFINE out == send(outgoing[p], q, Promise(n, s, sync))
  <2>2. OutFits(out)
    BY OwnBefore, PlainFits DEF Promise
  <2>3. Ends(p, out, Consume(p, q))
    BY <2>1 DEF EndCall, Ends
  <2> HIDE DEF out
  <2>4. ChanFits(Consume(p, q)) /\ Consume(p, q) \in [Server -> [Server -> Seq(Message)]]
    BY <1>1, OwnBefore
  <2>5. Fitting(p, s, st, out, Consume(p, q))
    BY <1>1, <1>2, <1>4, <2>2, <2>3, <2>4 DEF Fitting
  <2> QED BY <2>5, OwnCall
<1> QED BY <1>3, <1>4

\* handle_acceptsync.
LEMMA OwnAcceptSync ==
  ASSUME Inv, OwnInv, NEW p \in Server, NEW q \in Server, handle_acceptsync(p, q)
  PROVE  OwnInv'
<1> DEFINE m == Head(net[q][p])
           s == sync_log(storage[p], m.n, m.decided_idx, m.log_sync)
           proposals == buffered_proposals[p]
           forwards == s.stopsign = None /\ proposals # << >>
           out == IF forwards THEN forward_proposals_outgoing(p, outgoing[p], proposals) ELSE outgoing[p]
           reply == Accepted(m.n, s.accepted_idx)
           st == << "Follower", "Accept" >>
<1>1. /\ net[q][p] # << >> /\ m.type = "AcceptSync"
      /\ \/ Panic(p, q) /\ storage' = storage
         \/ /\ ~ sync_log_panics(storage[p], m.decided_idx, m.log_sync)
            /\ storage' = [storage EXCEPT ![p] = s]
            /\ state' = [state EXCEPT ![p] = st]
            /\ EndCall(p, send(out, q, reply), Consume(p, q))
  BY DEF handle_acceptsync, IncomingAccept, Incoming, Handled
<1>2. m \in Message /\ m.log_sync \in LogSync
  BY <1>1, IncomingMessage, MessageFields
<1>3. p \notin Elected => StoresOnly(storage[p], Own(p)) /\ m.log_sync.suffix \in Seq(Own(p))
  BY <1>1, OwnBefore DEF Fits
<1> HIDE DEF m
<1>4. CASE Panic(p, q) /\ storage' = storage
  BY <1>1, <1>3, <1>4, OwnPanic
<1>5. CASE ~ (Panic(p, q) /\ storage' = storage)
  <2>1. p \notin Elected => StoresOnly(s, Own(p))
    BY <1>1, <1>2, <1>3, <1>5, KeptOK, StoresOnlySync DEF RoundsOK
  <2> DEFINE to == get_current_leader(p)
  <2>2. out \in {outgoing[p], send(outgoing[p], to, ProposalForward(proposals))}
    BY DEF forward_proposals_outgoing
  <2> HIDE DEF s, out
  <2>3. OutFits(out) /\ out = [r \in Server |-> out[r]]
    <3>1. OutFits(send(outgoing[p], to, ProposalForward(proposals)))
      BY OwnBefore, PlainFits DEF ProposalForward
    <3>2. send(outgoing[p], to, ProposalForward(proposals))
            = [r \in Server |-> send(outgoing[p], to, ProposalForward(proposals))[r]]
      BY OwnBefore DEF send
    <3> QED BY <2>2, <3>1, <3>2, OwnBefore
  <2>4. reply.type = "Accepted"
    BY DEF Accepted
  <2> HIDE DEF reply
  <2>5. OutFits(send(out, q, reply)) /\ Ends(p, send(out, q, reply), Consume(p, q))
    BY <1>1, <1>5, <2>3, <2>4, PlainFits DEF EndCall, Ends
  <2>6. ChanFits(Consume(p, q)) /\ Consume(p, q) \in [Server -> [Server -> Seq(Message)]]
    BY <1>1, OwnBefore
  <2>7. Fitting(p, s, st, send(out, q, reply), Consume(p, q))
    BY <1>1, <1>5, <2>1, <2>5, <2>6 DEF Fitting
  <2> QED BY <2>7, OwnCall
<1> QED BY <1>4, <1>5

\* The rest of a handler of an accept message.
LEMMA OwnFollow ==
  ASSUME Inv, OwnInv, NEW p \in Server, NEW q \in Server, net[q][p] # << >>,
         NEW s, s.accepted_idx \in Nat, p \notin Elected => StoresOnly(s, Own(p)),
         NEW replies, follow(p, q, s, replies)
  PROVE  OwnInv'
<1> DEFINE m == Head(net[q][p])
           f == [follower_state[p] EXCEPT !.current_seq_num = m.seq_num]
           reply == reply_accepted_outgoing(f, outgoing[p], m.n, s.accepted_idx)
           out == IF replies THEN reply ELSE outgoing[p]
<1>1. storage' = [storage EXCEPT ![p] = s] /\ state' = state /\ EndCall(p, out, Consume(p, q))
  BY DEF follow, Handled
<1>2. OutOK(p, storage[p], outgoing[p])
  BY KeptOK, OutgoingOK
<1>3. OutFits(reply) /\ OutFits(outgoing[p])
  BY <1>2, OwnBefore, ReplyFits
<1> HIDE DEF reply
<1>4. OutFits(out)
  BY <1>3
<1> HIDE DEF out
<1> QED BY <1>1, <1>4, OwnBefore, OwnStored

\* handle_acceptdecide, handle_accept_stopsign and handle_decide.
LEMMA OwnAccepts ==
  ASSUME Inv, OwnInv, NEW p \in Server, NEW q \in Server,
         handle_acceptdecide(p, q) \/ handle_accept_stopsign(p, q) \/ handle_decide(p, q)
  PROVE  OwnInv'
<1> DEFINE m == Head(net[q][p])
<1>0. \E type \in AcceptTypes : IncomingAccept(p, q, type)
  BY DEF handle_acceptdecide, handle_accept_stopsign, handle_decide, AcceptTypes
<1>1. net[q][p] # << >> /\ m \in Message
  BY <1>0, IncomingMessage DEF IncomingAccept, Incoming
<1>2. StorageOK(storage[p]) /\ (p \notin Elected => StoresOnly(storage[p], Own(p)) /\ Fits(p, m))
  BY <1>1, KeptOK, OwnBefore DEF RoundsOK
<1>3. CASE handle_acceptdecide(p, q)
  <2> DEFINE s == append_entries_with_batching(storage[p], m.entries)
             t == update_decided_idx(s, m.decided_idx)
             replies == fills_batch(storage[p], m.entries) \/ flushes_to_decide(s, m.decided_idx)
  <2>1. m.type = "AcceptDecide" /\ follow(p, q, t, replies)
    BY <1>3 DEF handle_acceptdecide, IncomingAccept, Incoming
  <2>2. m.entries \in Entries /\ m.decided_idx \in Nat
    BY <1>1, <2>1, MessageFields DEF AcceptTypes
  <2>3. StorageOK(s)
    BY <1>2, <2>2, AppendWithBatchingOK
  <2>4. p \notin Elected => m.entries \in Seq(Own(p))
    BY <1>2, <2>1 DEF Fits
  <2> HIDE DEF m, replies
  <2>5. p \notin Elected => StoresOnly(s, Own(p))
    BY <1>2, <2>4, StoresOnlyAppends DEF StorageOK
  <2> HIDE DEF s
  <2>6. p \notin Elected => StoresOnly(t, Own(p))
    BY <2>3, <2>5, StoresOnlyAppends DEF StorageOK
  <2>7. t.accepted_idx \in Nat
    BY <2>2, <2>3, UpdateDecidedIdxOK DEF StorageOK, Storage
  <2> HIDE DEF t
  <2> QED BY <1>1, <2>1, <2>6, <2>7, OwnFollow
<1>4. CASE handle_accept_stopsign(p, q)
  <2> DEFINE s == set_stopsign(flush_batch(storage[p]), m.ss)
  <2>1. m.type = "AcceptStopSign" /\ follow(p, q, s, TRUE)
    BY <1>4 DEF handle_accept_stopsign, IncomingAccept, Incoming
  <2>2. m.ss \in StopSign
    BY <1>1, <2>1, MessageFields
  <2> HIDE DEF m
  <2>3. p \notin Elected => StoresOnly(s, Own(p))
    BY <1>2, StoresOnlyAppends DEF StorageOK
  <2>4. s.accepted_idx \in Nat
    BY <1>2, <2>2, FlushBatchOK, SetStopSignOK DEF StorageOK, Storage
  <2> HIDE DEF s
  <2> QED BY <1>1, <2>1, <2>3, <2>4, OwnFollow
<1>5. CASE handle_decide(p, q)
  <2> DEFINE s == update_decided_idx(storage[p], m.decided_idx)
             replies == flushes_to_decide(storage[p], m.decided_idx)
  <2>1. m.type = "Decide" /\ follow(p, q, s, replies)
    BY <1>5 DEF handle_decide, IncomingAccept, Incoming
  <2>2. m.decided_idx \in Nat
    BY <1>1, <2>1, MessageFields DEF AcceptTypes
  <2> HIDE DEF m, replies
  <2>3. p \notin Elected => StoresOnly(s, Own(p))
    BY <1>2, StoresOnlyAppends DEF StorageOK
  <2>4. s.accepted_idx \in Nat
    BY <1>2, <2>2, UpdateDecidedIdxOK DEF StorageOK, Storage
  <2> HIDE DEF s
  <2> QED BY <1>1, <2>1, <2>3, <2>4, OwnFollow
<1> QED BY <1>3, <1>4, <1>5

\* handle_preparereq, handle_accepted, handle_notaccepted.
LEMMA OwnLeads ==
  ASSUME Inv, OwnInv, NEW p \in Server, NEW q \in Server,
         handle_preparereq(p, q) \/ handle_accepted(p, q) \/ handle_notaccepted(p, q)
  PROVE  OwnInv'
<1> DEFINE m == Head(net[q][p])
<1>1. net[q][p] # << >> /\ state' = state
  BY DEF handle_preparereq, handle_accepted, handle_notaccepted, Incoming
<1>2. state[p][1] = "Leader" /\ p \in Elected
  <2>1. handle_preparereq(p, q) => state[p][1] = "Leader"
    BY DEF handle_preparereq, answers_preparereq
  <2>2. handle_notaccepted(p, q) => state[p][1] = "Leader"
    BY DEF handle_notaccepted, loses_promise
  <2>3. handle_accepted(p, q) => state[p] = << "Leader", "Accept" >>
    BY DEF handle_accepted, counts_accepted
  <2> QED BY <2>1, <2>2, <2>3, LeaderIsElected
<1>3. ChanFits(Consume(p, q)) /\ Consume(p, q) \in [Server -> [Server -> Seq(Message)]]
  BY <1>1, OwnBefore
<1>4. state' \in {state, [state EXCEPT ![p] = state[p]]}
  BY <1>1
<1>5. CASE handle_preparereq(p, q)
  <2> DEFINE l == reset_promise(leader_state[p], q)
             reply == Prepare(l.n_leader, storage[p])
             out == send(outgoing[p], q, reply)
  <2>1. storage' = storage /\ EndCall(p, out, Consume(p, q))
    BY <1>5 DEF handle_preparereq, Handled
  <2>2. reply.type = "Prepare"
    BY DEF Prepare
  <2> HIDE DEF reply
  <2>3. OutFits(out)
    BY <2>2, OwnBefore, PlainFits
  <2> HIDE DEF out
  <2> QED BY <1>2, <1>3, <1>4, <2>1, <2>3, OwnUnstored
<1>6. CASE handle_notaccepted(p, q)
  <2>1. storage' = storage /\ EndCall(p, outgoing[p], Consume(p, q))
    BY <1>6 DEF handle_notaccepted, Handled
  <2>2. OutFits(outgoing[p])
    BY OwnBefore
  <2> QED BY <1>2, <1>3, <1>4, <2>1, <2>2, OwnUnstored
<1>7. CASE handle_accepted(p, q)
  <2> DEFINE idx == m.accepted_idx
             l == set_accepted_idx(leader_state[p], q, idx)
             out == outgoing[p]
             Q == get_promised_followers(l) \cap Server
             new == {r \in Q : ~ has_latest_accdec(l, out, r)}
             l1 == [l EXCEPT !.follower_seq_nums =
                      [r \in Slots |-> IF r \in new THEN next_seq_num(@[r]) ELSE @[r]]]
             mark(r) == [out[r] EXCEPT ![l.latest_accept_meta[r]] = [@ EXCEPT !.decided_idx = idx]]
             marked == [r \in Server |-> IF r \in Q \ new THEN mark(r) ELSE out[r]]
             msgs == [r \in new |-> Decide(l.n_leader, l1.follower_seq_nums[r], idx)]
             s == [storage[p] EXCEPT !.decided_idx = idx]
  <2>1. \/ /\ storage' = [storage EXCEPT ![p].decided_idx = idx]
           /\ EndCall(p, push(marked, msgs), Consume(p, q))
        \/ storage' = storage /\ EndCall(p, out, Consume(p, q))
    BY <1>7 DEF handle_accepted, Handled
  <2>2. OutFits(out) /\ OutOK(p, storage[p], out)
    BY KeptOK, OwnBefore, OutgoingOK
  <2>3. ASSUME NEW r \in Server \ Elected, r \in Q \ new PROVE AllFit(r, mark(r))
    <3> DEFINE k == l.latest_accept_meta[r]
               e == out[r][k]
               x == [e EXCEPT !.decided_idx = idx]
    <3>1. e.type = "AcceptDecide"
      BY <2>3 DEF has_latest_accdec
    <3>2. ASSUME k \in 1 .. Len(out[r]), Fits(r, e) PROVE Fits(r, x)
      <4>1. e \in Message
        BY <2>2, <3>2, ElementOfSeq DEF OutOK, Sendable
      <4>2. e \in [type : {"AcceptDecide"}, n : Ballot, seq_num : SequenceNumber,
                   decided_idx : Nat, entries : Entries]
        BY <3>1, <4>1 DEF Message, PromiseMessage
      <4> HIDE DEF e
      <4>3. x.type = "AcceptDecide" /\ x.entries = e.entries
        BY <4>2
      <4> QED BY <3>1, <3>2, <4>3 DEF Fits
    <3>3. mark(r) = [out[r] EXCEPT ![k] = x] /\ AllFit(r, out[r])
      BY <2>2 DEF OutFits
    <3> HIDE DEF x, k
    <3> QED BY <3>2, <3>3, FitOverwrite
  <2>4. \A r \in Server : r \in DOMAIN msgs => msgs[r].type \notin {"AcceptSync", "AcceptDecide"}
    BY DEF Decide
  <2> HIDE DEF idx, l, mark, msgs
  <2>5. marked = [r \in Server |-> marked[r]] /\ OutFits(marked)
    BY <2>2, <2>3 DEF OutFits
  <2> HIDE DEF marked
  <2>6. OutFits(push(marked, msgs))
    BY <2>4, <2>5, PlainFits
  <2>7. CASE storage' = storage /\ EndCall(p, out, Consume(p, q))
    BY <1>2, <1>3, <1>4, <2>2, <2>7, OwnUnstored
  <2>8. CASE storage' = [storage EXCEPT ![p].decided_idx = idx] /\ EndCall(p, push(marked, msgs), Consume(p, q))
    <3>1. storage' = [storage EXCEPT ![p] = s]
      BY <2>8
    <3> HIDE DEF s
    <3> QED BY <1>1, <1>2, <1>3, <2>6, <2>8, <3>1, OwnStored
  <2> QED BY <2>1, <2>7, <2>8
<1> QED BY <1>5, <1>6, <1>7

\* handle_promise_prepare and handle_promise_accept.
LEMMA OwnPromises ==
  ASSUME CodedEntries, Inv, OwnInv, NEW p \in Server, NEW q \in Server,
         ec_handle_promise_prepare(p, q) \/ ec_handle_promise_accept(p, q),
         UNCHANGED << proposed, budget >>
  PROVE  OwnInv'
<1>1. net[q][p] # << >> /\ state[p][1] = "Leader"
  <2>1. ec_handle_promise_prepare(p, q) => net[q][p] # << >> /\ state[p] = << "Leader", "Prepare" >>
    BY DEF ec_handle_promise_prepare, Incoming
  <2>2. ec_handle_promise_accept(p, q) => net[q][p] # << >> /\ state[p] = << "Leader", "Accept" >>
    BY DEF ec_handle_promise_accept, Incoming
  <2> QED BY <2>1, <2>2
<1>2. p \in Elected
  BY <1>1, LeaderIsElected
<1>3. Panic(p, q) \/ SentSync(p, q)
  BY ECHandlePromisePrepareOK, ECHandlePromiseAcceptOK
<1>4. PICK s : storage' \in {storage, [storage EXCEPT ![p] = s]}
  BY DEF ec_handle_promise_prepare, ec_handle_promise_accept, ec_handle_majority_promises,
         handle_promise_prepare, handle_promise_accept
<1> DEFINE st == << "Leader", "Accept" >>
<1>5. Panic(p, q) \/ state' \in {state, [state EXCEPT ![p] = st]}
  BY DEF ec_handle_promise_prepare, ec_handle_promise_accept, ec_handle_majority_promises,
         handle_promise_prepare, handle_promise_accept
<1> HIDE DEF st
<1>6. CASE Panic(p, q)
  BY <1>1, <1>2, <1>4, <1>6, OwnPanic
<1>7. CASE ~ Panic(p, q)
  <2>1. PICK out : EndCall(p, out, Consume(p, q)) /\ OutFits(out)
    <3>1. \A msgs : (\A r \in Server : r \in DOMAIN msgs => IsSync(r, msgs[r]))
                          => OutFits(push(outgoing[p], msgs))
      BY OwnBefore, FragmentsFit, FitSend
    <3>2. \A m : IsSync(q, m) => OutFits(send(outgoing[p], q, m))
      BY OwnBefore, FragmentsFit, FitSend
    <3> QED BY <1>3, <1>7, <3>1, <3>2, OwnBefore DEF SentSync
  <2>2. Ends(p, out, Consume(p, q))
    BY <2>1 DEF EndCall, Ends
  <2>3. ChanFits(Consume(p, q)) /\ Consume(p, q) \in [Server -> [Server -> Seq(Message)]]
    BY <1>1, OwnBefore
  <2>4. Fitting(p, s, st, out, Consume(p, q))
    BY <1>2, <1>4, <1>5, <1>7, <2>1, <2>2, <2>3 DEF Fitting
  <2> QED BY <2>4, OwnCall
<1> QED BY <1>6, <1>7

\* send_acceptdecide sends each peer its fragments.
LEMMA AcceptdecideFits ==
  ASSUME CodedEntries, NEW p \in Server, NEW l, NEW out, out = [q \in Server |-> out[q]], OutFits(out),
         NEW decided_idx, NEW entries \in Entries
  PROVE  OutFits(send_acceptdecide(p, l, out, decided_idx, entries))
<1> DEFINE msgs == [q \in Peers(p) |->
                      AcceptDecide(l.n_leader, next_seq_num(l.follower_seq_nums[q]), decided_idx,
                                   fragments_for(entries, q))]
<1>1. ASSUME NEW q \in Server, q \in DOMAIN msgs PROVE Fits(q, msgs[q])
  <2>1. msgs[q].type = "AcceptDecide" /\ msgs[q].entries = fragments_for(entries, q)
    BY <1>1 DEF AcceptDecide
  <2> HIDE DEF msgs
  <2> QED BY <2>1, FragmentsFit DEF Fits
<1>2. send_acceptdecide(p, l, out, decided_idx, entries) \in {out, push(out, msgs)}
  BY DEF send_acceptdecide
<1> HIDE DEF msgs
<1> QED BY <1>1, <1>2, FitSend

\* The outgoing messages stay one sequence for each server.
LEMMA AcceptdecideShape ==
  ASSUME NEW p, NEW l, NEW out, out = [q \in Server |-> out[q]], NEW decided_idx, NEW entries
  PROVE  LET o == send_acceptdecide(p, l, out, decided_idx, entries) IN o = [q \in Server |-> o[q]]
<1> DEFINE o == send_acceptdecide(p, l, out, decided_idx, entries)
<1>1. o = out \/ \E msgs : o = push(out, msgs)
  BY DEF send_acceptdecide
<1>2. \A msgs : push(out, msgs) = [q \in Server |-> push(out, msgs)[q]]
  BY DEF push
<1> HIDE DEF o
<1>3. o = [q \in Server |-> o[q]]
  BY <1>1, <1>2
<1> QED BY <1>3 DEF o

\* accept_entries_leader, accept_stopsign_leader and flush_batch_leader.
LEMMA OwnAcceptsAtLeader ==
  ASSUME CodedEntries, Inv, OwnInv, NEW p \in Server, state[p][1] = "Leader", state' = state,
         NEW chan, ChanFits(chan), chan \in [Server -> [Server -> Seq(Message)]]
  PROVE  /\ \A s : \A entries \in Entries : ec_accepts(p, s, entries, chan) => OwnInv'
         /\ \A entries \in Entries : ec_accept_entries_leader(p, entries, chan) => OwnInv'
         /\ \A ss \in StopSign : ec_accept_stopsign_leader(p, ss, chan) => OwnInv'
<1>0. p \in Elected /\ OutFits(outgoing[p]) /\ outgoing[p] = [q \in Server |-> outgoing[p][q]]
  BY LeaderIsElected, OwnBefore
<1>1. ASSUME NEW s, NEW entries \in Entries, ec_accepts(p, s, entries, chan) PROVE OwnInv'
  <2> DEFINE l == set_accepted_idx(leader_state[p], p, s.accepted_idx)
             out == send_acceptdecide(p, l, outgoing[p], s.decided_idx, entries)
  <2>1. storage' = [storage EXCEPT ![p] = s] /\ EndCall(p, out, chan)
    BY <1>1 DEF ec_accepts
  <2> HIDE DEF l
  <2>2. OutFits(out)
    BY <1>0, AcceptdecideFits
  <2> HIDE DEF out
  <2> QED BY <1>0, <2>1, <2>2, OwnStored
<1>2. ASSUME NEW entries \in Entries, ec_accept_entries_leader(p, entries, chan) PROVE OwnInv'
  <2> DEFINE own == fragments_for(entries, p)
             s == append_entries_with_batching(storage[p], own)
  <2>1. \/ ec_accepts(p, s, entries, chan)
        \/ storage' = [storage EXCEPT ![p] = s] /\ EndCall(p, outgoing[p], chan)
    BY <1>2 DEF ec_accept_entries_leader
  <2> HIDE DEF own, s
  <2>2. CASE storage' = [storage EXCEPT ![p] = s] /\ EndCall(p, outgoing[p], chan)
    BY <1>0, <2>2, OwnStored
  <2> QED BY <1>1, <2>1, <2>2
<1>3. ASSUME NEW ss \in StopSign, ec_accept_stopsign_leader(p, ss, chan) PROVE OwnInv'
  <2> DEFINE s == append_stopsign(storage[p], ss)
             l0 == leader_state[p]
             announced == IF storage[p].batched_entries = << >> THEN << >> ELSE << raw(ss) >>
             l1 == acceptdecide_leader_state(p, l0, announced)
             out1 == send_acceptdecide(p, l0, outgoing[p], s.decided_idx, announced)
             Q == get_promised_followers(l1) \cap Server
             l2 == numbered(set_accepted_idx(l1, p, s.accepted_idx), Q)
             msgs == [q \in Q |-> AcceptStopSign(l2.n_leader, l2.follower_seq_nums[q], ss)]
  <2>1. storage' = [storage EXCEPT ![p] = s] /\ EndCall(p, push(out1, msgs), chan)
    BY <1>3 DEF ec_accept_stopsign_leader
  <2>2. announced \in Entries
    BY PieceType, EmptySeq DEF Entries
  <2>3. \A q \in Server : q \in DOMAIN msgs => msgs[q].type \notin {"AcceptSync", "AcceptDecide"}
    BY DEF AcceptStopSign
  <2> HIDE DEF s, announced, l0, l2, msgs
  <2>4. OutFits(out1) /\ out1 = [q \in Server |-> out1[q]]
    BY <1>0, <2>2, AcceptdecideFits, AcceptdecideShape
  <2> HIDE DEF out1
  <2>5. OutFits(push(out1, msgs))
    BY <2>3, <2>4, PlainFits
  <2> QED BY <1>0, <2>1, <2>5, OwnStored
<1> QED BY <1>1, <1>2, <1>3

\* append, reconfigure and the handlers of forwarded proposals.
LEMMA OwnProposals ==
  ASSUME CodedEntries, Inv, OwnInv, NEW p \in Server
  PROVE  /\ \A v \in Data : ec_append(p, v) => OwnInv'
         /\ \A ss \in StopSign : ec_reconfigure(p, ss) => OwnInv'
         /\ \A q \in Server :
              ec_handle_forwarded_proposal(p, q) \/ ec_handle_forwarded_stopsign(p, q) => OwnInv'
<1> DEFINE to == get_current_leader(p)
<1>0. OutFits(outgoing[p]) /\ outgoing[p] = [q \in Server |-> outgoing[p][q]]
  BY OwnBefore
<1>1. ASSUME NEW entries \in Entries, NEW chan, ChanFits(chan),
             chan \in [Server -> [Server -> Seq(Message)]], state' = state,
             ec_propose_entries(p, entries, chan)
      PROVE  OwnInv'
  <2> DEFINE forward == ProposalForward(entries)
  <2>1. CASE state[p] = << "Leader", "Accept" >> /\ ec_accept_entries_leader(p, entries, chan)
    <3>1. state[p][1] = "Leader"
      BY <2>1
    <3> QED BY <1>1, <2>1, <3>1, OwnAcceptsAtLeader
  <2>2. CASE state[p] # << "Leader", "Accept" >> /\ propose_entries(p, entries, chan)
    <3>1. PICK out \in {outgoing[p], send(outgoing[p], to, forward)} :
            storage' = storage /\ EndCall(p, out, chan)
      BY <2>2 DEF propose_entries, forward_proposals_outgoing
    <3>2. OutFits(out)
      BY <1>0, <3>1, PlainFits DEF ProposalForward
    <3>3. state' \in {state, [state EXCEPT ![p] = state[p]]} /\ (p \notin Elected => state[p][1] = "Follower")
      BY <1>1, OwnBefore
    <3> QED BY <1>1, <3>1, <3>2, <3>3, OwnUnstored
  <2> QED BY <1>1, <2>1, <2>2 DEF ec_propose_entries
<1>2. ASSUME NEW ss \in StopSign, NEW chan, ChanFits(chan),
             chan \in [Server -> [Server -> Seq(Message)]], state' = state,
             ec_propose_stopsign(p, ss, chan)
      PROVE  OwnInv'
  <2> DEFINE forward == ForwardStopSign(ss)
  <2>1. CASE state[p] = << "Leader", "Accept" >> /\ ec_accept_stopsign_leader(p, ss, chan)
    <3>1. state[p][1] = "Leader"
      BY <2>1
    <3> QED BY <1>2, <2>1, <3>1, OwnAcceptsAtLeader
  <2>2. CASE state[p] # << "Leader", "Accept" >> /\ propose_stopsign(p, ss, chan)
    <3>1. PICK out \in {outgoing[p], send(outgoing[p], to, forward)} :
            storage' = storage /\ EndCall(p, out, chan)
      BY <2>2 DEF propose_stopsign
    <3>2. OutFits(out)
      BY <1>0, <3>1, PlainFits DEF ForwardStopSign
    <3>3. state' \in {state, [state EXCEPT ![p] = state[p]]} /\ (p \notin Elected => state[p][1] = "Follower")
      BY <1>2, OwnBefore
    <3> QED BY <1>2, <3>1, <3>2, <3>3, OwnUnstored
  <2> QED BY <1>2, <2>1, <2>2 DEF ec_propose_stopsign
<1>3. ASSUME NEW v \in Data, ec_append(p, v) PROVE OwnInv'
  <2>1. << raw(v) >> \in Entries
    BY PieceType
  <2> QED BY <1>1, <1>3, <2>1, OwnBefore DEF ec_append
<1>4. ASSUME NEW ss \in StopSign, ec_reconfigure(p, ss) PROVE OwnInv'
  BY <1>2, <1>4, OwnBefore DEF ec_reconfigure
<1>5. ASSUME NEW q \in Server, ec_handle_forwarded_proposal(p, q) PROVE OwnInv'
  <2>1. net[q][p] # << >> /\ Head(net[q][p]).type = "ProposalForward"
    BY <1>5 DEF ec_handle_forwarded_proposal, Incoming
  <2>2. Head(net[q][p]).entries \in Entries
    BY <2>1, IncomingMessage, MessageFields
  <2> QED BY <1>1, <1>5, <2>1, <2>2, OwnBefore DEF ec_handle_forwarded_proposal
<1>6. ASSUME NEW q \in Server, ec_handle_forwarded_stopsign(p, q) PROVE OwnInv'
  <2>1. net[q][p] # << >> /\ Head(net[q][p]).type = "ForwardStopSign"
    BY <1>6 DEF ec_handle_forwarded_stopsign, Incoming
  <2>2. Head(net[q][p]).ss \in StopSign
    BY <2>1, IncomingMessage, MessageFields
  <2> QED BY <1>2, <1>6, <2>1, <2>2, OwnBefore DEF ec_handle_forwarded_stopsign
<1> QED BY <1>3, <1>4, <1>5, <1>6

\* trim, snapshot and handle_compaction.
LEMMA OwnCompaction ==
  ASSUME Inv, OwnInv, NEW p \in Server
  PROVE  /\ \A idx \in Nat : trim(p, idx) => OwnInv'
         /\ \A local_only : \A idx \in Nat \cup {None} : snapshot(p, idx, local_only) => OwnInv'
         /\ \A q \in Server : handle_compaction(p, q) => OwnInv'
<1>0. /\ OutFits(outgoing[p]) /\ outgoing[p] = [q \in Server |-> outgoing[p][q]]
      /\ ChanFits(net) /\ net \in [Server -> [Server -> Seq(Message)]]
  BY OwnBefore
<1>1. /\ \A idx \in Nat : p \notin Elected => StoresOnly(try_trim(storage[p], idx), Own(p))
      /\ \A idx \in Nat \cup {None} : p \notin Elected => StoresOnly(try_snapshot(storage[p], idx), Own(p))
  BY KeptOK, OwnBefore, StoresOnlyCuts DEF RoundsOK
<1>2. ASSUME NEW idx \in Nat, trim(p, idx) PROVE OwnInv'
  <2> DEFINE s == try_trim(storage[p], idx)
             msgs == [q \in Peers(p) |-> Compaction("Trim", idx)]
             out == push(outgoing[p], msgs)
  <2>1. storage' = [storage EXCEPT ![p] = s] /\ EndCall(p, out, net) /\ state' = state
    BY <1>2 DEF trim, Called
  <2>2. \A q \in Server : q \in DOMAIN msgs => msgs[q].type \notin {"AcceptSync", "AcceptDecide"}
    BY DEF Compaction
  <2>3. p \notin Elected => StoresOnly(s, Own(p))
    BY <1>1
  <2> HIDE DEF s, msgs
  <2>4. OutFits(out)
    BY <1>0, <2>2, PlainFits
  <2> HIDE DEF out
  <2> QED BY <1>0, <2>1, <2>3, <2>4, OwnStored
<1>3. ASSUME NEW idx \in Nat \cup {None}, NEW local_only, snapshot(p, idx, local_only) PROVE OwnInv'
  <2> DEFINE s == try_snapshot(storage[p], idx)
             msgs == [q \in Peers(p) |-> Compaction("Snapshot", idx)]
             out == IF local_only THEN outgoing[p] ELSE push(outgoing[p], msgs)
  <2>1. storage' = [storage EXCEPT ![p] = s] /\ EndCall(p, out, net) /\ state' = state
    BY <1>3 DEF snapshot, Called
  <2>2. \A q \in Server : q \in DOMAIN msgs => msgs[q].type \notin {"AcceptSync", "AcceptDecide"}
    BY DEF Compaction
  <2>3. p \notin Elected => StoresOnly(s, Own(p))
    BY <1>1
  <2> HIDE DEF s, msgs
  <2>4. OutFits(out)
    BY <1>0, <2>2, PlainFits
  <2> HIDE DEF out
  <2> QED BY <1>0, <2>1, <2>3, <2>4, OwnStored
<1>4. ASSUME NEW q \in Server, handle_compaction(p, q) PROVE OwnInv'
  <2> DEFINE m == Head(net[q][p])
             s == IF m.kind = "Trim" THEN try_trim(storage[p], m.idx) ELSE try_snapshot(storage[p], m.idx)
  <2>1. /\ net[q][p] # << >> /\ m.type = "Compaction" /\ state' = state
        /\ storage' = [storage EXCEPT ![p] = s] /\ EndCall(p, outgoing[p], Consume(p, q))
    BY <1>4 DEF handle_compaction, Incoming, Handled
  <2>2. \/ m.kind = "Trim" /\ m.idx \in Nat
        \/ m.kind = "Snapshot" /\ m.idx \in Nat \cup {None}
    BY <2>1, IncomingMessage, MessageFields
  <2> HIDE DEF m
  <2>3. p \notin Elected => StoresOnly(s, Own(p))
    BY <1>1, <2>2
  <2> HIDE DEF s
  <2>4. ChanFits(Consume(p, q)) /\ Consume(p, q) \in [Server -> [Server -> Seq(Message)]]
    BY <2>1, OwnBefore
  <2> QED BY <1>0, <2>1, <2>3, <2>4, OwnStored
<1> QED BY <1>2, <1>3, <1>4

\* resend_message_timeout.
LEMMA OwnResends ==
  ASSUME Inv, OwnInv, NEW p \in Server, resend_message_timeout(p)
  PROVE  OwnInv'
<1> DEFINE cached == follower_state[p].cached_promise_message
           req == PrepareReq(storage[p].promise)
           msgs == [q \in Peers(p) |-> req]
           st == << "Follower", "Recover" >>
<1>0. /\ OutFits(outgoing[p]) /\ outgoing[p] = [q \in Server |-> outgoing[p][q]]
      /\ ChanFits(net) /\ net \in [Server -> [Server -> Seq(Message)]]
      /\ p \notin Elected => state[p][1] = "Follower"
  BY OwnBefore
<1>1. /\ storage' = storage
      /\ \/ resend_messages_leader(p)
         \/ /\ cached # None
            /\ EndCall(p, send(outgoing[p], cached.n.pid, cached), net)
            /\ UNCHANGED state
         \/ /\ EndCall(p, push(outgoing[p], msgs), net)
            /\ state' = [state EXCEPT ![p] = st]
  BY DEF resend_message_timeout, resend_messages_follower, Called
<1>2. CASE resend_messages_leader(p)
  <2> DEFINE s == storage[p]
             l == leader_state[p]
             prep == Prepare(l.n_leader, s)
             dec(q) == Decide(l.n_leader, l.follower_seq_nums[q], s.decided_idx)
             stop(q) == AcceptStopSign(l.n_leader, l.follower_seq_nums[q], s.stopsign)
             resent(q) ==
               IF q \in get_preparable_peers(l, p)
                 THEN << prep >>
                 ELSE IF /\ state[p][2] = "Accept"
                         /\ accepted_reconfiguration(s)
                         /\ q \in get_promised_followers(l)
                        THEN IF stopsign_is_decided(s)
                               THEN << dec(q) >>
                               ELSE IF l.accepted_indexes[q] # s.accepted_idx
                                      THEN << stop(q) >>
                                      ELSE << >>
                        ELSE << >>
             out == [q \in Server |-> outgoing[p][q] \o resent(q)]
  <2>1. EndCall(p, out, net) /\ state' = state
    BY <1>2 DEF resend_messages_leader, Called
  <2>2. ASSUME NEW q \in Server \ Elected PROVE AllFit(q, out[q])
    <3>1. Fits(q, prep) /\ Fits(q, dec(q)) /\ Fits(q, stop(q))
      BY DEF Fits, Prepare, Decide, AcceptStopSign
    <3>2. resent(q) \in {<< >>, << prep >>, << dec(q) >>, << stop(q) >>}
      OBVIOUS
    <3>3. out[q] = outgoing[p][q] \o resent(q) /\ AllFit(q, outgoing[p][q])
      BY <1>0 DEF OutFits
    <3> HIDE DEF prep, dec, stop, resent, out
    <3>4. ASSUME NEW m, Fits(q, m) PROVE AllFit(q, << m >>)
      <4> DEFINE S == {m}
      <4>1. << m >> \in Seq(S) /\ \A x \in S : Fits(q, x)
        BY <3>4
      <4> HIDE DEF S
      <4> QED BY <4>1 DEF AllFit
    <3>5. AllFit(q, resent(q))
      BY <3>1, <3>2, <3>4, FitSequences
    <3> QED BY <3>3, <3>5, FitSequences
  <2> HIDE DEF out
  <2>3. OutFits(out)
    BY <2>2 DEF OutFits
  <2>4. state' \in {state, [state EXCEPT ![p] = state[p]]}
    BY <2>1
  <2> QED BY <1>0, <1>1, <2>1, <2>3, <2>4, OwnUnstored
<1>3. CASE cached # None /\ EndCall(p, send(outgoing[p], cached.n.pid, cached), net) /\ UNCHANGED state
  <2>1. cached.type = "Promise"
    BY <1>3, KeptOK DEF FollowerState, PromiseMessage
  <2>2. OutFits(send(outgoing[p], cached.n.pid, cached))
    BY <1>0, <2>1, PlainFits
  <2>3. state' \in {state, [state EXCEPT ![p] = state[p]]}
    BY <1>3
  <2> HIDE DEF cached
  <2> QED BY <1>0, <1>1, <1>3, <2>2, <2>3, OwnUnstored
<1>4. CASE EndCall(p, push(outgoing[p], msgs), net) /\ state' = [state EXCEPT ![p] = st]
  <2>1. req.type = "PrepareReq" /\ st[1] = "Follower"
    BY DEF PrepareReq
  <2>2. \A q \in Server : q \in DOMAIN msgs => msgs[q].type \notin {"AcceptSync", "AcceptDecide"}
    BY <2>1
  <2> HIDE DEF req, msgs, st
  <2> DEFINE out == push(outgoing[p], msgs)
  <2>3. OutFits(out)
    BY <1>0, <2>2, PlainFits
  <2>4. state' \in {state, [state EXCEPT ![p] = st]} /\ EndCall(p, out, net)
    BY <1>4
  <2> HIDE DEF out
  <2>5. Fitting(p, storage[p], st, out, net)
    BY <1>0, <1>1, <2>1, <2>3, <2>4, OwnBefore DEF Fitting, EndCall, Ends
  <2> QED BY <2>5, OwnCall
<1> QED BY <1>1, <1>2, <1>3, <1>4

\* flush_batch_timeout.
LEMMA OwnFlush ==
  ASSUME CodedEntries, Inv, OwnInv, NEW p \in Server, ec_flush_batch_timeout(p)
  PROVE  OwnInv'
<1>0. /\ OutFits(outgoing[p]) /\ outgoing[p] = [q \in Server |-> outgoing[p][q]]
      /\ ChanFits(net) /\ net \in [Server -> [Server -> Seq(Message)]]
      /\ p \notin Elected => state[p][1] = "Follower" /\ StoresOnly(storage[p], Own(p))
      /\ StorageOK(storage[p]) /\ OutOK(p, storage[p], outgoing[p])
  BY KeptOK, OwnBefore, OutgoingOK DEF RoundsOK
<1>1. /\ state' = state
      /\ \/ ec_flush_batch_leader(p)
         \/ flush_batch_follower(p)
         \/ UNCHANGED << storage, leader_state, follower_state, outgoing, net >>
  BY DEF ec_flush_batch_timeout
<1>2. CASE ec_flush_batch_leader(p)
  <2> DEFINE s == flush_batch(storage[p])
             entries == storage[p].batched_entries
  <2>1. state[p] = << "Leader", "Accept" >> /\ ec_accepts(p, s, entries, net)
    BY <1>2 DEF ec_flush_batch_leader
  <2>2. entries \in Entries
    BY <1>0 DEF StorageOK, Storage
  <2>3. state[p][1] = "Leader" /\ state' = state
    BY <1>1, <2>1
  <2>4. ChanFits(net) /\ net \in [Server -> [Server -> Seq(Message)]]
    BY <1>0
  <2> HIDE DEF s, entries
  <2>5. \A t : \A es \in Entries : ec_accepts(p, t, es, net) => OwnInv'
    BY <2>3, <2>4, OwnAcceptsAtLeader
  <2> QED BY <2>1, <2>2, <2>5
<1>3. CASE flush_batch_follower(p)
  <2> DEFINE s == flush_batch(storage[p])
             f == follower_state[p]
             out == reply_accepted_outgoing(f, outgoing[p], s.promise, s.accepted_idx)
  <2>1. storage' = [storage EXCEPT ![p] = s] /\ EndCall(p, out, net)
    BY <1>3 DEF flush_batch_follower, Called
  <2>2. s.accepted_idx \in Nat
    BY <1>0, FlushBatchOK DEF StorageOK, Storage
  <2>3. p \notin Elected => StoresOnly(s, Own(p))
    BY <1>0, StoresOnlyAppends DEF StorageOK
  <2> HIDE DEF s
  <2>4. OutFits(out)
    BY <1>0, <2>2, ReplyFits
  <2> HIDE DEF out
  <2> QED BY <1>0, <1>1, <2>1, <2>3, <2>4, OwnStored
<1>4. CASE UNCHANGED << storage, leader_state, follower_state, outgoing, net >>
  BY <1>1, <1>4 DEF OwnInv, ChanFits
<1> QED BY <1>1, <1>2, <1>3, <1>4

\* check_valid_ballot and handle_sequence_num, when they refuse the message, and
\* reconnected.
LEMMA OwnRefuses ==
  ASSUME Inv, OwnInv, NEW p \in Server
  PROVE  /\ \A q \in Server : reject_ballot(p, q) \/ dropped_preceding(p, q) => OwnInv'
         /\ \A q \in Server : user_reconnected(p, q) => OwnInv'
<1>0. /\ OutFits(outgoing[p]) /\ outgoing[p] = [q \in Server |-> outgoing[p][q]]
      /\ ChanFits(net) /\ net \in [Server -> [Server -> Seq(Message)]]
      /\ p \notin Elected => state[p][1] = "Follower"
  BY OwnBefore
<1>1. ASSUME NEW q, NEW chan, ChanFits(chan), chan \in [Server -> [Server -> Seq(Message)]],
             reconnected(p, q, outgoing[p], chan), storage' = storage
      PROVE  OwnInv'
  <2> DEFINE st == << "Follower", "Recover" >>
             req == PrepareReq(storage[p].promise)
             out == send(outgoing[p], q, req)
  <2>1. state' \in {state, [state EXCEPT ![p] = st]} /\ EndCall(p, out, chan)
    BY <1>1 DEF reconnected
  <2>2. req.type = "PrepareReq" /\ st[1] = "Follower"
    BY DEF PrepareReq
  <2> HIDE DEF st, req
  <2>3. OutFits(out)
    BY <1>0, <2>2, PlainFits
  <2> HIDE DEF out
  <2> QED BY <1>1, <2>1, <2>2, <2>3, OwnUnstored
<1>2. ASSUME NEW q \in Server, reject_ballot(p, q) \/ dropped_preceding(p, q) PROVE OwnInv'
  <2> DEFINE m == Head(net[q][p])
             na == NotAccepted(storage[p].promise)
             out == send(outgoing[p], m.n.pid, na)
  <2>1. /\ net[q][p] # << >> /\ storage' = storage
        /\ \/ reconnected(p, m.n.pid, outgoing[p], Consume(p, q))
           \/ EndCall(p, out, Consume(p, q)) /\ state' = state
    BY <1>2 DEF reject_ballot, dropped_preceding, Incoming, Handled
  <2>2. ChanFits(Consume(p, q)) /\ Consume(p, q) \in [Server -> [Server -> Seq(Message)]]
    BY <2>1, OwnBefore
  <2>3. CASE reconnected(p, m.n.pid, outgoing[p], Consume(p, q))
    BY <1>1, <2>1, <2>2, <2>3
  <2>4. CASE EndCall(p, out, Consume(p, q)) /\ state' = state
    <3>1. na.type = "NotAccepted"
      BY DEF NotAccepted
    <3> HIDE DEF na
    <3>2. OutFits(out)
      BY <1>0, <3>1, PlainFits
    <3> HIDE DEF out
    <3>3. state' \in {state, [state EXCEPT ![p] = state[p]]}
      BY <2>4
    <3> QED BY <1>0, <2>1, <2>2, <2>4, <3>2, <3>3, OwnUnstored
  <2> QED BY <2>1, <2>3, <2>4
<1>3. ASSUME NEW q \in Server, user_reconnected(p, q) PROVE OwnInv'
  BY <1>0, <1>1, <1>3 DEF user_reconnected
<1> QED BY <1>2, <1>3

\* ignore, drop, take_outgoing_msgs and restart.
LEMMA OwnEnvironment ==
  ASSUME Inv, OwnInv, NEW p \in Server
  PROVE  /\ \A q \in Server : ignore(p, q) \/ drop(p, q) => OwnInv'
         /\ take_outgoing_msgs(p) => OwnInv'
         /\ restart(p) => OwnInv'
<1>0. /\ OutFits(outgoing[p]) /\ outgoing[p] = [q \in Server |-> outgoing[p][q]]
      /\ OutFits(NoMessages) /\ NoMessages = [q \in Server |-> NoMessages[q]]
      /\ ChanFits(net) /\ net \in [Server -> [Server -> Seq(Message)]]
      /\ p \notin Elected => state[p][1] = "Follower" /\ StoresOnly(storage[p], Own(p))
  BY OwnBefore
<1>1. ASSUME NEW q \in Server, ignore(p, q) \/ drop(p, q) PROVE OwnInv'
  <2>1. net[q][p] # << >> /\ net' = Consume(p, q) /\ UNCHANGED << storage, state, outgoing >>
    BY <1>1 DEF ignore, Discard, drop, serverVars
  <2>2. ChanFits(Consume(p, q))
    BY <2>1, OwnBefore
  <2> QED BY <2>1, <2>2 DEF OwnInv, ChanFits
<1>2. ASSUME take_outgoing_msgs(p) PROVE OwnInv'
  <2>1. storage' = storage /\ state' = state /\ Ends(p, outgoing[p], net)
    BY <1>2 DEF take_outgoing_msgs, Ends
  <2>2. state' \in {state, [state EXCEPT ![p] = state[p]]}
    BY <2>1
  <2> QED BY <1>0, <2>1, <2>2, OwnUnstored
<1>3. ASSUME restart(p) PROVE OwnInv'
  <2> DEFINE s == load_cache(storage[p])
             st == << "Follower", "Recover" >>
             req == PrepareReq(s.promise)
             msgs == [q \in Peers(p) |-> req]
             out == push(NoMessages, msgs)
  <2>1. storage' = [storage EXCEPT ![p] = s] /\ state' = [state EXCEPT ![p] = st] /\ EndCall(p, out, net)
    BY <1>3 DEF restart, Called
  <2>2. p \notin Elected => st[1] = "Follower" /\ StoresOnly(s, Own(p))
    BY <1>0, KeptOK, StoresOnlyAppends DEF RoundsOK, StorageOK
  <2>3. req.type = "PrepareReq"
    BY DEF PrepareReq
  <2> HIDE DEF s, st, req
  <2>4. \A q \in Server : q \in DOMAIN msgs => msgs[q].type \notin {"AcceptSync", "AcceptDecide"}
    BY <2>3
  <2> HIDE DEF msgs
  <2>5. OutFits(out)
    BY <1>0, <2>4, PlainFits
  <2> HIDE DEF out
  <2>6. Fitting(p, s, st, out, net)
    BY <1>0, <2>1, <2>2, <2>5 DEF Fitting, EndCall, Ends
  <2> QED BY <2>6, OwnCall
<1> QED BY <1>1, <1>2, <1>3

\* Nothing is stored or sent to begin with.
LEMMA OwnInit == Init => OwnInv
<1> SUFFICES ASSUME Init PROVE OwnInv
  OBVIOUS
<1>1. ASSUME NEW p \in Server PROVE state[p][1] = "Follower" /\ StoresOnly(storage[p], Own(p))
  <2>1. storage[p].log = << >> /\ storage[p].batched_entries = << >>
    BY DEF Init, EmptyStorage
  <2>2. state[p][1] = "Follower"
    BY DEF Init
  <2> QED BY <2>1, <2>2, EmptySeq DEF StoresOnly
<1>2. \A x \in Server, q \in Server : outgoing[x][q] = << >> /\ net[x][q] = << >>
  BY DEF Init, NoMessages
<1>3. ChanFits(outgoing) /\ ChanFits(net)
  BY <1>2, FitSequences DEF ChanFits
<1> QED BY <1>1, <1>3 DEF OwnInv

\* Every step keeps every server to its fragments.
LEMMA OwnNext ==
  ASSUME CodedEntries, Inv, OwnInv, [ECNext]_vars
  PROVE  OwnInv'
<1>1. ASSUME NEW p \in Server, NEW q \in Peers(p), ec_handle(p, q) PROVE OwnInv'
  <2>1. q \in Server /\ UNCHANGED << proposed, budget >>
    BY <1>1 DEF Peers, ec_handle
  <2>2. CASE ec_handle_as_follower(p, q)
    BY <2>1, <2>2, OwnPrepare, OwnAcceptSync, OwnAccepts DEF ec_handle_as_follower
  <2>3. CASE ec_handle_as_leader(p, q)
    BY <2>1, <2>3, OwnLeads DEF ec_handle_as_leader
  <2>4. CASE ec_handle_promise_prepare(p, q) \/ ec_handle_promise_accept(p, q)
    BY <2>1, <2>4, OwnPromises
  <2>5. CASE ec_handle_forwarded_proposal(p, q) \/ ec_handle_forwarded_stopsign(p, q)
    BY <2>1, <2>5, OwnProposals
  <2>6. CASE handle_compaction(p, q)
    BY <2>1, <2>6, OwnCompaction
  <2>7. CASE ec_refuse(p, q)
    BY <2>1, <2>7, OwnRefuses, OwnEnvironment DEF ec_refuse
  <2> QED BY <1>1, <2>2, <2>3, <2>4, <2>5, <2>6, <2>7 DEF ec_handle
<1>2. ASSUME NEW p \in Server, NEW idx \in 1 .. storage[p].decided_idx, trim(p, idx) PROVE OwnInv'
  <2>1. idx \in Nat
    BY KeptOK DEF RoundsOK, StorageOK, Storage
  <2> QED BY <1>2, <2>1, OwnCompaction
<1>3. ASSUME NEW p \in Server, NEW local_only \in BOOLEAN,
             NEW idx \in {None} \cup 1 .. storage[p].decided_idx, snapshot(p, idx, local_only)
      PROVE  OwnInv'
  <2>1. idx \in Nat \cup {None}
    BY KeptOK DEF RoundsOK, StorageOK, Storage
  <2> QED BY <1>3, <2>1, OwnCompaction
<1>4. CASE UNCHANGED vars
  BY <1>4 DEF vars, serverVars, OwnInv, ChanFits
<1>5. CASE ECNext
  <2>1. PICK p \in Server :
          \/ ec_handle_leader(p)
          \/ \E q \in Peers(p) : ec_handle(p, q)
          \/ \E v \in Data : ec_append(p, v)
          \/ \E ss \in StopSign : ec_reconfigure(p, ss)
          \/ ec_trim(p)
          \/ ec_snapshot(p)
          \/ ec_resend_message_timeout(p)
          \/ ec_flush_batch_timeout(p)
          \/ ec_reconnected(p)
          \/ ec_take_outgoing_msgs(p)
          \/ \E q \in Peers(p) : drop(p, q)
          \/ ec_restart(p)
    BY <1>5 DEF ECNext
  <2>2. ec_handle_leader(p) => OwnInv'
    BY OwnLeader DEF ec_handle_leader
  <2>3. (\E v \in Data : ec_append(p, v)) \/ (\E ss \in StopSign : ec_reconfigure(p, ss)) => OwnInv'
    BY OwnProposals
  <2>4. ec_trim(p) \/ ec_snapshot(p) => OwnInv'
    BY <1>2, <1>3 DEF ec_trim, ec_snapshot
  <2>5. ec_resend_message_timeout(p) \/ ec_flush_batch_timeout(p) => OwnInv'
    BY OwnResends, OwnFlush DEF ec_resend_message_timeout
  <2>6. ec_reconnected(p) => OwnInv'
    BY OwnRefuses DEF ec_reconnected, Peers
  <2>7. ec_take_outgoing_msgs(p) \/ (\E q \in Peers(p) : drop(p, q)) \/ ec_restart(p) => OwnInv'
    BY OwnEnvironment DEF ec_take_outgoing_msgs, ec_restart, Peers
  <2> QED BY <1>1, <2>1, <2>2, <2>3, <2>4, <2>5, <2>6, <2>7
<1> QED BY <1>4, <1>5

\* "send only the correct fragment to each follower": the log of a server that
\* is never elected has fragments that were encoded for it, and no others.
THEOREM FragmentsTheorem ==
  ASSUME CodedEntries
  PROVE  ECSpec => []FollowersHoldTheirFragment
<1>1. Inv /\ OwnInv /\ [ECNext]_vars => OwnInv'
  BY OwnNext
<1>2. OwnInv => FollowersHoldTheirFragment
  <2> SUFFICES ASSUME OwnInv, NEW p \in Server \ {n.pid : n \in Ballots}, NEW i \in DOMAIN storage[p].log
               PROVE  LET path == storage[p].log[i].path
                      IN  path # << >> /\ path[Len(path)] = fragment_index_for_node(p)
    BY DEF FollowersHoldTheirFragment
  <2>1. storage[p].log \in Seq(Own(p))
    BY DEF OwnInv, Elected, StoresOnly
  <2>2. storage[p].log[i] \in Own(p)
    BY <2>1, LenProperties, ElementOfSeq
  <2> QED BY <2>2 DEF Own
<1>3. Init => OwnInv
  BY OwnInit
<1> QED BY <1>1, <1>2, <1>3, ECInvariance, PTL DEF ECSpec
==============================================================================
