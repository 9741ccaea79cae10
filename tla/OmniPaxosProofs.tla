--------------------------- MODULE OmniPaxosProofs ---------------------------
(***************************************************************************)
(* The service: the ballots come from real elections.  Whatever they are,  *)
(* a step of the service is one of Sequence Paxos, so that what            *)
(* AgreementProofs shows of logs holds of the service; and the round that  *)
(* the election reads back from a server is one that it made some server   *)
(* lead (ElectionSeesRounds).                                              *)
(*                                                                         *)
(* The second needs an invariant about messages: a round gets around with  *)
(* Prepare, so no Prepare on its way may carry a ballot that was not led.  *)
(*                                                                         *)
(* The last part shows, for Sequence Paxos and for the service, that no    *)
(* proposal is replicated twice (NoDuplicates): the invariant follows each *)
(* proposal through the buffers, the messages that forward it and the      *)
(* batch of a leader, to the log of a round.                               *)
(***************************************************************************)
EXTENDS OmniPaxos, AgreementProofs

------------------------------------------------------------------------------
(* Messages that bring no round but those of R *)

Vouched(R, m) == "type" \in DOMAIN m /\ (m.type = "Prepare" => m.n \in R)

VouchedSeq(R, x) == \E S : x \in Seq(S) /\ \A m \in S : Vouched(R, m)

VouchedOut(R, out) ==
  /\ out = [q \in Server |-> out[q]]
  /\ \A q \in Server : VouchedSeq(R, out[q])

VouchedNet(R, chan) ==
  /\ chan = [p \in Server |-> chan[p]]
  /\ \A p \in Server : VouchedOut(R, chan[p])

\* Every round that a server promised or leads, or may hear of, is one of R.
RoundsIn(R, sto, ls, out, chan) ==
  /\ \A p \in Server : sto[p].promise \in R /\ ls[p].n_leader \in R
  /\ VouchedNet(R, out) /\ VouchedNet(R, chan)

\* No message.
LEMMA VouchedEmpty ==
  ASSUME NEW R
  PROVE  VouchedSeq(R, << >>) /\ VouchedOut(R, NoMessages)
<1>1. VouchedSeq(R, << >>)
  <2>1. PICK S : S = {}
    OBVIOUS
  <2>2. << >> \in Seq(S) /\ \A m \in S : Vouched(R, m)
    BY <2>1, EmptySeq
  <2> QED BY <2>2 DEF VouchedSeq
<1> QED BY <1>1 DEF VouchedOut, NoMessages

\* One more message.
LEMMA VouchedAppend ==
  ASSUME NEW R, NEW x, VouchedSeq(R, x), NEW m, Vouched(R, m)
  PROVE  VouchedSeq(R, Append(x, m))
<1>1. PICK S : x \in Seq(S) /\ \A e \in S : Vouched(R, e)
  BY DEF VouchedSeq
<1>2. PICK T : T = S \cup {m}
  OBVIOUS
<1>3. x \in Seq(T) /\ m \in T /\ \A e \in T : Vouched(R, e)
  BY <1>1, <1>2, SeqMonotonic
<1>4. Append(x, m) \in Seq(T)
  BY <1>3, AppendProperties
<1> QED BY <1>3, <1>4 DEF VouchedSeq

\* Messages behind each other.
LEMMA VouchedConcat ==
  ASSUME NEW R, NEW x, NEW y, VouchedSeq(R, x), VouchedSeq(R, y)
  PROVE  VouchedSeq(R, x \o y)
<1>1. PICK S : x \in Seq(S) /\ \A e \in S : Vouched(R, e)
  BY DEF VouchedSeq
<1>2. PICK U : y \in Seq(U) /\ \A e \in U : Vouched(R, e)
  BY DEF VouchedSeq
<1>3. PICK T : T = S \cup U
  OBVIOUS
<1>4. x \in Seq(T) /\ y \in Seq(T) /\ \A e \in T : Vouched(R, e)
  BY <1>1, <1>2, <1>3, SeqMonotonic
<1>5. x \o y \in Seq(T)
  BY <1>4, ConcatProperties
<1> QED BY <1>4, <1>5 DEF VouchedSeq

\* All but the first message, and the first one.
LEMMA VouchedTail ==
  ASSUME NEW R, NEW x, VouchedSeq(R, x), x # << >>
  PROVE  VouchedSeq(R, Tail(x)) /\ Vouched(R, Head(x))
<1>1. PICK S : x \in Seq(S) /\ \A e \in S : Vouched(R, e)
  BY DEF VouchedSeq
<1>2. Tail(x) \in Seq(S) /\ Head(x) \in S
  BY <1>1, HeadTailProperties
<1> QED BY <1>1, <1>2 DEF VouchedSeq

\* A message that still waits is replaced by another one.
LEMMA VouchedExcept ==
  ASSUME NEW R, NEW x, VouchedSeq(R, x), NEW k, NEW m, k \in 1 .. Len(x) /\ Vouched(R, x[k]) => Vouched(R, m)
  PROVE  VouchedSeq(R, [x EXCEPT ![k] = m])
<1>1. PICK S : x \in Seq(S) /\ \A e \in S : Vouched(R, e)
  BY DEF VouchedSeq
<1>2. PICK T : T = IF Vouched(R, m) THEN S \cup {m} ELSE S
  OBVIOUS
<1>3. x \in Seq(T) /\ \A e \in T : Vouched(R, e)
  BY <1>1, <1>2, SeqMonotonic
<1>4. k \in 1 .. Len(x) => m \in T
  <2>1. k \in 1 .. Len(x) => x[k] \in S
    BY <1>1, ElementOfSeq
  <2> QED BY <1>1, <1>2, <2>1
<1>5. [x EXCEPT ![k] = m] \in Seq(T)
  BY <1>3, <1>4, OverwriteOK
<1> QED BY <1>3, <1>5 DEF VouchedSeq

\* One more message for q.
LEMMA VouchedSend ==
  ASSUME NEW R, NEW out, VouchedOut(R, out), NEW q, NEW m, Vouched(R, m)
  PROVE  VouchedOut(R, send(out, q, m))
<1>1. send(out, q, m) = [r \in Server |-> IF r = q THEN Append(out[r], m) ELSE out[r]]
  BY DEF send, VouchedOut
<1>2. \A r \in Server : VouchedSeq(R, Append(out[r], m))
  BY VouchedAppend DEF VouchedOut
<1> QED BY <1>1, <1>2 DEF VouchedOut

\* One more message for each server in the domain of msgs.
LEMMA VouchedPush ==
  ASSUME NEW R, NEW out, VouchedOut(R, out), NEW msgs, \A q \in DOMAIN msgs : Vouched(R, msgs[q])
  PROVE  VouchedOut(R, push(out, msgs))
<1>1. push(out, msgs) = [q \in Server |-> IF q \in DOMAIN msgs THEN Append(out[q], msgs[q]) ELSE out[q]]
  BY DEF push
<1>2. \A q \in Server : q \in DOMAIN msgs => VouchedSeq(R, Append(out[q], msgs[q]))
  BY VouchedAppend DEF VouchedOut
<1> QED BY <1>1, <1>2 DEF VouchedOut

\* send_acceptdecide sends no Prepare and extends none.
LEMMA VouchedAccdec ==
  ASSUME NEW R, NEW l, NEW out, VouchedOut(R, out), NEW d, NEW entries
  PROVE  VouchedOut(R, accdec_outgoing(l, out, d, entries))
<1> DEFINE k(q) == l.latest_accept_meta[q]
           ext(q) == extended(out[q][k(q)], d, entries)
           new(q) == AcceptDecide(l.n_leader, next_seq_num(l.follower_seq_nums[q]), d, entries)
<1>1. accdec_outgoing(l, out, d, entries) =
        [q \in Server |->
           IF q \notin get_promised_followers(l)
             THEN out[q]
             ELSE IF has_latest_accdec(l, out, q)
                    THEN [out[q] EXCEPT ![k(q)] = ext(q)]
                    ELSE Append(out[q], new(q))]
  BY DEF accdec_outgoing
<1>2. ASSUME NEW q \in Server, has_latest_accdec(l, out, q)
      PROVE  VouchedSeq(R, [out[q] EXCEPT ![k(q)] = ext(q)])
  <2>1. Vouched(R, out[q][k(q)]) => Vouched(R, ext(q))
    BY <1>2 DEF has_latest_accdec, extended, Vouched
  <2> QED BY <2>1, VouchedExcept DEF VouchedOut
<1>3. ASSUME NEW q \in Server
      PROVE  VouchedSeq(R, Append(out[q], new(q)))
  <2>1. Vouched(R, new(q))
    BY DEF AcceptDecide, Vouched
  <2> QED BY <2>1, VouchedAppend DEF VouchedOut
<1> HIDE DEF k, ext, new
<1> QED BY <1>1, <1>2, <1>3 DEF VouchedOut

\* reply_accepted sends no Prepare and overwrites none.
LEMMA VouchedReply ==
  ASSUME NEW R, NEW f, NEW out, VouchedOut(R, out), NEW n, NEW idx
  PROVE  VouchedOut(R, reply_accepted_outgoing(f, out, n, idx))
<1> DEFINE k == f.latest_accepted_meta.idx
           m == [out[n.pid][k] EXCEPT !.accepted_idx = idx]
<1>1. CASE has_latest_accepted(f, out, n)
  <2>1. reply_accepted_outgoing(f, out, n, idx) =
          [r \in Server |-> IF r = n.pid THEN [out[r] EXCEPT ![k] = m] ELSE out[r]]
    BY <1>1 DEF reply_accepted_outgoing, VouchedOut
  <2>2. Vouched(R, out[n.pid][k]) => Vouched(R, m)
    BY <1>1 DEF has_latest_accepted, Vouched
  <2> HIDE DEF m
  <2>3. n.pid \in Server => VouchedSeq(R, [out[n.pid] EXCEPT ![k] = m])
    BY <2>2, VouchedExcept DEF VouchedOut
  <2> QED BY <2>1, <2>3 DEF VouchedOut
<1>2. CASE ~ has_latest_accepted(f, out, n)
  <2>1. Vouched(R, Accepted(n, idx))
    BY DEF Accepted, Vouched
  <2> QED BY <1>2, <2>1, VouchedSend DEF reply_accepted_outgoing
<1> QED BY <1>1, <1>2

\* The network without the message that is handled, and that message.
LEMMA VouchedChannels ==
  ASSUME NEW R, VouchedNet(R, net), NEW p \in Server, NEW q \in Server, net[q][p] # << >>
  PROVE  VouchedNet(R, Consume(p, q)) /\ Vouched(R, Head(net[q][p]))
<1>1. VouchedSeq(R, Tail(net[q][p])) /\ Vouched(R, Head(net[q][p]))
  BY VouchedTail DEF VouchedNet, VouchedOut
<1>2. PICK t : t = Tail(net[q][p])
  OBVIOUS
<1>3. PICK o : o = [net[q] EXCEPT ![p] = t]
  OBVIOUS
<1>4. Consume(p, q) = [net EXCEPT ![q] = o]
  BY <1>2, <1>3 DEF Consume
<1>5. VouchedOut(R, o)
  <2>1. net[q] = [r \in Server |-> net[q][r]]
    BY DEF VouchedNet, VouchedOut
  <2>2. o = [r \in Server |-> IF r = p THEN t ELSE net[q][r]]
    BY <1>3, <2>1
  <2> QED BY <1>1, <1>2, <2>2 DEF VouchedNet, VouchedOut
<1>6. Consume(p, q) = [r \in Server |-> IF r = q THEN o ELSE net[r]]
  BY <1>4 DEF VouchedNet
<1> QED BY <1>1, <1>5, <1>6 DEF VouchedNet

\* The messages of p enter the network.
LEMMA VouchedTransmit ==
  ASSUME NEW R, NEW chan, VouchedNet(R, chan), NEW p \in Server, NEW out, VouchedOut(R, out)
  PROVE  VouchedNet(R, Transmit(chan, p, out))
<1>1. PICK o : o = [q \in Server |-> IF << p, q >> \in Links THEN chan[p][q] \o out[q] ELSE chan[p][q]]
  OBVIOUS
<1>2. \A q \in Server : VouchedSeq(R, chan[p][q] \o out[q]) /\ VouchedSeq(R, chan[p][q])
  BY VouchedConcat DEF VouchedNet, VouchedOut
<1>3. VouchedOut(R, o)
  BY <1>1, <1>2 DEF VouchedOut
<1>4. Transmit(chan, p, out) = [r \in Server |-> IF r = p THEN o ELSE chan[r]]
  BY <1>1 DEF Transmit, VouchedNet
<1> QED BY <1>3, <1>4 DEF VouchedNet

\* A call of p brings no round but those of R if what it stores, keeps and
\* sends does not.
LEMMA CallWithin ==
  ASSUME Inv, NEW R, RoundsIn(R, storage, leader_state, outgoing, net), NEW p \in Server,
         NEW s, s.promise \in R, storage' = [storage EXCEPT ![p] = s],
         NEW l, l.n_leader \in R, leader_state' = [leader_state EXCEPT ![p] = l],
         NEW out, VouchedOut(R, out), NEW chan, VouchedNet(R, chan), EndCall(p, out, chan)
  PROVE  RoundsIn(R, storage', leader_state', outgoing', net')
<1>1. \A q \in Server : /\ storage'[q] = (IF q = p THEN s ELSE storage[q])
                        /\ leader_state'[q] = (IF q = p THEN l ELSE leader_state[q])
  BY DEF Inv, TypeOK
<1>2. \A q \in Server : storage'[q].promise \in R /\ leader_state'[q].n_leader \in R
  BY <1>1 DEF RoundsIn
<1>3. VouchedNet(R, Transmit(chan, p, out)) /\ VouchedNet(R, outgoing)
  BY VouchedTransmit DEF RoundsIn
<1>4. VouchedNet(R, [outgoing EXCEPT ![p] = out])
  <2>1. [outgoing EXCEPT ![p] = out] = [q \in Server |-> IF q = p THEN out ELSE outgoing[q]]
    BY DEF VouchedNet, RoundsIn
  <2> QED BY <2>1 DEF VouchedNet, RoundsIn
<1>5. VouchedNet(R, outgoing') /\ VouchedNet(R, net')
  BY <1>3, <1>4 DEF EndCall
<1> QED BY <1>2, <1>5 DEF RoundsIn

\* A call that neither promises nor leads another round.
LEMMA SameRoundsWithin ==
  ASSUME Inv, NEW R, RoundsIn(R, storage, leader_state, outgoing, net), NEW p \in Server,
         NEW s, s.promise = storage[p].promise, storage' = [storage EXCEPT ![p] = s],
         NEW l, l.n_leader = leader_state[p].n_leader, leader_state' = [leader_state EXCEPT ![p] = l],
         NEW out, VouchedOut(R, out), NEW chan, VouchedNet(R, chan), EndCall(p, out, chan)
  PROVE  RoundsIn(R, storage', leader_state', outgoing', net')
<1>1. s.promise \in R /\ l.n_leader \in R
  BY DEF RoundsIn
<1> QED BY <1>1, CallWithin

------------------------------------------------------------------------------
(* What the operators leave alone *)

SamePromise(s, t) == "promise" \in DOMAIN t /\ t.promise = s.promise

\* Only a Prepare and the election change the promise.
LEMMA PromiseStays ==
  ASSUME NEW s, "promise" \in DOMAIN s, NEW x, NEW y, NEW z
  PROVE  /\ SamePromise(s, s)
         /\ SamePromise(s, append_entries_without_batching(s, x))
         /\ SamePromise(s, flush_batch(s))
         /\ SamePromise(s, append_entries_with_batching(s, x))
         /\ SamePromise(s, append_stopsign(s, x))
         /\ SamePromise(s, set_stopsign(s, x))
         /\ SamePromise(s, sync_log(s, x, y, z))
         /\ SamePromise(s, update_decided_idx(s, x))
         /\ SamePromise(s, try_trim(s, x))
         /\ SamePromise(s, try_snapshot(s, x))
         /\ SamePromise(s, load_cache(s))
<1>1. SamePromise(s, s)
  BY DEF SamePromise
<1>2. \A t, e : "promise" \in DOMAIN t => SamePromise(t, append_entries_without_batching(t, e))
  BY DEF SamePromise, append_entries_without_batching
<1>3. \A t : "promise" \in DOMAIN t => SamePromise(t, flush_batch(t))
  BY <1>2 DEF SamePromise, flush_batch
<1>4. SamePromise(s, append_entries_with_batching(s, x))
  BY <1>3 DEF SamePromise, append_entries_with_batching
<1>5. SamePromise(s, append_stopsign(s, x))
  BY <1>3 DEF SamePromise, append_stopsign
<1>6. SamePromise(s, set_stopsign(s, x))
  BY DEF SamePromise, set_stopsign
<1>7. SamePromise(s, sync_log(s, x, y, z))
  BY DEF SamePromise, sync_log
<1>8. SamePromise(s, update_decided_idx(s, x))
  BY <1>3 DEF SamePromise, update_decided_idx
<1>9. \A i : SamePromise(s, compact(s, i))
  BY DEF SamePromise, compact
<1>10. SamePromise(s, try_trim(s, x))
  BY <1>9 DEF SamePromise, try_trim
<1>11. SamePromise(s, try_snapshot(s, x))
  BY <1>9 DEF SamePromise, try_snapshot
<1>12. SamePromise(s, load_cache(s))
  BY DEF SamePromise, load_cache
<1> QED BY <1>1, <1>2, <1>3, <1>4, <1>5, <1>6, <1>7, <1>8, <1>10, <1>11, <1>12

SameLeader(l, m) == "n_leader" \in DOMAIN m /\ m.n_leader = l.n_leader

\* The bookkeeping of a leader never changes the round it is for.
LEMMA LeaderStays ==
  ASSUME NEW l, "n_leader" \in DOMAIN l, NEW x, NEW y, NEW z, NEW u
  PROVE  /\ SameLeader(l, l)
         /\ SameLeader(l, set_accepted_idx(l, x, y))
         /\ SameLeader(l, accdec_leader_state(l, x))
         /\ SameLeader(l, accsync_leader_state(l, x))
         /\ SameLeader(l, set_promise(l, x, y, z, u))
         /\ SameLeader(l, reset_promise(l, x))
         /\ SameLeader(l, lost_promise(l, x))
         /\ SameLeader(l, reset_latest_accept_meta(l))
         /\ SameLeader(l, [l EXCEPT !.follower_seq_nums = x])
         /\ SameLeader(l, [l EXCEPT !.latest_accept_meta[x] = y])
         /\ SameLeader(l, [l EXCEPT !.max_promise_sync = x])
<1>1. SameLeader(l, l) /\ SameLeader(l, set_accepted_idx(l, x, y))
  BY DEF SameLeader, set_accepted_idx
<1>2. SameLeader(l, accdec_leader_state(l, x)) /\ SameLeader(l, accsync_leader_state(l, x))
  BY DEF SameLeader, accdec_leader_state, accsync_leader_state
<1>3. SameLeader(l, set_promise(l, x, y, z, u))
  BY DEF SameLeader, set_promise
<1>4. SameLeader(l, reset_promise(l, x)) /\ SameLeader(l, lost_promise(l, x))
  BY DEF SameLeader, reset_promise, lost_promise
<1>5. SameLeader(l, reset_latest_accept_meta(l))
  BY DEF SameLeader, reset_latest_accept_meta
<1>6. /\ SameLeader(l, [l EXCEPT !.follower_seq_nums = x])
      /\ SameLeader(l, [l EXCEPT !.latest_accept_meta[x] = y])
      /\ SameLeader(l, [l EXCEPT !.max_promise_sync = x])
  BY DEF SameLeader
<1> QED BY <1>1, <1>2, <1>3, <1>4, <1>5, <1>6

------------------------------------------------------------------------------
(* Each call of Sequence Paxos *)

Before(R) == Inv /\ RoundsIn(R, storage, leader_state, outgoing, net)
After(R) == RoundsIn(R, storage', leader_state', outgoing', net')

\* What p keeps, has not sent yet, and may receive.
LEMMA KeptWithin ==
  ASSUME NEW R, Before(R), NEW p \in Server
  PROVE  /\ storage = [storage EXCEPT ![p] = storage[p]]
         /\ leader_state = [leader_state EXCEPT ![p] = leader_state[p]]
         /\ "promise" \in DOMAIN storage[p] /\ "n_leader" \in DOMAIN leader_state[p]
         /\ storage[p].promise \in R /\ leader_state[p].n_leader \in R
         /\ VouchedOut(R, outgoing[p]) /\ VouchedNet(R, net)
         /\ \A q \in Server : net[q][p] # << >> =>
              VouchedNet(R, Consume(p, q)) /\ Vouched(R, Head(net[q][p]))
<1>1. storage[p] \in Storage /\ leader_state[p] \in LeaderStates
  BY DEF Before, Inv, TypeOK
<1>2. "promise" \in DOMAIN storage[p] /\ "n_leader" \in DOMAIN leader_state[p]
  BY <1>1 DEF Storage, LeaderStates
<1>3. storage[p].promise \in R /\ leader_state[p].n_leader \in R
  BY DEF Before, RoundsIn
<1>4. VouchedOut(R, outgoing[p]) /\ VouchedNet(R, net)
  BY DEF Before, RoundsIn, VouchedNet
<1> QED BY <1>2, <1>3, <1>4, KeptOK, VouchedChannels DEF Before

\* A call of p that stores s, keeps the books l and sends out.
LEMMA StepWithin ==
  ASSUME NEW R, Before(R), NEW p \in Server,
         NEW s, SamePromise(storage[p], s), storage' = [storage EXCEPT ![p] = s],
         NEW l, SameLeader(leader_state[p], l), leader_state' = [leader_state EXCEPT ![p] = l],
         NEW out, VouchedOut(R, out), NEW chan, VouchedNet(R, chan), EndCall(p, out, chan)
  PROVE  After(R)
BY SameRoundsWithin DEF Before, After, SamePromise, SameLeader

\* A call of p that leaves the storage and the books alone.
LEMMA SendsWithin ==
  ASSUME NEW R, Before(R), NEW p \in Server, UNCHANGED << storage, leader_state >>,
         NEW out, VouchedOut(R, out), NEW chan, VouchedNet(R, chan), EndCall(p, out, chan)
  PROVE  After(R)
<1>1. SamePromise(storage[p], storage[p]) /\ SameLeader(leader_state[p], leader_state[p])
  BY KeptWithin DEF SamePromise, SameLeader
<1> QED BY <1>1, KeptWithin, StepWithin

\* Proposals are appended or forwarded (append, handle_forwarded_proposal).
LEMMA ProposeWithin ==
  ASSUME NEW R, Before(R), NEW p \in Server, NEW entries, NEW chan, VouchedNet(R, chan),
         propose_entries(p, entries, chan)
  PROVE  After(R)
<1>1. CASE state[p] = << "Leader", "Accept" >>
  <2>1. PICK s : s = append_entries_with_batching(storage[p], entries)
    OBVIOUS
  <2>2. accept_entries_leader(p, entries, chan)
    BY <1>1 DEF propose_entries
  <2>3. SamePromise(storage[p], s)
    BY <2>1, KeptWithin, PromiseStays
  <2>4. CASE fills_batch(storage[p], entries)
    <3>1. PICK e : e = storage[p].batched_entries \o entries
      OBVIOUS
    <3>2. accepts(p, s, e, chan)
      BY <2>1, <2>2, <2>4, <3>1 DEF accept_entries_leader
    <3>3. PICK l1, l2 : /\ l1 = set_accepted_idx(leader_state[p], p, s.accepted_idx)
                        /\ l2 = accdec_leader_state(l1, outgoing[p])
      OBVIOUS
    <3>4. SameLeader(leader_state[p], l1)
      BY <3>3, KeptWithin, LeaderStays
    <3>9. SameLeader(l1, l2)
      BY <3>3, <3>4, LeaderStays DEF SameLeader
    <3>5. PICK out : out = accdec_outgoing(l1, outgoing[p], s.decided_idx, e)
      OBVIOUS
    <3>6. VouchedOut(R, out)
      BY <3>5, KeptWithin, VouchedAccdec
    <3>7. /\ storage' = [storage EXCEPT ![p] = s]
          /\ leader_state' = [leader_state EXCEPT ![p] = l2]
          /\ EndCall(p, out, chan)
      BY <3>2, <3>3, <3>5 DEF accepts
    <3>8. SameLeader(leader_state[p], l2)
      BY <3>4, <3>9 DEF SameLeader
    <3> QED BY <2>3, <3>6, <3>7, <3>8, StepWithin
  <2>5. CASE ~ fills_batch(storage[p], entries)
    <3>1. /\ storage' = [storage EXCEPT ![p] = s] /\ leader_state' = leader_state
          /\ EndCall(p, outgoing[p], chan)
      BY <2>1, <2>2, <2>5 DEF accept_entries_leader
    <3>2. SameLeader(leader_state[p], leader_state[p])
      BY KeptWithin DEF SameLeader
    <3> QED BY <2>3, <3>1, <3>2, KeptWithin, StepWithin
  <2> QED BY <2>4, <2>5
<1>2. CASE state[p] # << "Leader", "Accept" >>
  <2>1. PICK out : out = IF state[p] = << "Leader", "Prepare" >>
                           THEN outgoing[p]
                           ELSE forward_proposals_outgoing(p, outgoing[p], entries)
    OBVIOUS
  <2>2. Vouched(R, ProposalForward(entries))
    BY DEF ProposalForward, Vouched
  <2>3. VouchedOut(R, out)
    BY <2>1, <2>2, KeptWithin, VouchedSend DEF forward_proposals_outgoing
  <2>4. EndCall(p, out, chan) /\ UNCHANGED << storage, leader_state >>
    BY <1>2, <2>1 DEF propose_entries
  <2> QED BY <2>3, <2>4, SendsWithin
<1> QED BY <1>1, <1>2

\* A stop sign is appended, buffered or forwarded (reconfigure,
\* handle_forwarded_stopsign).
LEMMA ProposeStopSignWithin ==
  ASSUME NEW R, Before(R), NEW p \in Server, NEW ss, NEW chan, VouchedNet(R, chan),
         propose_stopsign(p, ss, chan)
  PROVE  After(R)
<1>1. CASE state[p] = << "Leader", "Accept" >>
  <2>1. accept_stopsign_leader(p, ss, chan)
    BY <1>1 DEF propose_stopsign
  <2> DEFINE s == append_stopsign(storage[p], ss)
             l0 == leader_state[p]
             batched == storage[p].batched_entries
             l1 == IF batched = << >> THEN l0 ELSE accdec_leader_state(l0, outgoing[p])
             out1 == IF batched = << >> THEN outgoing[p]
                     ELSE accdec_outgoing(l0, outgoing[p], s.decided_idx, batched)
             Q == get_promised_followers(l1) \cap Server
             m == set_accepted_idx(l1, p, s.accepted_idx)
             sns == [r \in Slots |-> IF r \in Q THEN next_seq_num(m.follower_seq_nums[r])
                                                ELSE m.follower_seq_nums[r]]
             l2 == [m EXCEPT !.follower_seq_nums = sns]
             msgs == [q \in Q |-> AcceptStopSign(l2.n_leader, l2.follower_seq_nums[q], ss)]
  <2>2. /\ storage' = [storage EXCEPT ![p] = s]
        /\ leader_state' = [leader_state EXCEPT ![p] = l2]
        /\ EndCall(p, push(out1, msgs), chan)
    BY <2>1 DEF accept_stopsign_leader
  <2>3. SamePromise(storage[p], s)
    BY KeptWithin, PromiseStays
  <2>4. SameLeader(l0, l1)
    BY KeptWithin, LeaderStays
  <2>5. VouchedOut(R, out1)
    BY KeptWithin, VouchedAccdec
  <2> HIDE DEF s, l1, out1
  <2>6. SameLeader(l1, m)
    BY <2>4, LeaderStays DEF SameLeader
  <2> HIDE DEF m, sns
  <2>7. SameLeader(m, l2)
    BY <2>6 DEF SameLeader
  <2>8. SameLeader(leader_state[p], l2)
    BY <2>4, <2>6, <2>7 DEF SameLeader
  <2>9. \A q \in DOMAIN msgs : Vouched(R, msgs[q])
    BY DEF AcceptStopSign, Vouched
  <2> HIDE DEF msgs, l2
  <2>10. VouchedOut(R, push(out1, msgs))
    BY <2>5, <2>9, VouchedPush
  <2> QED BY <2>2, <2>3, <2>8, <2>10, StepWithin
<1>2. CASE state[p] # << "Leader", "Accept" >>
  <2>1. Vouched(R, ForwardStopSign(ss))
    BY DEF ForwardStopSign, Vouched
  <2>2. PICK out : /\ out \in {outgoing[p], send(outgoing[p], get_current_leader(p), ForwardStopSign(ss))}
                   /\ EndCall(p, out, chan) /\ UNCHANGED << storage, leader_state >>
    BY <1>2 DEF propose_stopsign
  <2>3. VouchedOut(R, out)
    BY <2>1, <2>2, KeptWithin, VouchedSend
  <2> QED BY <2>2, <2>3, SendsWithin
<1> QED BY <1>1, <1>2

\* Proposals of the user and of other servers.
LEMMA ProposalsWithin ==
  ASSUME NEW R, Before(R), NEW p \in Server
  PROVE  /\ \A v : append(p, v) => After(R)
         /\ \A ss : reconfigure(p, ss) => After(R)
         /\ \A q \in Server : handle_forwarded_proposal(p, q) \/ handle_forwarded_stopsign(p, q) => After(R)
<1>1. ASSUME NEW v, append(p, v) PROVE After(R)
  BY <1>1, KeptWithin, ProposeWithin DEF append
<1>2. ASSUME NEW ss, reconfigure(p, ss) PROVE After(R)
  BY <1>2, KeptWithin, ProposeStopSignWithin DEF reconfigure
<1>3. ASSUME NEW q \in Server, handle_forwarded_proposal(p, q) PROVE After(R)
  BY <1>3, KeptWithin, ProposeWithin DEF handle_forwarded_proposal, Incoming
<1>4. ASSUME NEW q \in Server, handle_forwarded_stopsign(p, q) PROVE After(R)
  BY <1>4, KeptWithin, ProposeStopSignWithin DEF handle_forwarded_stopsign, Incoming
<1> QED BY <1>1, <1>2, <1>3, <1>4

\* Whom the election names promises and leads the new round, and prepares the others.
LEMMA HandleLeaderWithin ==
  ASSUME NEW R, Before(R), NEW p \in Server, NEW n \in R, handle_leader(p, n)
  PROVE  After(R)
<1>1. PICK f, s, my_promise, l, out :
        /\ f = flush_batch(storage[p]) /\ s = [f EXCEPT !.promise = n]
        /\ my_promise = Promise(n, s, None)
        /\ l = set_promise(LeaderState_with(n), p, PromiseMeta(my_promise), None, TRUE)
        /\ out = push(outgoing[p], [q \in Peers(p) |-> Prepare(n, s)])
  OBVIOUS
<1>2. /\ storage' = [storage EXCEPT ![p] = s] /\ leader_state' = [leader_state EXCEPT ![p] = l]
      /\ EndCall(p, out, net)
  BY <1>1 DEF handle_leader, Called
<1>3. SamePromise(storage[p], f)
  BY <1>1, KeptWithin, PromiseStays
<1>4. s.promise = n
  BY <1>1, <1>3 DEF SamePromise
<1>5. "n_leader" \in DOMAIN LeaderState_with(n) /\ LeaderState_with(n).n_leader = n
  BY DEF LeaderState_with
<1>6. l.n_leader = n
  <2>1. PICK l0, meta : l0 = LeaderState_with(n) /\ meta = PromiseMeta(my_promise)
    OBVIOUS
  <2>2. SameLeader(l0, set_promise(l0, p, meta, None, TRUE))
    BY <1>5, <2>1, LeaderStays
  <2> QED BY <1>1, <1>5, <2>1, <2>2 DEF SameLeader
<1>7. \A q \in Peers(p) : Vouched(R, Prepare(n, s))
  BY DEF Prepare, Vouched
<1>8. VouchedOut(R, out)
  BY <1>1, <1>7, KeptWithin, VouchedPush
<1>9. /\ Inv /\ RoundsIn(R, storage, leader_state, outgoing, net) /\ VouchedNet(R, net)
      /\ s.promise \in R /\ l.n_leader \in R
  BY <1>4, <1>6, KeptWithin DEF Before
<1>10. RoundsIn(R, storage', leader_state', outgoing', net')
  BY <1>2, <1>8, <1>9, CallWithin
<1> QED BY <1>10 DEF After

\* A server that asks is prepared again, in the round that p leads.
LEMMA HandlePrepareReqWithin ==
  ASSUME NEW R, Before(R), NEW p \in Server, NEW q \in Server, handle_preparereq(p, q)
  PROVE  After(R)
<1>1. PICK l, m, out :
        /\ l = reset_promise(leader_state[p], q) /\ m = [l EXCEPT !.latest_accept_meta[q] = 0]
        /\ out = send(outgoing[p], q, Prepare(l.n_leader, storage[p]))
  OBVIOUS
<1>2. /\ UNCHANGED storage /\ leader_state' = [leader_state EXCEPT ![p] = m] /\ net[q][p] # << >>
      /\ EndCall(p, out, Consume(p, q))
  BY <1>1 DEF handle_preparereq, Handled, Incoming
<1>3. SameLeader(leader_state[p], l)
  BY <1>1, KeptWithin, LeaderStays
<1>4. SameLeader(leader_state[p], m)
  BY <1>1, <1>3, LeaderStays DEF SameLeader
<1>5. Vouched(R, Prepare(l.n_leader, storage[p]))
  BY <1>3, KeptWithin DEF SameLeader, Prepare, Vouched
<1>6. VouchedOut(R, out)
  BY <1>1, <1>5, KeptWithin, VouchedSend
<1>7. SamePromise(storage[p], storage[p])
  BY KeptWithin DEF SamePromise
<1> QED BY <1>2, <1>4, <1>6, <1>7, KeptWithin, StepWithin

\* A message is received, or lost, and nothing is sent or led.
LEMMA ReceivesWithin ==
  ASSUME NEW R, Before(R), NEW p \in Server, NEW q \in Server, net[q][p] # << >>,
         NEW s, s.promise \in R, storage' = [storage EXCEPT ![p] = s],
         net' = Consume(p, q), UNCHANGED << leader_state, outgoing >>
  PROVE  After(R)
<1>1. \A r \in Server : storage'[r] = IF r = p THEN s ELSE storage[r]
  BY DEF Before, Inv, TypeOK
<1>2. \A r \in Server : storage'[r].promise \in R /\ leader_state'[r].n_leader \in R
  BY <1>1 DEF Before, RoundsIn
<1>3. VouchedNet(R, outgoing') /\ VouchedNet(R, net')
  BY KeptWithin DEF Before, RoundsIn
<1> QED BY <1>2, <1>3 DEF After, RoundsIn

\* The network loses a message, or the handler returns early.
LEMMA LostWithin ==
  ASSUME NEW R, Before(R), NEW p \in Server, NEW q \in Server
  PROVE  /\ drop(p, q) => After(R)
         /\ ignore(p, q) => After(R)
<1>1. storage[p].promise \in R /\ storage = [storage EXCEPT ![p] = storage[p]]
  BY KeptWithin
<1>2. ASSUME drop(p, q) PROVE After(R)
  BY <1>1, <1>2, ReceivesWithin DEF drop, serverVars
<1>3. ASSUME ignore(p, q) PROVE After(R)
  BY <1>1, <1>3, ReceivesWithin DEF ignore, Discard, serverVars
<1> QED BY <1>2, <1>3

\* A promise in the Prepare phase, of a majority or not.
LEMMA HandlePromisePrepareWithin ==
  ASSUME NEW R, Before(R), NEW p \in Server, NEW q \in Server, handle_promise_prepare(p, q)
  PROVE  After(R)
<1> DEFINE m == Head(net[q][p])
           l == set_promise(leader_state[p], q, PromiseMeta(m), m.log_sync, TRUE)
           s1 == sync_log(storage[p], l.n_leader, get_max_decided_idx(l), l.max_promise_sync)
           stopped == accepted_reconfiguration(s1)
           s2 == IF stopped THEN s1 ELSE append_entries_without_batching(s1, buffered_proposals[p])
           s3 == IF stopped \/ buffered_stopsign[p] = None
                   THEN s2 ELSE append_stopsign(s2, buffered_stopsign[p])
           Q == get_promised_followers(l) \cap Server
           la == set_accepted_idx(l, p, s3.accepted_idx)
           lb == [la EXCEPT !.max_promise_sync = None]
           l1 == accsync_leader_state(lb, Q)
           msgs == [r \in Q |-> accsync_message(s3, l1, r)]
           sync_panics == sync_log_panics(storage[p], get_max_decided_idx(l), l.max_promise_sync)
<1>1. net[q][p] # << >>
  BY DEF handle_promise_prepare, Incoming
<1>2. SameLeader(leader_state[p], l)
  BY KeptWithin, LeaderStays
<1>3. CASE handle_majority_promises(p, q, l)
  <2>1. SamePromise(storage[p], s1)
    BY KeptWithin, PromiseStays
  <2>2. /\ storage' = IF sync_panics THEN storage ELSE [storage EXCEPT ![p] = s3]
        /\ IF sync_panics \/ \E r \in Q : send_accsync_panics(s3, l1, r)
             THEN Panic(p, q)
             ELSE /\ leader_state' = [leader_state EXCEPT ![p] = l1]
                  /\ Handled(p, q, push(outgoing[p], msgs))
    BY <1>3 DEF handle_majority_promises
  <2>3. \A r \in DOMAIN msgs : Vouched(R, msgs[r])
    BY DEF accsync_message, AcceptSync, Vouched
  <2> HIDE DEF s1, l, sync_panics, msgs
  <2>4. SamePromise(s1, s2)
    BY <2>1, PromiseStays DEF SamePromise
  <2> HIDE DEF s2
  <2>5. SamePromise(s2, s3)
    BY <2>4, PromiseStays DEF SamePromise
  <2> HIDE DEF s3, Q
  <2>6. SamePromise(storage[p], s3)
    BY <2>1, <2>4, <2>5 DEF SamePromise
  <2>7. SameLeader(l, la)
    BY <1>2, LeaderStays DEF SameLeader
  <2> HIDE DEF la
  <2>8. SameLeader(la, lb)
    BY <2>7, LeaderStays DEF SameLeader
  <2> HIDE DEF lb
  <2>9. SameLeader(lb, l1)
    BY <2>8, LeaderStays DEF SameLeader
  <2> HIDE DEF l1
  <2>10. SameLeader(leader_state[p], l1)
    BY <1>2, <2>7, <2>8, <2>9 DEF SameLeader
  <2>11. PICK s : SamePromise(storage[p], s) /\ storage' = [storage EXCEPT ![p] = s]
    <3>1. SamePromise(storage[p], storage[p])
      BY KeptWithin DEF SamePromise
    <3> QED BY <2>2, <2>6, <3>1, KeptWithin
  <2>12. CASE Panic(p, q)
    <3>1. s.promise \in R
      BY <2>11, KeptWithin DEF SamePromise
    <3> QED BY <1>1, <2>11, <2>12, <3>1, ReceivesWithin DEF Panic
  <2>13. CASE ~ Panic(p, q)
    <3>1. VouchedOut(R, push(outgoing[p], msgs)) /\ VouchedNet(R, Consume(p, q))
      BY <1>1, <2>3, KeptWithin, VouchedPush
    <3>2. /\ leader_state' = [leader_state EXCEPT ![p] = l1]
          /\ EndCall(p, push(outgoing[p], msgs), Consume(p, q))
      BY <2>2, <2>13 DEF Handled
    <3> QED BY <2>10, <2>11, <3>1, <3>2, StepWithin
  <2> QED BY <2>12, <2>13
<1>4. CASE ~ handle_majority_promises(p, q, l)
  <2>1. /\ leader_state' = [leader_state EXCEPT ![p] = l]
        /\ EndCall(p, outgoing[p], Consume(p, q)) /\ UNCHANGED storage
    BY <1>4 DEF handle_promise_prepare, Handled
  <2> HIDE DEF l
  <2>2. SamePromise(storage[p], storage[p])
    BY KeptWithin DEF SamePromise
  <2>3. /\ storage' = [storage EXCEPT ![p] = storage[p]]
        /\ VouchedOut(R, outgoing[p]) /\ VouchedNet(R, Consume(p, q))
    BY <1>1, <2>1, KeptWithin
  <2> QED BY <1>2, <2>1, <2>2, <2>3, StepWithin
<1> QED BY <1>3, <1>4

\* A promise in the Accept phase.
LEMMA HandlePromiseAcceptWithin ==
  ASSUME NEW R, Before(R), NEW p \in Server, NEW q \in Server, handle_promise_accept(p, q)
  PROVE  After(R)
<1> DEFINE m == Head(net[q][p])
           l0 == set_promise(leader_state[p], q, PromiseMeta(m), m.log_sync, FALSE)
           l == accsync_leader_state(l0, {q})
           out == send(outgoing[p], q, accsync_message(storage[p], l, q))
<1>1. net[q][p] # << >> /\ UNCHANGED storage
  BY DEF handle_promise_accept, Incoming
<1>2. \/ Panic(p, q)
      \/ /\ leader_state' = [leader_state EXCEPT ![p] = l]
         /\ EndCall(p, out, Consume(p, q))
  BY DEF handle_promise_accept, Handled
<1>3. CASE Panic(p, q)
  BY <1>1, <1>3, KeptWithin, ReceivesWithin DEF Panic
<1>4. CASE ~ Panic(p, q)
  <2>1. SameLeader(leader_state[p], l0)
    BY KeptWithin, LeaderStays
  <2>2. Vouched(R, accsync_message(storage[p], l, q))
    BY DEF accsync_message, AcceptSync, Vouched
  <2>3. VouchedOut(R, out)
    BY <2>2, KeptWithin, VouchedSend
  <2> HIDE DEF l0, out
  <2>4. SameLeader(l0, l)
    BY <2>1, LeaderStays DEF SameLeader
  <2> HIDE DEF l
  <2>5. SameLeader(leader_state[p], l)
    BY <2>1, <2>4 DEF SameLeader
  <2>6. SamePromise(storage[p], storage[p])
    BY KeptWithin DEF SamePromise
  <2>7. /\ storage' = [storage EXCEPT ![p] = storage[p]] /\ VouchedNet(R, Consume(p, q))
        /\ leader_state' = [leader_state EXCEPT ![p] = l] /\ EndCall(p, out, Consume(p, q))
    BY <1>1, <1>2, <1>4, KeptWithin
  <2> QED BY <2>3, <2>5, <2>6, <2>7, StepWithin
<1> QED BY <1>3, <1>4

\* An Accepted: the message that decides it, or a waiting one, is no Prepare.
LEMMA HandleAcceptedWithin ==
  ASSUME NEW R, Before(R), NEW p \in Server, NEW q \in Server, handle_accepted(p, q)
  PROVE  After(R)
<1> DEFINE m == Head(net[q][p])
           idx == m.accepted_idx
           l == set_accepted_idx(leader_state[p], q, idx)
           out == outgoing[p]
           Q == get_promised_followers(l) \cap Server
           new == {r \in Q : ~ has_latest_accdec(l, out, r)}
           sns == [r \in Slots |-> IF r \in new THEN next_seq_num(l.follower_seq_nums[r])
                                   ELSE l.follower_seq_nums[r]]
           l1 == [l EXCEPT !.follower_seq_nums = sns]
           k(r) == l.latest_accept_meta[r]
           e(r) == [out[r][k(r)] EXCEPT !.decided_idx = idx]
           marked == [r \in Server |->
                        IF r \in Q \ new THEN [out[r] EXCEPT ![k(r)] = e(r)] ELSE out[r]]
           msgs == [r \in new |-> Decide(l.n_leader, l1.follower_seq_nums[r], idx)]
           s == [storage[p] EXCEPT !.decided_idx = idx]
<1>1. net[q][p] # << >>
  BY DEF handle_accepted, Incoming
<1>2. SameLeader(leader_state[p], l)
  BY KeptWithin, LeaderStays
<1>3. CASE storage' = [storage EXCEPT ![p].decided_idx = idx]
           /\ leader_state' = [leader_state EXCEPT ![p] = l1]
           /\ EndCall(p, push(marked, msgs), Consume(p, q))
  <2>1. SamePromise(storage[p], s)
    BY KeptWithin DEF SamePromise
  <2>2. storage' = [storage EXCEPT ![p] = s]
    BY <1>3
  <2>3. \A r \in DOMAIN msgs : Vouched(R, msgs[r])
    BY DEF Decide, Vouched
  <2>4. ASSUME NEW r \in Q \ new
        PROVE  VouchedSeq(R, [out[r] EXCEPT ![k(r)] = e(r)])
    <3>1. out[r][k(r)].type = "AcceptDecide"
      BY <2>4 DEF has_latest_accdec
    <3>2. Vouched(R, out[r][k(r)]) => Vouched(R, e(r))
      BY <3>1 DEF Vouched
    <3>3. VouchedSeq(R, out[r])
      BY <2>4, KeptWithin DEF VouchedOut
    <3> HIDE DEF k, e, new, out
    <3> QED BY <3>2, <3>3, VouchedExcept
  <2> HIDE DEF msgs, k, e, new, Q
  <2>5. \A r \in Server : marked[r] = IF r \in Q \ new THEN [out[r] EXCEPT ![k(r)] = e(r)] ELSE out[r]
    OBVIOUS
  <2>6. marked = [r \in Server |-> marked[r]]
    OBVIOUS
  <2> HIDE DEF marked
  <2>7. VouchedOut(R, marked)
    <3>1. \A r \in Server : VouchedSeq(R, out[r])
      BY KeptWithin DEF VouchedOut
    <3>2. \A r \in Server : VouchedSeq(R, marked[r])
      BY <2>4, <2>5, <3>1
    <3> HIDE DEF out
    <3> QED BY <2>6, <3>2 DEF VouchedOut
  <2>8. VouchedOut(R, push(marked, msgs))
    BY <2>3, <2>7, VouchedPush
  <2> HIDE DEF l, sns, s
  <2>9. SameLeader(leader_state[p], l1)
    BY <1>2, LeaderStays DEF SameLeader
  <2>10. VouchedNet(R, Consume(p, q)) /\ leader_state' = [leader_state EXCEPT ![p] = l1]
         /\ EndCall(p, push(marked, msgs), Consume(p, q))
    BY <1>1, <1>3, KeptWithin
  <2> HIDE DEF l1
  <2> QED BY <2>1, <2>2, <2>8, <2>9, <2>10, StepWithin
<1>4. CASE /\ leader_state' = [leader_state EXCEPT ![p] = l]
           /\ EndCall(p, outgoing[p], Consume(p, q)) /\ UNCHANGED storage
  <2>1. SamePromise(storage[p], storage[p])
    BY KeptWithin DEF SamePromise
  <2>2. /\ storage' = [storage EXCEPT ![p] = storage[p]]
        /\ VouchedOut(R, outgoing[p]) /\ VouchedNet(R, Consume(p, q))
    BY <1>1, <1>4, KeptWithin
  <2> HIDE DEF l
  <2> QED BY <1>2, <1>4, <2>1, <2>2, StepWithin
<1>5. \/ /\ storage' = [storage EXCEPT ![p].decided_idx = idx]
         /\ leader_state' = [leader_state EXCEPT ![p] = l1]
         /\ EndCall(p, push(marked, msgs), Consume(p, q))
      \/ /\ leader_state' = [leader_state EXCEPT ![p] = l]
         /\ EndCall(p, outgoing[p], Consume(p, q)) /\ UNCHANGED storage
  BY DEF handle_accepted, Handled
<1> QED BY <1>3, <1>4, <1>5

\* A leader that lost a promise.
LEMMA HandleNotAcceptedWithin ==
  ASSUME NEW R, Before(R), NEW p \in Server, NEW q \in Server, handle_notaccepted(p, q)
  PROVE  After(R)
<1>1. PICK l : l = lost_promise(leader_state[p], q)
  OBVIOUS
<1>2. /\ UNCHANGED storage /\ leader_state' = [leader_state EXCEPT ![p] = l] /\ net[q][p] # << >>
      /\ EndCall(p, outgoing[p], Consume(p, q))
  BY <1>1 DEF handle_notaccepted, Handled, Incoming
<1>3. SameLeader(leader_state[p], l) /\ SamePromise(storage[p], storage[p])
  BY <1>1, KeptWithin, LeaderStays DEF SamePromise
<1> QED BY <1>2, <1>3, KeptWithin, StepWithin

\* The round of a Prepare is promised.
LEMMA HandlePrepareWithin ==
  ASSUME NEW R, Before(R), NEW p \in Server, NEW q \in Server, handle_prepare(p, q)
  PROVE  After(R)
<1> DEFINE m == Head(net[q][p])
           f == flush_batch(storage[p])
           s == [f EXCEPT !.promise = m.n]
           newer_round == m.n_accepted \prec s.accepted_round
           longer_log == m.n_accepted = s.accepted_round /\ m.accepted_idx < s.accepted_idx
           start == IF newer_round THEN m.decided_idx ELSE m.accepted_idx
           promise == Promise(m.n, s, IF newer_round \/ longer_log
                                        THEN create_log_sync(s, start, m.decided_idx)
                                        ELSE None)
<1>1. net[q][p] # << >> /\ m.type = "Prepare"
  BY DEF handle_prepare, Incoming
<1>2. m.n \in R
  BY <1>1, KeptWithin DEF Vouched
<1>3. SamePromise(storage[p], f)
  BY KeptWithin, PromiseStays
<1>4. s.promise \in R
  <2> HIDE DEF f, m
  <2> QED BY <1>2, <1>3 DEF SamePromise
<1>5. storage' = [storage EXCEPT ![p] = s]
  BY DEF handle_prepare
<1>6. \/ Panic(p, q)
      \/ UNCHANGED leader_state /\ EndCall(p, send(outgoing[p], q, promise), Consume(p, q))
  BY DEF handle_prepare, Handled
<1>7. Vouched(R, promise)
  BY DEF Promise, Vouched
<1> HIDE DEF s, promise
<1>8. CASE Panic(p, q)
  BY <1>1, <1>4, <1>5, <1>8, ReceivesWithin DEF Panic
<1>9. CASE ~ Panic(p, q)
  <2>1. /\ VouchedOut(R, send(outgoing[p], q, promise)) /\ VouchedNet(R, Consume(p, q))
        /\ leader_state' = [leader_state EXCEPT ![p] = leader_state[p]]
        /\ leader_state[p].n_leader \in R
        /\ Inv /\ RoundsIn(R, storage, leader_state, outgoing, net)
    BY <1>1, <1>6, <1>7, <1>9, KeptWithin, VouchedSend DEF Before
  <2>2. RoundsIn(R, storage', leader_state', outgoing', net')
    BY <1>4, <1>5, <1>6, <1>9, <2>1, CallWithin
  <2> QED BY <2>2 DEF After
<1> QED BY <1>8, <1>9

\* A call of p that stores s, sends out and leads the round it led.
LEMMA StoresWithin ==
  ASSUME NEW R, Before(R), NEW p \in Server,
         NEW s, SamePromise(storage[p], s), storage' = [storage EXCEPT ![p] = s],
         UNCHANGED leader_state,
         NEW out, VouchedOut(R, out), NEW chan, VouchedNet(R, chan), EndCall(p, out, chan)
  PROVE  After(R)
<1>1. SameLeader(leader_state[p], leader_state[p]) /\ leader_state' = [leader_state EXCEPT ![p] = leader_state[p]]
  BY KeptWithin DEF SameLeader
<1> QED BY <1>1, StepWithin

\* A synchronisation is stored; the proposals that waited for it go to the leader.
LEMMA HandleAcceptSyncWithin ==
  ASSUME NEW R, Before(R), NEW p \in Server, NEW q \in Server, handle_acceptsync(p, q)
  PROVE  After(R)
<1> DEFINE m == Head(net[q][p])
           s == sync_log(storage[p], m.n, m.decided_idx, m.log_sync)
           proposals == buffered_proposals[p]
           forwards == s.stopsign = None /\ proposals # << >>
           out == IF forwards THEN forward_proposals_outgoing(p, outgoing[p], proposals) ELSE outgoing[p]
           last == send(out, q, Accepted(m.n, s.accepted_idx))
<1>1. net[q][p] # << >>
  BY DEF handle_acceptsync, IncomingAccept, Incoming
<1>2. \/ Panic(p, q) /\ UNCHANGED storage
      \/ /\ storage' = [storage EXCEPT ![p] = s] /\ UNCHANGED leader_state
         /\ EndCall(p, last, Consume(p, q))
  BY DEF handle_acceptsync, Handled
<1>3. CASE Panic(p, q) /\ UNCHANGED storage
  BY <1>1, <1>3, KeptWithin, ReceivesWithin DEF Panic
<1>4. CASE ~ (Panic(p, q) /\ UNCHANGED storage)
  <2>1. SamePromise(storage[p], s)
    BY KeptWithin, PromiseStays
  <2>2. Vouched(R, ProposalForward(proposals))
    BY DEF ProposalForward, Vouched
  <2>3. VouchedOut(R, out)
    BY <2>2, KeptWithin, VouchedSend DEF forward_proposals_outgoing
  <2>4. Vouched(R, Accepted(m.n, s.accepted_idx))
    BY DEF Accepted, Vouched
  <2>5. VouchedOut(R, last) /\ VouchedNet(R, Consume(p, q))
    BY <1>1, <2>3, <2>4, KeptWithin, VouchedSend
  <2> HIDE DEF s, last
  <2> QED BY <1>2, <1>4, <2>1, <2>5, StoresWithin
<1> QED BY <1>3, <1>4

\* Entries, a stop sign or a decided index of the leader are stored and answered.
LEMMA FollowWithin ==
  ASSUME NEW R, Before(R), NEW p \in Server, NEW q \in Server, net[q][p] # << >>,
         NEW s, SamePromise(storage[p], s), NEW acks, follow(p, q, s, acks)
  PROVE  After(R)
<1> DEFINE f == [follower_state[p] EXCEPT !.current_seq_num = Head(net[q][p]).seq_num]
           out == IF acks THEN reply_accepted_outgoing(f, outgoing[p], Head(net[q][p]).n, s.accepted_idx)
                  ELSE outgoing[p]
<1>1. /\ storage' = [storage EXCEPT ![p] = s] /\ UNCHANGED leader_state
      /\ EndCall(p, out, Consume(p, q))
  BY DEF follow, Handled
<1>2. VouchedOut(R, out) /\ VouchedNet(R, Consume(p, q))
  BY KeptWithin, VouchedReply
<1> HIDE DEF out
<1> QED BY <1>1, <1>2, StoresWithin

\* What a follower accepts and decides.
LEMMA HandleAcceptWithin ==
  ASSUME NEW R, Before(R), NEW p \in Server, NEW q \in Server
  PROVE  /\ handle_acceptdecide(p, q) => After(R)
         /\ handle_accept_stopsign(p, q) => After(R)
         /\ handle_decide(p, q) => After(R)
<1> DEFINE m == Head(net[q][p])
<1>1. ASSUME handle_acceptdecide(p, q) PROVE After(R)
  <2>1. PICK s, t, acks : /\ s = append_entries_with_batching(storage[p], m.entries)
                          /\ t = update_decided_idx(s, m.decided_idx)
                          /\ net[q][p] # << >> /\ follow(p, q, t, acks)
    BY <1>1 DEF handle_acceptdecide, IncomingAccept, Incoming
  <2>2. SamePromise(storage[p], s)
    BY <2>1, KeptWithin, PromiseStays
  <2>3. SamePromise(s, t)
    BY <2>1, <2>2, PromiseStays DEF SamePromise
  <2>4. SamePromise(storage[p], t)
    BY <2>2, <2>3 DEF SamePromise
  <2> QED BY <2>1, <2>4, FollowWithin
<1>2. ASSUME handle_accept_stopsign(p, q) PROVE After(R)
  <2>1. PICK s, t, acks : /\ s = flush_batch(storage[p]) /\ t = set_stopsign(s, m.ss)
                          /\ net[q][p] # << >> /\ follow(p, q, t, acks)
    BY <1>2 DEF handle_accept_stopsign, IncomingAccept, Incoming
  <2>2. SamePromise(storage[p], s)
    BY <2>1, KeptWithin, PromiseStays
  <2>3. SamePromise(s, t)
    BY <2>1, <2>2, PromiseStays DEF SamePromise
  <2>4. SamePromise(storage[p], t)
    BY <2>2, <2>3 DEF SamePromise
  <2> QED BY <2>1, <2>4, FollowWithin
<1>3. ASSUME handle_decide(p, q) PROVE After(R)
  <2>1. PICK t, acks : /\ t = update_decided_idx(storage[p], m.decided_idx)
                       /\ net[q][p] # << >> /\ follow(p, q, t, acks)
    BY <1>3 DEF handle_decide, IncomingAccept, Incoming
  <2>2. SamePromise(storage[p], t)
    BY <2>1, KeptWithin, PromiseStays
  <2> QED BY <2>1, <2>2, FollowWithin
<1> QED BY <1>1, <1>2, <1>3

\* An accept message of another round, or behind a gap; a broken connection.
LEMMA ReconnectWithin ==
  ASSUME NEW R, Before(R), NEW p \in Server, NEW q \in Server
  PROVE  /\ reject_ballot(p, q) => After(R)
         /\ dropped_preceding(p, q) => After(R)
         /\ user_reconnected(p, q) => After(R)
<1>1. ASSUME NEW x, NEW r, NEW chan, VouchedNet(R, chan), UNCHANGED << storage, leader_state >>,
             x \in {PrepareReq(storage[p].promise), NotAccepted(storage[p].promise)},
             EndCall(p, send(outgoing[p], r, x), chan)
      PROVE  After(R)
  <2>1. Vouched(R, x)
    BY <1>1 DEF PrepareReq, NotAccepted, Vouched
  <2> QED BY <1>1, <2>1, KeptWithin, VouchedSend, SendsWithin
<1>2. ASSUME reject_ballot(p, q) PROVE After(R)
  <2>1. net[q][p] # << >> /\ UNCHANGED << storage, leader_state >>
    BY <1>2 DEF reject_ballot, Incoming
  <2>2. \E x \in {PrepareReq(storage[p].promise), NotAccepted(storage[p].promise)} :
          EndCall(p, send(outgoing[p], Head(net[q][p]).n.pid, x), Consume(p, q))
    BY <1>2 DEF reject_ballot, reconnected, Handled
  <2> QED BY <1>1, <2>1, <2>2, KeptWithin
<1>3. ASSUME dropped_preceding(p, q) PROVE After(R)
  <2>1. net[q][p] # << >> /\ UNCHANGED << storage, leader_state >>
    BY <1>3 DEF dropped_preceding, Incoming
  <2>2. EndCall(p, send(outgoing[p], Head(net[q][p]).n.pid, PrepareReq(storage[p].promise)), Consume(p, q))
    BY <1>3 DEF dropped_preceding, reconnected
  <2> QED BY <1>1, <2>1, <2>2, KeptWithin
<1>4. ASSUME user_reconnected(p, q) PROVE After(R)
  <2>1. /\ UNCHANGED << storage, leader_state >>
        /\ EndCall(p, send(outgoing[p], q, PrepareReq(storage[p].promise)), net)
    BY <1>4 DEF user_reconnected, reconnected
  <2> QED BY <1>1, <2>1, KeptWithin
<1> QED BY <1>2, <1>3, <1>4

\* Compaction at the server that is asked and at those it tells.
LEMMA CompactionWithin ==
  ASSUME NEW R, Before(R), NEW p \in Server
  PROVE  /\ \A idx : trim(p, idx) => After(R)
         /\ \A idx, local_only : snapshot(p, idx, local_only) => After(R)
         /\ \A q \in Server : handle_compaction(p, q) => After(R)
<1>1. \A i : SamePromise(storage[p], try_trim(storage[p], i)) /\ SamePromise(storage[p], try_snapshot(storage[p], i))
  BY KeptWithin, PromiseStays
<1>2. ASSUME NEW msgs, NEW kind, NEW i, msgs = [q \in Peers(p) |-> Compaction(kind, i)]
      PROVE  VouchedOut(R, push(outgoing[p], msgs))
  <2>1. \A q \in DOMAIN msgs : Vouched(R, msgs[q])
    BY <1>2 DEF Compaction, Vouched
  <2> QED BY <2>1, KeptWithin, VouchedPush
<1>3. ASSUME NEW idx, trim(p, idx) PROVE After(R)
  <2>1. PICK s, msgs : /\ s = try_trim(storage[p], idx)
                       /\ msgs = [q \in Peers(p) |-> Compaction("Trim", idx)]
    OBVIOUS
  <2>2. /\ storage' = [storage EXCEPT ![p] = s] /\ UNCHANGED leader_state
        /\ EndCall(p, push(outgoing[p], msgs), net)
    BY <1>3, <2>1 DEF trim, Called
  <2>3. VouchedOut(R, push(outgoing[p], msgs)) /\ SamePromise(storage[p], s) /\ VouchedNet(R, net)
    BY <1>1, <1>2, <2>1, KeptWithin
  <2> QED BY <2>2, <2>3, StoresWithin
<1>4. ASSUME NEW idx, NEW local_only, snapshot(p, idx, local_only) PROVE After(R)
  <2>1. PICK s, msgs : /\ s = try_snapshot(storage[p], idx)
                       /\ msgs = [q \in Peers(p) |-> Compaction("Snapshot", idx)]
    OBVIOUS
  <2>2. PICK out : /\ out = IF local_only THEN outgoing[p] ELSE push(outgoing[p], msgs)
                   /\ storage' = [storage EXCEPT ![p] = s] /\ UNCHANGED leader_state
                   /\ EndCall(p, out, net)
    BY <1>4, <2>1 DEF snapshot, Called
  <2>3. VouchedOut(R, out) /\ SamePromise(storage[p], s) /\ VouchedNet(R, net)
    BY <1>1, <1>2, <2>1, <2>2, KeptWithin
  <2> QED BY <2>2, <2>3, StoresWithin
<1>5. ASSUME NEW q \in Server, handle_compaction(p, q) PROVE After(R)
  <2>1. PICK m : m = Head(net[q][p])
    OBVIOUS
  <2>2. PICK s : s = IF m.kind = "Trim" THEN try_trim(storage[p], m.idx) ELSE try_snapshot(storage[p], m.idx)
    OBVIOUS
  <2>3. /\ storage' = [storage EXCEPT ![p] = s] /\ UNCHANGED leader_state /\ net[q][p] # << >>
        /\ EndCall(p, outgoing[p], Consume(p, q))
    BY <1>5, <2>1, <2>2 DEF handle_compaction, Incoming, Handled
  <2>4. SamePromise(storage[p], s)
    BY <1>1, <2>2
  <2> QED BY <2>3, <2>4, KeptWithin, StoresWithin
<1> QED BY <1>3, <1>4, <1>5

\* What a timeout sends again.
LEMMA ResendWithin ==
  ASSUME NEW R, Before(R), NEW p \in Server, resend_message_timeout(p)
  PROVE  After(R)
<1>1. UNCHANGED << storage, leader_state >>
  BY DEF resend_message_timeout
<1>2. CASE resend_messages_leader(p)
  <2> DEFINE s == storage[p]
             l == leader_state[p]
             resent(q) ==
               IF q \in get_preparable_peers(l, p)
                 THEN << Prepare(l.n_leader, s) >>
                 ELSE IF /\ state[p][2] = "Accept"
                         /\ accepted_reconfiguration(s)
                         /\ q \in get_promised_followers(l)
                        THEN IF stopsign_is_decided(s)
                               THEN << Decide(l.n_leader, l.follower_seq_nums[q], s.decided_idx) >>
                               ELSE IF l.accepted_indexes[q] # s.accepted_idx
                                      THEN << AcceptStopSign(l.n_leader, l.follower_seq_nums[q], s.stopsign) >>
                                      ELSE << >>
                        ELSE << >>
             out == [q \in Server |-> outgoing[p][q] \o resent(q)]
  <2>1. EndCall(p, out, net)
    BY <1>2 DEF resend_messages_leader, Called
  <2>2. ASSUME NEW m, Vouched(R, m) PROVE VouchedSeq(R, << m >>)
    <3>1. PICK S : S = {m}
      OBVIOUS
    <3>2. << m >> \in Seq(S) /\ \A e \in S : Vouched(R, e)
      BY <2>2, <3>1
    <3> QED BY <3>2 DEF VouchedSeq
  <2>3. ASSUME NEW q \in Server PROVE VouchedSeq(R, resent(q))
    <3>1. Vouched(R, Prepare(l.n_leader, s))
      BY KeptWithin DEF Prepare, Vouched
    <3>2. /\ Vouched(R, Decide(l.n_leader, l.follower_seq_nums[q], s.decided_idx))
          /\ Vouched(R, AcceptStopSign(l.n_leader, l.follower_seq_nums[q], s.stopsign))
      BY DEF Decide, AcceptStopSign, Vouched
    <3> QED BY <2>2, <3>1, <3>2, VouchedEmpty
  <2> HIDE DEF resent
  <2>4. ASSUME NEW q \in Server PROVE VouchedSeq(R, outgoing[p][q] \o resent(q))
    BY <2>3, KeptWithin, VouchedConcat DEF VouchedOut
  <2>5. VouchedOut(R, out)
    BY <2>4 DEF VouchedOut
  <2> HIDE DEF out
  <2> QED BY <1>1, <2>1, <2>5, KeptWithin, SendsWithin
<1>3. CASE resend_messages_follower(p)
  <2> DEFINE cached == follower_state[p].cached_promise_message
             msgs == [q \in Peers(p) |-> PrepareReq(storage[p].promise)]
  <2>1. CASE state[p][2] = "Prepare" /\ cached # None
    <3>1. EndCall(p, send(outgoing[p], cached.n.pid, cached), net)
      BY <1>3, <2>1 DEF resend_messages_follower, Called
    <3>2. cached \in PromiseMessage
      BY <2>1 DEF Before, Inv, TypeOK, FollowerState
    <3>3. Vouched(R, cached)
      BY <3>2 DEF PromiseMessage, Vouched
    <3> HIDE DEF cached
    <3>4. VouchedOut(R, send(outgoing[p], cached.n.pid, cached)) /\ VouchedNet(R, net)
      BY <3>3, KeptWithin, VouchedSend
    <3> QED BY <1>1, <3>1, <3>4, SendsWithin
  <2>2. CASE ~ (state[p][2] = "Prepare" /\ cached # None)
    <3>1. EndCall(p, push(outgoing[p], msgs), net)
      BY <1>3, <2>2 DEF resend_messages_follower, Called
    <3>2. \A q \in DOMAIN msgs : Vouched(R, msgs[q])
      BY DEF PrepareReq, Vouched
    <3> HIDE DEF msgs
    <3>3. VouchedOut(R, push(outgoing[p], msgs)) /\ VouchedNet(R, net)
      BY <3>2, KeptWithin, VouchedPush
    <3> QED BY <1>1, <3>1, <3>3, SendsWithin
  <2> QED BY <2>1, <2>2
<1> QED BY <1>2, <1>3 DEF resend_message_timeout

\* What a timeout flushes.
LEMMA FlushWithin ==
  ASSUME NEW R, Before(R), NEW p \in Server, flush_batch_timeout(p)
  PROVE  After(R)
<1>1. PICK s : s = flush_batch(storage[p])
  OBVIOUS
<1>2. SamePromise(storage[p], s)
  BY <1>1, KeptWithin, PromiseStays
<1>3. CASE flush_batch_leader(p)
  <2>1. PICK e : e = storage[p].batched_entries
    OBVIOUS
  <2>2. accepts(p, s, e, net)
    BY <1>1, <1>3, <2>1 DEF flush_batch_leader
  <2>3. PICK l1, l2, out : /\ l1 = set_accepted_idx(leader_state[p], p, s.accepted_idx)
                           /\ l2 = accdec_leader_state(l1, outgoing[p])
                           /\ out = accdec_outgoing(l1, outgoing[p], s.decided_idx, e)
    OBVIOUS
  <2>4. SameLeader(leader_state[p], l1)
    BY <2>3, KeptWithin, LeaderStays
  <2>5. SameLeader(l1, l2)
    BY <2>3, <2>4, LeaderStays DEF SameLeader
  <2>6. VouchedOut(R, out) /\ VouchedNet(R, net)
    BY <2>3, KeptWithin, VouchedAccdec
  <2>7. /\ storage' = [storage EXCEPT ![p] = s]
        /\ leader_state' = [leader_state EXCEPT ![p] = l2]
        /\ EndCall(p, out, net)
    BY <2>2, <2>3 DEF accepts
  <2>8. SameLeader(leader_state[p], l2)
    BY <2>4, <2>5 DEF SameLeader
  <2> QED BY <1>2, <2>6, <2>7, <2>8, StepWithin
<1>4. CASE flush_batch_follower(p)
  <2>1. PICK f, n, idx, out : /\ f = follower_state[p] /\ n = s.promise /\ idx = s.accepted_idx
                              /\ out = reply_accepted_outgoing(f, outgoing[p], n, idx)
    OBVIOUS
  <2>2. storage' = [storage EXCEPT ![p] = s] /\ UNCHANGED leader_state /\ EndCall(p, out, net)
    BY <1>1, <1>4, <2>1 DEF flush_batch_follower, Called
  <2>3. VouchedOut(R, out) /\ VouchedNet(R, net)
    BY <2>1, KeptWithin, VouchedReply
  <2> QED BY <1>2, <2>2, <2>3, StoresWithin
<1> QED BY <1>3, <1>4 DEF flush_batch_timeout

\* The user takes the messages and sends them.
LEMMA TakeWithin ==
  ASSUME NEW R, Before(R), NEW p \in Server, take_outgoing_msgs(p)
  PROVE  After(R)
<1>1. PICK l : l = reset_latest_accept_meta(leader_state[p])
  OBVIOUS
<1>2. /\ UNCHANGED storage /\ leader_state' = [leader_state EXCEPT ![p] = l]
      /\ net' = Transmit(net, p, outgoing[p]) /\ outgoing' = [outgoing EXCEPT ![p] = NoMessages]
  BY <1>1 DEF take_outgoing_msgs
<1>3. SameLeader(leader_state[p], l)
  BY <1>1, KeptWithin, LeaderStays
<1>4. \A q \in Server : leader_state'[q] = IF q = p THEN l ELSE leader_state[q]
  BY <1>2 DEF Before, Inv, TypeOK
<1>5. \A q \in Server : storage'[q].promise \in R /\ leader_state'[q].n_leader \in R
  BY <1>2, <1>3, <1>4 DEF Before, RoundsIn, SameLeader
<1>6. VouchedNet(R, net')
  BY <1>2, KeptWithin, VouchedTransmit
<1>7. VouchedNet(R, outgoing')
  <2>1. outgoing' = [q \in Server |-> IF q = p THEN NoMessages ELSE outgoing[q]]
    BY <1>2 DEF Before, RoundsIn, VouchedNet
  <2>2. VouchedOut(R, NoMessages)
    BY VouchedEmpty
  <2> QED BY <2>1, <2>2 DEF Before, RoundsIn, VouchedNet
<1> QED BY <1>5, <1>6, <1>7 DEF After, RoundsIn

\* A server that restarts leads no other round than it promised.
LEMMA RestartWithin ==
  ASSUME NEW R, Before(R), NEW p \in Server, restart(p)
  PROVE  After(R)
<1>1. PICK s, l, msgs : /\ s = load_cache(storage[p]) /\ l = LeaderState_with(s.promise)
                        /\ msgs = [q \in Peers(p) |-> PrepareReq(s.promise)]
  OBVIOUS
<1>2. /\ storage' = [storage EXCEPT ![p] = s] /\ leader_state' = [leader_state EXCEPT ![p] = l]
      /\ EndCall(p, push(NoMessages, msgs), net)
  BY <1>1 DEF restart, Called
<1>3. SamePromise(storage[p], s)
  BY <1>1, KeptWithin, PromiseStays
<1>4. s.promise \in R
  BY <1>3, KeptWithin DEF SamePromise
<1>5. l.n_leader \in R
  BY <1>1, <1>4 DEF LeaderState_with
<1>6. \A q \in DOMAIN msgs : Vouched(R, msgs[q])
  BY <1>1 DEF PrepareReq, Vouched
<1>7. VouchedOut(R, push(NoMessages, msgs)) /\ VouchedNet(R, net)
      /\ Inv /\ RoundsIn(R, storage, leader_state, outgoing, net)
  BY <1>6, KeptWithin, VouchedPush, VouchedEmpty DEF Before
<1>8. RoundsIn(R, storage', leader_state', outgoing', net')
  BY <1>2, <1>4, <1>5, <1>7, CallWithin
<1> QED BY <1>8 DEF After

\* The handler of every message.
LEMMA HandleWithin ==
  ASSUME NEW R, Before(R), NEW p \in Server, NEW q \in Peers(p), handle(p, q)
  PROVE  After(R)
<1>0. q \in Server
  BY DEF Peers
<1>1. handle_preparereq(p, q) \/ handle_prepare(p, q) => After(R)
  BY <1>0, HandlePrepareReqWithin, HandlePrepareWithin
<1>2. handle_promise_prepare(p, q) \/ handle_promise_accept(p, q) => After(R)
  BY <1>0, HandlePromisePrepareWithin, HandlePromiseAcceptWithin
<1>3. handle_accepted(p, q) \/ handle_notaccepted(p, q) => After(R)
  BY <1>0, HandleAcceptedWithin, HandleNotAcceptedWithin
<1>4. handle_acceptsync(p, q) => After(R)
  BY <1>0, HandleAcceptSyncWithin
<1>5. handle_acceptdecide(p, q) \/ handle_accept_stopsign(p, q) \/ handle_decide(p, q) => After(R)
  BY <1>0, HandleAcceptWithin
<1>6. handle_forwarded_proposal(p, q) \/ handle_forwarded_stopsign(p, q) => After(R)
  BY <1>0, ProposalsWithin
<1>7. reject_ballot(p, q) \/ dropped_preceding(p, q) => After(R)
  BY <1>0, ReconnectWithin
<1>8. handle_compaction(p, q) \/ ignore(p, q) => After(R)
  BY <1>0, CompactionWithin, LostWithin
<1> QED BY <1>1, <1>2, <1>3, <1>4, <1>5, <1>6, <1>7, <1>8 DEF handle

\* Every step of Sequence Paxos, if the election names rounds of R only.
LEMMA NextWithin ==
  ASSUME NEW R, Ballots \subseteq R, Before(R), [Next]_vars
  PROVE  After(R)
<1>0. CASE UNCHANGED vars
  BY <1>0 DEF Before, After, vars, serverVars
<1>1. ASSUME NEW p \in Server, NEW n \in Ballots, handle_leader(p, n) PROVE After(R)
  BY <1>1, HandleLeaderWithin
<1>2. ASSUME NEW p \in Server, NEW q \in Peers(p), handle(p, q) PROVE After(R)
  BY <1>2, HandleWithin
<1>3. ASSUME NEW p \in Server,
             \/ \E v \in Value : append(p, v)
             \/ \E ss \in StopSign : reconfigure(p, ss)
             \/ \E idx \in 1 .. storage[p].decided_idx : trim(p, idx)
             \/ \E local_only \in BOOLEAN :
                  \E idx \in {None} \cup 1 .. storage[p].decided_idx : snapshot(p, idx, local_only)
      PROVE  After(R)
  BY <1>3, ProposalsWithin, CompactionWithin
<1>4. ASSUME NEW p \in Server,
             resend_message_timeout(p) \/ flush_batch_timeout(p) \/ take_outgoing_msgs(p) \/ restart(p)
      PROVE  After(R)
  BY <1>4, ResendWithin, FlushWithin, TakeWithin, RestartWithin
<1>5. ASSUME NEW p \in Server, NEW q \in Peers(p), user_reconnected(p, q) \/ drop(p, q) PROVE After(R)
  BY <1>5, ReconnectWithin, LostWithin DEF Peers
<1> QED BY <1>0, <1>1, <1>2, <1>3, <1>4, <1>5 DEF Next

\* At first there is no round.
LEMMA InitWithin ==
  ASSUME NEW R, DefaultBallot \in R, Init
  PROVE  RoundsIn(R, storage, leader_state, outgoing, net)
<1>1. \A p \in Server : storage[p].promise = DefaultBallot /\ leader_state[p].n_leader = DefaultBallot
  BY DEF Init, EmptyStorage, LeaderState_with
<1>2. VouchedNet(R, [p \in Server |-> NoMessages])
  BY VouchedEmpty DEF VouchedNet
<1> QED BY <1>1, <1>2 DEF Init, RoundsIn

\* What is in a set of rounds is in a larger one.
LEMMA MoreRounds ==
  ASSUME NEW R, NEW Q, R \subseteq Q, NEW sto, NEW ls, NEW out, NEW chan, RoundsIn(R, sto, ls, out, chan)
  PROVE  RoundsIn(Q, sto, ls, out, chan)
<1>1. \A m : Vouched(R, m) => Vouched(Q, m)
  BY DEF Vouched
<1>2. \A x : VouchedSeq(R, x) => VouchedSeq(Q, x)
  BY <1>1 DEF VouchedSeq
<1>3. \A o : VouchedOut(R, o) => VouchedOut(Q, o)
  BY <1>2 DEF VouchedOut
<1> QED BY <1>3 DEF RoundsIn, VouchedNet

\* Nobody promises or leads a round that the election did not name.
OnlyElectedRounds ==
  \A p \in Server : /\ storage[p].promise \in Ballots \cup {DefaultBallot}
                    /\ leader_state[p].n_leader \in Ballots \cup {DefaultBallot}

\* A Prepare and the books of a leader carry rounds of the election only, whatever
\* is lost, however often servers crash, and whoever takes over.
THEOREM ElectedRoundsTheorem == Spec => []OnlyElectedRounds
<1> DEFINE R == Ballots \cup {DefaultBallot}
           K == RoundsIn(R, storage, leader_state, outgoing, net)
<1>1. Init => K
  BY InitWithin
<1>2. Inv /\ K /\ [Next]_vars => K'
  BY NextWithin DEF Before, After
<1>3. K => OnlyElectedRounds
  BY DEF RoundsIn, OnlyElectedRounds
<1> HIDE DEF K
<1> QED BY <1>1, <1>2, <1>3, Invariance, PTL DEF Spec

------------------------------------------------------------------------------
(* The election *)

\* The ballots of the election are ballots, and finitely many replies come in a round.
ElectionInv ==
  /\ current_ballot \in [Server -> Ballot] /\ leader \in [Server -> Ballot]
  /\ heartbeat_replies = [p \in Server |-> heartbeat_replies[p]]
  /\ \A p \in Server : /\ IsFiniteSet(heartbeat_replies[p])
                       /\ \A m \in heartbeat_replies[p] : m.reply.ballot \in Ballot
  /\ \A m \in replies : m.reply.ballot \in Ballot

\* What happens to me while a round of p ends.
Elects(me) ==
  /\ {"replies", "current_ballot", "leader", "happy"} \subseteq DOMAIN me
  /\ me.current_ballot \in Ballot /\ me.leader \in Ballot
  /\ IsFiniteSet(me.replies) /\ \A m \in me.replies : m.reply.ballot \in Ballot

\* The election compares ballots as Sequence Paxos does.
LEMMA SameOrder ==
  /\ \A a, b : BLE!\prec(a, b) <=> a \prec b
  /\ \A a, b : BLE!\preceq(a, b) <=> a \preceq b
  /\ BLE!Ballot = Ballot /\ BLE!DefaultBallot = DefaultBallot
BY DEF BLE!\prec, BLE!\preceq, \prec, \preceq, BLE!Ballot, Ballot, BLE!DefaultBallot, DefaultBallot

\* update_leader follows a ballot of the replies.
LEMMA UpdateLeaderElects ==
  ASSUME NEW me, Elects(me)
  PROVE  Elects(BLE!update_leader(me))
<1> DEFINE larger == {b \in {m.reply.ballot : m \in me.replies} : BLE!\prec(me.leader, b)}
           best == CHOOSE b \in larger : \A c \in larger : BLE!\preceq(c, b)
           f == [m \in me.replies |-> m.reply.ballot]
<1>1. BLE!update_leader(me) = IF larger = {} THEN me ELSE [me EXCEPT !.leader = best]
  BY DEF BLE!update_leader
<1>2. f \in [me.replies -> Ballot] /\ larger \in SUBSET {f[m] : m \in me.replies} /\ larger \subseteq Ballot
  BY DEF Elects
<1>3. IsFiniteSet(me.replies)
  BY DEF Elects
<1>4. larger # {} => best \in Ballot
  <2> HIDE DEF larger, f
  <2>1. larger # {} => \E b \in larger : \A c \in larger : c \preceq b
    BY <1>2, <1>3, LargestBallotOfFinite
  <2> QED BY <1>2, <2>1, SameOrder
<1> HIDE DEF larger, best
<1> QED BY <1>1, <1>4 DEF Elects

\* The end of a round leaves p a ballot of its own and one to follow.
LEMMA AfterTimeoutElects ==
  ASSUME Inv, ElectionInv, NEW p \in Server
  PROVE  Elects(BLE!after_timeout(p, accepting(p)))
<1> DEFINE me == BLE!Me(p)
           a == BLE!update_leader(me)
           b == BLE!update_happiness(a, accepting(p))
           c == BLE!check_takeover(b)
           prom == storage[p].promise
           d == BLE!sync_with_promise(p, c, prom)
<1>1. Elects(me)
  BY DEF ElectionInv, Elects, BLE!Me
<1>2. Elects(a)
  BY <1>1, UpdateLeaderElects
<1>3. Elects(b)
  <2> HIDE DEF a
  <2>1. PICK h : b = [a EXCEPT !.happy = h]
    BY DEF BLE!update_happiness
  <2> QED BY <1>2, <2>1 DEF Elects
<1>4. Elects(c)
  <2> HIDE DEF b
  <2>1. PICK x : x = [b.current_ballot EXCEPT !.n = b.leader.n + 1]
    OBVIOUS
  <2>2. x \in Ballot
    BY <1>3, <2>1 DEF Elects, Ballot
  <2>3. c = b \/ c = [b EXCEPT !.current_ballot = x, !.leader = x, !.happy = TRUE]
    BY <2>1 DEF BLE!check_takeover
  <2> QED BY <1>3, <2>2, <2>3 DEF Elects
<1>5. prom \in Ballot
  BY KeptOK DEF Inv, TypeOK, Storage
<1>6. Elects(d)
  <2> HIDE DEF c, prom
  <2>1. c.current_ballot \in Ballot
    BY <1>4 DEF Elects
  <2>2. PICK x : x \in Ballot /\ (d = c \/ d = [c EXCEPT !.leader = prom, !.happy = TRUE, !.current_ballot = x])
    BY <1>5, <2>1 DEF BLE!sync_with_promise
  <2> QED BY <1>4, <1>5, <2>2 DEF Elects
<1>7. BLE!after_timeout(p, accepting(p)) = d
  BY DEF BLE!after_timeout
<1> QED BY <1>6, <1>7

\* The ballot that the election hands over.
LEMMA ElectionTimeoutStep ==
  ASSUME Inv, ElectionInv, NEW p \in Server, election_timeout(p)
  PROVE  /\ ElectionInv'
         /\ \/ UNCHANGED vars /\ led \subseteq led'
            \/ \E n \in Ballot : handle_leader(p, n) /\ led' = led \cup {n}
<1> DEFINE me == BLE!after_timeout(p, accepting(p))
           b == me.current_ballot
<1>1. Elects(me)
  BY AfterTimeoutElects
<1>2. BLE!election_timeout(p, accepting(p))
  BY DEF election_timeout
<1>3. /\ current_ballot' = [current_ballot EXCEPT ![p] = b]
      /\ leader' = [leader EXCEPT ![p] = me.leader]
      /\ heartbeat_replies' = [heartbeat_replies EXCEPT ![p] = {}]
      /\ UNCHANGED replies
  BY <1>2 DEF BLE!election_timeout
<1>4. ElectionInv'
  <2> HIDE DEF me
  <2>1. b \in Ballot /\ me.leader \in Ballot /\ IsFiniteSet({})
    BY <1>1, FS_EmptySet DEF Elects
  <2>2. /\ current_ballot' \in [Server -> Ballot] /\ leader' \in [Server -> Ballot]
        /\ heartbeat_replies' = [q \in Server |-> heartbeat_replies'[q]]
    BY <1>3, <2>1 DEF ElectionInv
  <2>3. \A q \in Server : heartbeat_replies'[q] = {} \/ heartbeat_replies'[q] = heartbeat_replies[q]
    BY <1>3 DEF ElectionInv
  <2> QED BY <1>3, <2>1, <2>2, <2>3 DEF ElectionInv
<1>5. IF me.leader = b THEN BLE!handle_leader(p, b) ELSE UNCHANGED led
  BY <1>2 DEF BLE!election_timeout
<1>6. IF me.leader = b /\ is_new(p, b) THEN handle_leader(p, b) ELSE UNCHANGED vars
  BY DEF election_timeout
<1> HIDE DEF me
<1>7. BLE!handle_leader(p, b) => led' = IF storage[p].promise \prec b THEN led \cup {b} ELSE led
  BY SameOrder DEF BLE!handle_leader
<1>8. b \in Ballot
  BY <1>1 DEF Elects
<1>9. CASE me.leader = b /\ is_new(p, b)
  BY <1>4, <1>5, <1>6, <1>7, <1>8, <1>9 DEF is_new
<1>10. CASE ~ (me.leader = b /\ is_new(p, b))
  BY <1>4, <1>5, <1>6, <1>7, <1>10
<1> QED BY <1>9, <1>10

\* A takeover that the user asked for.
LEMMA TryBecomeLeaderStep ==
  ASSUME Inv, ElectionInv, NEW p \in Server, try_become_leader(p)
  PROVE  /\ ElectionInv'
         /\ \E n \in Ballot : handle_leader(p, n) /\ led' = led \cup {n}
<1>1. PICK b : b = [current_ballot[p] EXCEPT !.n = storage[p].promise.n + 1]
  OBVIOUS
<1>2. storage[p].promise \in Ballot /\ current_ballot[p] \in Ballot
  BY DEF Inv, TypeOK, Storage, ElectionInv
<1>3. b \in Ballot
  BY <1>1, <1>2 DEF Ballot
<1>4. handle_leader(p, b) /\ storage[p].promise \prec b
  BY <1>1 DEF try_become_leader, handle_leader
<1>5. UNCHANGED << current_ballot, leader, heartbeat_replies, replies >>
  BY DEF try_become_leader, BLE!try_become_leader, BLE!bleVars
<1>6. led' = led \cup {b}
  <2>1. led' = IF BLE!\prec(storage[p].promise, b) THEN led \cup {b} ELSE led
    BY <1>1 DEF try_become_leader, BLE!try_become_leader, BLE!handle_leader
  <2> QED BY <1>4, <2>1, SameOrder
<1>7. ElectionInv'
  BY <1>5 DEF ElectionInv
<1> QED BY <1>3, <1>4, <1>6, <1>7

\* Heartbeats carry the ballots of their senders.
LEMMA HeartbeatStep ==
  ASSUME ElectionInv, NEW p \in Server, NEW q \in Server, handle_request(p, q) \/ handle_reply(p, q)
  PROVE  ElectionInv' /\ UNCHANGED << vars, led >>
<1>1. CASE handle_request(p, q)
  <2>1. PICK m : BLE!handle_request(p, m) /\ UNCHANGED vars
    BY <1>1 DEF handle_request
  <2>2. PICK r : /\ r = [from |-> p, to |-> m.from, life |-> m.life, reply |-> BLE!HeartbeatReply(m.round, p)]
                 /\ \A x \in replies' : x \in replies \/ x = r
                 /\ UNCHANGED << current_ballot, leader, heartbeat_replies, led >>
    BY <2>1 DEF BLE!handle_request, BLE!bleVars
  <2>3. r.reply.ballot \in Ballot
    BY <2>2 DEF BLE!HeartbeatReply, ElectionInv
  <2>4. \A x \in replies' : x.reply.ballot \in Ballot
    BY <2>2, <2>3 DEF ElectionInv
  <2> QED BY <2>1, <2>2, <2>4 DEF ElectionInv
<1>2. CASE handle_reply(p, q)
  <2>1. PICK m \in replies : BLE!handle_reply(p, m) /\ UNCHANGED vars
    BY <1>2 DEF handle_reply, from
  <2>2. /\ replies' \subseteq replies
        /\ \/ UNCHANGED heartbeat_replies
           \/ heartbeat_replies' = [heartbeat_replies EXCEPT ![p] = @ \cup {m}]
        /\ UNCHANGED << current_ballot, leader, led >>
    BY <2>1 DEF BLE!handle_reply
  <2>3. PICK s : s = heartbeat_replies[p] \cup {m}
    OBVIOUS
  <2>4. IsFiniteSet(s) /\ \A x \in s : x.reply.ballot \in Ballot
    BY <2>3, FS_AddElement DEF ElectionInv
  <2>5. /\ heartbeat_replies' = [r \in Server |-> heartbeat_replies'[r]]
        /\ \A r \in Server : heartbeat_replies'[r] \in {heartbeat_replies[r], s}
    BY <2>2, <2>3 DEF ElectionInv
  <2>6. \A r \in Server : /\ IsFiniteSet(heartbeat_replies'[r])
                          /\ \A x \in heartbeat_replies'[r] : x.reply.ballot \in Ballot
    BY <2>4, <2>5 DEF ElectionInv
  <2> QED BY <2>1, <2>2, <2>5, <2>6 DEF ElectionInv
<1> QED BY <1>1, <1>2

\* A server recovers with a ballot of its own.
LEMMA RecoverStep ==
  ASSUME Inv, ElectionInv, NEW p \in Server, recover(p)
  PROVE  ElectionInv' /\ restart(p) /\ UNCHANGED led
<1>1. PICK b, c : /\ b = [n |-> BLE!recovery_n(storage[p].promise), priority |-> Priority[p], pid |-> p]
                  /\ c \in {b, storage[p].promise}
                  /\ current_ballot' = [current_ballot EXCEPT ![p] = b]
                  /\ leader' = [leader EXCEPT ![p] = c]
                  /\ heartbeat_replies' = [heartbeat_replies EXCEPT ![p] = {}]
                  /\ UNCHANGED << replies, led >>
  BY DEF recover, BLE!restart
<1>2. storage[p].promise \in Ballot
  BY DEF Inv, TypeOK, Storage
<1>3. b \in Ballot
  BY <1>1, ServerAssumption, ServiceAssumption
     DEF Ballot, BLE!recovery_n, BLE!INITIAL_ROUND, BLE!RECOVERY_ROUND
<1>4. /\ current_ballot' \in [Server -> Ballot] /\ leader' \in [Server -> Ballot]
      /\ heartbeat_replies' = [q \in Server |-> heartbeat_replies'[q]]
      /\ \A q \in Server : heartbeat_replies'[q] \in {{}, heartbeat_replies[q]}
  BY <1>1, <1>2, <1>3 DEF ElectionInv
<1>5. ElectionInv'
  BY <1>1, <1>4, FS_EmptySet DEF ElectionInv
<1> QED BY <1>1, <1>5 DEF recover

------------------------------------------------------------------------------
(* The service as a whole *)

\* The inductive invariant.
ServiceInv ==
  /\ Inv
  /\ ElectionInv
  /\ RoundsIn(led \cup {DefaultBallot}, storage, leader_state, outgoing, net)

\* At first.
LEMMA ServiceInitOK == OmniInit => Init /\ ServiceInv
<1> SUFFICES ASSUME OmniInit PROVE Init /\ ServiceInv
  OBVIOUS
<1>1. Init /\ Inv
  BY InitOK DEF OmniInit
<1>2. RoundsIn(led \cup {DefaultBallot}, storage, leader_state, outgoing, net)
  BY <1>1, InitWithin
<1>3. /\ heartbeat_replies = [p \in Server |-> {}] /\ replies = {}
      /\ current_ballot = [p \in Server |-> BLE!InitialBallot(p)]
      /\ leader = [p \in Server |-> BLE!InitialBallot(p)]
  BY DEF OmniInit, BLE!Init
<1>4. \A p \in Server : BLE!InitialBallot(p) \in Ballot
  BY ServerAssumption, ServiceAssumption DEF Ballot, BLE!InitialBallot, BLE!INITIAL_ROUND
<1>5. ElectionInv
  BY <1>3, <1>4, FS_EmptySet DEF ElectionInv
<1> QED BY <1>1, <1>2, <1>5 DEF ServiceInv

\* A step of the service is one of Sequence Paxos, and no round gets around that
\* was not led.
LEMMA ServiceStepOK ==
  ASSUME ServiceInv, [OmniNext]_omniVars
  PROVE  [AnyStep]_vars /\ ServiceInv'
<1> DEFINE R == led \cup {DefaultBallot}
<1>1. Inv /\ ElectionInv /\ Before(R) /\ led \subseteq R
  BY DEF ServiceInv, Before
<1>2. [AnyStep]_vars => Inv'
  BY <1>1, AnyStepOK
<1>3. ASSUME ElectionInv', [AnyStep]_vars, led \subseteq led', After(R)
      PROVE  [AnyStep]_vars /\ ServiceInv'
  <2>1. RoundsIn(led' \cup {DefaultBallot}, storage', leader_state', outgoing', net')
    BY <1>3, MoreRounds DEF After
  <2> QED BY <1>2, <1>3, <2>1 DEF ServiceInv
<1>4. UNCHANGED vars => After(R)
  BY <1>1 DEF Before, After, vars, serverVars
<1>5. UNCHANGED electionVars => ElectionInv' /\ UNCHANGED led
  BY <1>1 DEF electionVars, ElectionInv
<1>6. CASE UNCHANGED omniVars
  BY <1>3, <1>4, <1>5, <1>6 DEF omniVars
<1>7. ASSUME NEW p \in Server, NEW n \in Ballot, handle_leader(p, n), led' = led \cup {n}, ElectionInv'
      PROVE  [AnyStep]_vars /\ ServiceInv'
  <2>1. PICK Q : Q = led \cup {n} \cup {DefaultBallot}
    OBVIOUS
  <2>2. Before(Q) /\ n \in Q
    BY <1>1, <2>1, MoreRounds DEF Before
  <2>3. After(Q)
    BY <1>7, <2>2, HandleLeaderWithin
  <2>4. AnyStep
    BY <1>7 DEF AnyStep
  <2> QED BY <1>2, <1>7, <2>1, <2>3, <2>4 DEF ServiceInv, After
<1>8. ASSUME NEW p \in Server, election_timeout(p) PROVE [AnyStep]_vars /\ ServiceInv'
  BY <1>1, <1>3, <1>4, <1>7, <1>8, ElectionTimeoutStep
<1>9. ASSUME NEW p \in Server, try_become_leader(p) PROVE [AnyStep]_vars /\ ServiceInv'
  BY <1>1, <1>7, <1>9, TryBecomeLeaderStep
<1>10. ASSUME NEW p \in Server, NEW q \in Peers(p), handle_paxos(p, q) PROVE [AnyStep]_vars /\ ServiceInv'
  <2>1. After(R) /\ UNCHANGED electionVars
    BY <1>1, <1>10, HandleWithin DEF handle_paxos
  <2>2. AnyStep
    BY <1>10 DEF handle_paxos, AnyStep, Next
  <2> QED BY <1>3, <1>5, <2>1, <2>2
<1>11. ASSUME NEW p \in Server, NEW q \in Peers(p), handle_request(p, q) \/ handle_reply(p, q)
       PROVE  [AnyStep]_vars /\ ServiceInv'
  <2>1. ElectionInv' /\ UNCHANGED << vars, led >>
    BY <1>1, <1>11, HeartbeatStep DEF Peers
  <2> QED BY <1>3, <1>4, <2>1
<1>12. ASSUME NEW p \in Server, NEW v \in Value, omni_append(p, v) PROVE [AnyStep]_vars /\ ServiceInv'
  <2>1. After(R) /\ UNCHANGED electionVars
    BY <1>1, <1>12, ProposalsWithin DEF omni_append
  <2>2. AnyStep
    BY <1>12 DEF omni_append, AnyStep, Next
  <2> QED BY <1>3, <1>5, <2>1, <2>2
<1>13. ASSUME NEW p \in Server, recover(p) PROVE [AnyStep]_vars /\ ServiceInv'
  <2>1. ElectionInv' /\ restart(p) /\ UNCHANGED led
    BY <1>1, <1>13, RecoverStep
  <2>2. After(R)
    BY <1>1, <2>1, RestartWithin
  <2>3. AnyStep
    BY <2>1 DEF AnyStep, Next
  <2> QED BY <1>3, <2>1, <2>2, <2>3
<1> QED BY <1>6, <1>8, <1>9, <1>10, <1>11, <1>12, <1>13 DEF OmniNext

\* In every reachable state of the service.
LEMMA ServiceInvariance == OmniSpec => []ServiceInv
<1>1. OmniInit => ServiceInv
  BY ServiceInitOK
<1>2. ServiceInv /\ [OmniNext]_omniVars => ServiceInv'
  BY ServiceStepOK
<1> QED BY <1>1, <1>2, PTL DEF OmniSpec

\* There too, a history explains the state.
LEMMA ServiceExplained == Plain /\ OmniSpec => []Explained
<1>1. Plain /\ OmniInit => Explained
  BY ServiceInitOK, InitExplained
<1>2. ServiceInv /\ Explained /\ [OmniNext]_omniVars => Explained'
  <2> SUFFICES ASSUME ServiceInv, Explained, [OmniNext]_omniVars PROVE Explained'
    OBVIOUS
  <2>1. Inv /\ [AnyStep]_vars
    BY ServiceStepOK DEF ServiceInv
  <2>2. PICK h : Explains(h)
    BY DEF Explained
  <2>3. \E g : Succeeds(h, g)
    BY <2>1, <2>2, AnyStepSucceeds
  <2> QED BY <2>3 DEF Explained, Succeeds
<1> QED BY <1>1, <1>2, ServiceInvariance, PTL DEF OmniSpec

\* Whatever ballots the election comes up with and hands over, servers never decide
\* different entries, and what they decided a write quorum keeps (handle_leader
\* from hb_timeout and try_become_leader, recovery of both protocols).
THEOREM ServiceSafetyTheorem == Plain /\ OmniSpec => [](Agreement /\ DecidedIsDurable)
BY ServiceInvariance, ServiceExplained, AgreementHolds, DurabilityHolds, PTL DEF ServiceInv

\* And what a server decided stays decided.
THEOREM ServiceStabilityTheorem == Plain /\ OmniSpec => DecidedIsStable
<1>1. ServiceInv /\ [OmniNext]_omniVars => Inv /\ [AnyStep]_vars
  BY ServiceStepOK DEF ServiceInv
<1> QED BY <1>1, StabilityHolds, ServiceInvariance, ServiceExplained, PTL DEF OmniSpec, DecidedIsStable

\* Who accepts has the promises of a read quorum for its round.
LEMMA MayAccept ==
  ASSUME Inv, Explained, NEW p \in Server, p \notin panicked, accepting(p)
  PROVE  BLE!may_accept(p)
<1>1. PICK h : Explains(h)
  BY DEF Explained
<1>2. PICK n : n = storage[p].promise
  OBVIOUS
<1>3. LeadingOK(h, p)
  BY <1>1 DEF Explains, LeaderInv
<1>4. LeaderOK(h, p, storage[p], leader_state[p]) /\ AcceptOK(h, p, storage[p], leader_state[p])
  BY <1>3 DEF LeadingOK, accepting
<1>5. n \in h.est /\ n.pid = p
  BY <1>2, <1>4 DEF LeaderOK, AcceptOK
<1>6. n \in Ballot
  BY <1>2 DEF Inv, TypeOK, Storage
<1>7. Cardinality(Joined(n)) >= ReadQuorum
  BY <1>1, <1>5, <1>6 DEF Explains, RoundInv, RoundOK
<1> DEFINE prom == [r \in Server |-> storage[r].promise]
           S == {q \in Server : BLE!\preceq(prom[p], prom[q])}
<1>8. S = Joined(n) /\ prom[p].pid = p
  BY <1>2, <1>5, SameOrder DEF Joined
<1>9. BLE!may_accept(p) <=> prom[p].pid = p /\ BLE!Cardinality(S) >= ReadQuorum
  BY DEF BLE!may_accept, BLE!is_prepare_quorum
<1>10. BLE!Cardinality(S) = Cardinality(S)
  BY DEF BLE!Cardinality, Cardinality
<1> HIDE DEF S
<1> QED BY <1>7, <1>8, <1>9, <1>10

\* The election is told the truth: a server that accepts has a read quorum behind
\* its round, and every promise was a round that some server started to lead.
THEOREM ElectionTheorem == Plain /\ OmniSpec => []ElectionSeesRounds
<1>1. ServiceInv /\ Explained => ElectionSeesRounds
  <2> SUFFICES ASSUME ServiceInv, Explained, NEW p \in Server
               PROVE  /\ p \notin panicked /\ accepting(p) => BLE!may_accept(p)
                      /\ storage[p].promise \in led \cup {DefaultBallot}
    BY DEF ElectionSeesRounds
  <2> QED BY MayAccept DEF ServiceInv, RoundsIn
<1> QED BY <1>1, ServiceInvariance, ServiceExplained, PTL

\* The second half needs no restriction: with batches taken late, snapshots and stop
\* signs too, no server promises or leads a round that none started.
THEOREM LedRoundsTheorem ==
  OmniSpec => [](\A p \in Server : /\ storage[p].promise \in led \cup {DefaultBallot}
                                   /\ leader_state[p].n_leader \in led \cup {DefaultBallot})
<1>1. ServiceInv => \A p \in Server : /\ storage[p].promise \in led \cup {DefaultBallot}
                                      /\ leader_state[p].n_leader \in led \cup {DefaultBallot}
  BY DEF ServiceInv, RoundsIn
<1> QED BY <1>1, ServiceInvariance, PTL

------------------------------------------------------------------------------
(* No proposal is replicated twice *)

\* No value is twice in a.
NoRepeat(a) == \A i, j \in 1 .. Len(a) : a[i] = a[j] => i = j

\* a and b share no value.
Apart(a, b) == \A i \in 1 .. Len(a), j \in 1 .. Len(b) : a[i] # b[j]

\* The values of a are in X.
Among(a, X) == \A i \in 1 .. Len(a) : a[i] \in X

\* The values of a.
Values(a) == {a[i] : i \in 1 .. Len(a)}

\* Two lists of entries that share nothing, one behind the other.
LEMMA ConcatApart ==
  ASSUME NEW a \in Entries, NEW b \in Entries, NoRepeat(a), NoRepeat(b), Apart(a, b)
  PROVE  /\ a \o b \in Entries /\ NoRepeat(a \o b)
         /\ \A c \in Entries : Apart(a, c) /\ Apart(b, c) => Apart(a \o b, c)
         /\ Among(a \o b, Values(a) \cup Values(b))
<1>1. /\ a \o b \in Seq(Value) /\ Len(a \o b) = Len(a) + Len(b)
      /\ \A i \in 1 .. Len(a) + Len(b) : (a \o b)[i] = IF i <= Len(a) THEN a[i] ELSE b[i - Len(a)]
  BY ConcatProperties DEF Entries
<1>2. Len(a) \in Nat /\ Len(b) \in Nat
  BY LenProperties DEF Entries
<1>3. ASSUME NEW i \in 1 .. Len(a \o b)
      PROVE  \/ i \in 1 .. Len(a) /\ (a \o b)[i] = a[i]
             \/ ~ (i <= Len(a)) /\ i - Len(a) \in 1 .. Len(b) /\ (a \o b)[i] = b[i - Len(a)]
  BY <1>1, <1>2
<1>4. NoRepeat(a \o b)
  <2> SUFFICES ASSUME NEW i \in 1 .. Len(a \o b), NEW j \in 1 .. Len(a \o b), (a \o b)[i] = (a \o b)[j]
               PROVE  i = j
    BY DEF NoRepeat
  <2>1. i - Len(a) = j - Len(a) => i = j
    BY <1>1, <1>2
  <2> QED BY <1>3, <2>1 DEF NoRepeat, Apart
<1>5. \A c \in Entries : Apart(a, c) /\ Apart(b, c) => Apart(a \o b, c)
  BY <1>3 DEF Apart
<1>6. Among(a \o b, Values(a) \cup Values(b))
  BY <1>3 DEF Among, Values
<1> QED BY <1>1, <1>4, <1>5, <1>6 DEF Entries

\* What a call does with the entries that wait at the server, buffered or in its
\* batch, and with those that arrive: they stay, are passed on, join the log or
\* are lost.
Hands(buffered, batched, arrived, buffered1, batched1, forwarded, logged) ==
  \/ /\ buffered1 \in {buffered, << >>} /\ batched1 \in {batched, << >>}
     /\ forwarded = << >> /\ logged = << >>
  \/ /\ buffered1 = buffered \o arrived /\ batched1 = batched
     /\ forwarded = << >> /\ logged = << >>
  \/ /\ buffered1 = buffered /\ batched1 = batched
     /\ forwarded = arrived /\ logged = << >>
  \/ /\ buffered1 = buffered /\ batched1 = batched \o arrived
     /\ forwarded = << >> /\ logged = << >>
  \/ /\ buffered1 = buffered /\ batched1 = << >>
     /\ forwarded = << >> /\ logged = batched \o arrived
  \/ /\ buffered1 \in {buffered, << >>} /\ batched1 = << >>
     /\ forwarded = << >> /\ logged = batched
  \/ /\ buffered1 = << >> /\ batched1 = << >>
     /\ forwarded = << >> /\ logged = buffered
  \/ /\ buffered1 = << >> /\ batched1 = << >>
     /\ forwarded = buffered /\ logged = << >>

\* Four lists without repetition that share no value and have only those of X.
Parts(X, a, b, c, d) ==
  /\ NoRepeat(a) /\ NoRepeat(b) /\ NoRepeat(c) /\ NoRepeat(d)
  /\ Among(a, X) /\ Among(b, X) /\ Among(c, X) /\ Among(d, X)
  /\ Apart(a, b) /\ Apart(a, c) /\ Apart(a, d) /\ Apart(b, c) /\ Apart(b, d) /\ Apart(c, d)

\* None of them gets doubled by that.
LEMMA HandsParts ==
  ASSUME NEW a \in Entries, NEW b \in Entries, NEW c \in Entries,
         NoRepeat(a), NoRepeat(b), NoRepeat(c), Apart(a, b), Apart(a, c), Apart(b, c),
         NEW a1, NEW b1, NEW f, NEW n, Hands(a, b, c, a1, b1, f, n)
  PROVE  Parts(Values(a) \cup Values(b) \cup Values(c), a1, b1, f, n)
<1> DEFINE X == Values(a) \cup Values(b) \cup Values(c)
<1>1. PICK e : e = << >> /\ Len(e) = 0
  OBVIOUS
<1>2. NoRepeat(e) /\ Among(e, X) /\ \A x : Apart(e, x) /\ Apart(x, e)
  BY <1>1 DEF NoRepeat, Among, Apart
<1>3. Among(a, X) /\ Among(b, X) /\ Among(c, X)
  BY DEF Among, Values
<1>4. \A x, y : Apart(x, y) => Apart(y, x)
  BY DEF Apart
<1>5. PICK u, w : /\ u = a \o c /\ NoRepeat(u) /\ Among(u, Values(a) \cup Values(c)) /\ Apart(u, b)
                  /\ w = b \o c /\ NoRepeat(w) /\ Among(w, Values(b) \cup Values(c)) /\ Apart(w, a)
  <2>1. PICK u : u = a \o c /\ NoRepeat(u) /\ Among(u, Values(a) \cup Values(c)) /\ Apart(u, b)
    BY <1>4, ConcatApart
  <2>2. PICK w : w = b \o c /\ NoRepeat(w) /\ Among(w, Values(b) \cup Values(c)) /\ Apart(w, a)
    BY <1>4, ConcatApart
  <2> QED BY <2>1, <2>2
<1>6. Among(u, X) /\ Among(w, X)
  BY <1>5 DEF Among
<1> HIDE DEF X
<1>7. \/ /\ a1 \in {a, e} /\ b1 \in {b, e} /\ f = e /\ n = e
      \/ a1 = u /\ b1 = b /\ f = e /\ n = e
      \/ a1 = a /\ b1 = b /\ f = c /\ n = e
      \/ a1 = a /\ b1 = w /\ f = e /\ n = e
      \/ a1 = a /\ b1 = e /\ f = e /\ n = w
      \/ a1 \in {a, e} /\ b1 = e /\ f = e /\ n = b
      \/ a1 = e /\ b1 = e /\ f = e /\ n = a
      \/ a1 = e /\ b1 = e /\ f = a /\ n = e
  BY <1>1, <1>5 DEF Hands
<1>8. Parts(X, a1, b1, f, n)
  BY <1>2, <1>3, <1>4, <1>5, <1>6, <1>7 DEF Parts
<1> QED BY <1>8 DEF X

\* The lists W[a] and R[r] have no value twice, neither in one nor in two of
\* them, except that the lists of R may share values; all are in made.
Tidy(P, W, B, R, made) ==
  /\ \A a \in P : NoRepeat(W[a]) /\ Among(W[a], made)
  /\ \A a, b \in P : a # b => Apart(W[a], W[b])
  /\ \A r \in B : NoRepeat(R[r]) /\ Among(R[r], made)
  /\ \A a \in P, r \in B : Apart(W[a], R[r])

\* t is the beginning of a, up to its k-th entry, and then N.
Prolongs(a, t, k, N) == Agree(a, t, k) /\ Segment(t, k, N) /\ Len(t) = k + Len(N)

\* A list that goes on with values it does not have.
LEMMA ProlongTidy ==
  ASSUME NEW a \in Entries, NEW t \in Entries, NEW N \in Entries, NEW k \in Nat, Prolongs(a, t, k, N),
         NEW made, NEW made2, made \subseteq made2, NEW X, X \subseteq made2,
         NoRepeat(a), Among(a, made), NoRepeat(N), Among(N, X), Apart(N, a)
  PROVE  /\ NoRepeat(t) /\ Among(t, made2)
         /\ \A c : Apart(c, a) /\ Apart(c, N) => Apart(c, t)
<1>1. Len(a) \in Nat /\ Len(t) \in Nat /\ Len(N) \in Nat /\ k <= Len(a) /\ Len(t) = k + Len(N)
  BY LenProperties DEF Entries, Prolongs, Agree
<1>2. ASSUME NEW i \in 1 .. Len(t)
      PROVE  \/ i \in 1 .. Len(a) /\ t[i] = a[i] /\ i <= k
             \/ i - k \in 1 .. Len(N) /\ t[i] = N[i - k] /\ ~ (i <= k)
  <2>1. CASE i <= k
    BY <2>1, <1>1 DEF Prolongs, Agree
  <2>2. CASE ~ (i <= k)
    <3>1. i - k \in 1 .. Len(N) /\ k + (i - k) = i
      BY <2>2, <1>1
    <3> QED BY <3>1, <2>2 DEF Prolongs, Segment
  <2> QED BY <2>1, <2>2
<1>3. NoRepeat(t)
  <2> SUFFICES ASSUME NEW i \in 1 .. Len(t), NEW j \in 1 .. Len(t), t[i] = t[j]
               PROVE  i = j
    BY DEF NoRepeat
  <2>1. CASE i <= k /\ j <= k
    BY <2>1, <1>2 DEF NoRepeat
  <2>2. CASE ~ (i <= k) /\ ~ (j <= k)
    <3>1. i - k = j - k
      BY <2>2, <1>2 DEF NoRepeat
    <3> QED BY <3>1, <1>1
  <2>3. CASE (i <= k /\ ~ (j <= k)) \/ (~ (i <= k) /\ j <= k)
    BY <2>3, <1>2 DEF Apart
  <2> QED BY <2>1, <2>2, <2>3
<1>4. Among(t, made2)
  BY <1>2 DEF Among
<1>5. \A c : Apart(c, a) /\ Apart(c, N) => Apart(c, t)
  BY <1>2 DEF Apart
<1> QED BY <1>3, <1>4, <1>5

\* The lists W[b] with b in S, and values that are new, are handed on as the lists
\* U[a] with a in Q and as N, with which lists R[r] go on; the others move.
HandsOn(P, B, W, U, R, T, made, made2, S, Q, src, X, N) ==
  /\ \A r \in B : /\ R[r] \in Entries /\ T[r] \in Entries
                  /\ T[r] = R[r] \/ \E m \in B, k \in Nat : Prolongs(R[m], T[r], k, N)
  /\ \A a \in P \ Q : src[a] \in P /\ (U[a] = << >> \/ (src[a] \notin S /\ U[a] = W[src[a]]))
  /\ \A a, b \in P \ Q : a # b => src[a] # src[b]
  /\ X \subseteq made2 /\ made \subseteq made2
  /\ \A x \in X : x \notin made \/ \E b \in S \cap P : x \in Values(W[b])
  /\ N \in Entries /\ NoRepeat(N) /\ Among(N, X)
  /\ \A a \in P \cap Q : NoRepeat(U[a]) /\ Among(U[a], X) /\ Apart(U[a], N)
  /\ \A a, b \in P \cap Q : a # b => Apart(U[a], U[b])

\* That leaves them tidy.
LEMMA TidyStep ==
  ASSUME NEW P, NEW B, NEW W, NEW U, NEW R, NEW T, NEW made, NEW made2, NEW S, NEW Q, NEW src, NEW X, NEW N,
         Tidy(P, W, B, R, made), HandsOn(P, B, W, U, R, T, made, made2, S, Q, src, X, N)
  PROVE  Tidy(P, U, B, T, made2)
<1> /\ \A r \in B : /\ R[r] \in Entries /\ T[r] \in Entries
                    /\ T[r] = R[r] \/ \E m \in B, k \in Nat : Prolongs(R[m], T[r], k, N)
    /\ \A a \in P \ Q : src[a] \in P /\ (U[a] = << >> \/ (src[a] \notin S /\ U[a] = W[src[a]]))
    /\ \A a, b \in P \ Q : a # b => src[a] # src[b]
    /\ X \subseteq made2 /\ made \subseteq made2
    /\ \A x \in X : x \notin made \/ \E b \in S \cap P : x \in Values(W[b])
    /\ N \in Entries /\ NoRepeat(N) /\ Among(N, X)
    /\ \A a \in P \cap Q : NoRepeat(U[a]) /\ Among(U[a], X) /\ Apart(U[a], N)
    /\ \A a, b \in P \cap Q : a # b => Apart(U[a], U[b])
  BY DEF HandsOn
<1>1. PICK e : e = << >> /\ Len(e) = 0
  OBVIOUS
<1>2. NoRepeat(e) /\ \A x : Among(e, x) /\ Apart(e, x) /\ Apart(x, e)
  BY <1>1 DEF NoRepeat, Among, Apart
<1>3. \A x, y : Apart(x, y) => Apart(y, x)
  BY DEF Apart
<1>4. \A c : Among(c, made) => Among(c, made2)
  BY DEF Among
<1>5. ASSUME NEW c, Among(c, X)
      PROVE  /\ \A b \in P \ S : Apart(c, W[b])
             /\ \A r \in B : Apart(c, R[r])
             /\ Among(c, made2)
  <2>1. Among(c, made2)
    BY <1>5 DEF Among
  <2>2. ASSUME NEW b \in P \ S PROVE Apart(c, W[b])
    <3> SUFFICES ASSUME NEW i \in 1 .. Len(c), NEW j \in 1 .. Len(W[b]), c[i] = W[b][j]
                 PROVE  FALSE
      BY DEF Apart
    <3>1. c[i] \in made /\ c[i] \in X
      BY <1>5 DEF Tidy, Among
    <3>2. PICK d \in S \cap P : c[i] \in Values(W[d])
      BY <3>1
    <3>3. Apart(W[d], W[b])
      BY DEF Tidy
    <3> QED BY <3>2, <3>3 DEF Values, Apart
  <2>3. ASSUME NEW r \in B PROVE Apart(c, R[r])
    <3> SUFFICES ASSUME NEW i \in 1 .. Len(c), NEW j \in 1 .. Len(R[r]), c[i] = R[r][j]
                 PROVE  FALSE
      BY DEF Apart
    <3>1. c[i] \in made /\ c[i] \in X
      BY <1>5 DEF Tidy, Among
    <3>2. PICK d \in S \cap P : c[i] \in Values(W[d])
      BY <3>1
    <3>3. Apart(W[d], R[r])
      BY DEF Tidy
    <3> QED BY <3>2, <3>3 DEF Values, Apart
  <2> QED BY <2>1, <2>2, <2>3
<1>6. ASSUME NEW r \in B
      PROVE  /\ NoRepeat(T[r]) /\ Among(T[r], made2)
             /\ \A c : (\A m \in B : Apart(c, R[m])) /\ Apart(c, N) => Apart(c, T[r])
  <2>1. CASE T[r] = R[r]
    BY <2>1, <1>4 DEF Tidy
  <2>2. ASSUME NEW m \in B, NEW k \in Nat, Prolongs(R[m], T[r], k, N)
        PROVE  /\ NoRepeat(T[r]) /\ Among(T[r], made2)
               /\ \A c : (\A n \in B : Apart(c, R[n])) /\ Apart(c, N) => Apart(c, T[r])
    <3>1. NoRepeat(R[m]) /\ Among(R[m], made) /\ Apart(N, R[m])
      BY <1>5 DEF Tidy
    <3>2. R[m] \in Entries /\ T[r] \in Entries
      OBVIOUS
    <3> QED BY <3>1, <3>2, <2>2, ProlongTidy
  <2> QED BY <2>1, <2>2
<1>7. ASSUME NEW a \in P
      PROVE  NoRepeat(U[a]) /\ Among(U[a], made2) /\ \A r \in B : Apart(U[a], T[r])
  <2>1. CASE a \in Q
    BY <2>1, <1>5, <1>6
  <2>2. CASE a \notin Q /\ U[a] = << >>
    BY <2>2, <1>1, <1>2
  <2>3. CASE a \notin Q /\ src[a] \notin S /\ U[a] = W[src[a]]
    <3>1. src[a] \in P \ S
      BY <2>3
    <3>2. Apart(N, W[src[a]]) /\ \A m \in B : Apart(W[src[a]], R[m])
      BY <3>1, <1>5 DEF Tidy
    <3>3. NoRepeat(W[src[a]]) /\ Among(W[src[a]], made)
      BY <3>1 DEF Tidy
    <3> QED BY <3>2, <3>3, <2>3, <1>3, <1>4, <1>6
  <2> QED BY <2>1, <2>2, <2>3
<1>8. ASSUME NEW a \in P, NEW b \in P, a # b, a \in Q, b \notin Q
      PROVE  Apart(U[a], U[b])
  <2>1. CASE U[b] = << >>
    BY <2>1, <1>1, <1>2
  <2>2. CASE src[b] \notin S /\ U[b] = W[src[b]]
    <3>1. src[b] \in P \ S
      BY <1>8, <2>2
    <3> QED BY <1>8, <3>1, <2>2, <1>5
  <2> QED BY <1>8, <2>1, <2>2
<1>9. ASSUME NEW a \in P, NEW b \in P, a # b PROVE Apart(U[a], U[b])
  <2>1. CASE a \in Q /\ b \in Q
    BY <2>1, <1>9
  <2>2. CASE (a \in Q /\ b \notin Q) \/ (a \notin Q /\ b \in Q)
    BY <2>2, <1>9, <1>8, <1>3
  <2>3. CASE a \notin Q /\ b \notin Q
    <3>1. CASE U[a] = << >> \/ U[b] = << >>
      BY <3>1, <1>1, <1>2
    <3>2. CASE U[a] = W[src[a]] /\ U[b] = W[src[b]]
      <4>1. src[a] \in P /\ src[b] \in P /\ src[a] # src[b]
        BY <2>3, <1>9
      <4> QED BY <4>1, <3>2 DEF Tidy
    <3> QED BY <2>3, <3>1, <3>2
  <2> QED BY <2>1, <2>2, <2>3
<1> QED BY <1>6, <1>7, <1>9 DEF Tidy

\* The entries that wait: buffered at a server, in the batch of a server that
\* accepted last in a round of its own, or forwarded and on their way.
Buffer(p) == IF p \in panicked THEN << >> ELSE buffered_proposals[p]
Batch(p) == IF storage[p].accepted_round.pid = p THEN storage[p].batched_entries ELSE << >>
InTransit(c, i) == IF i \in 1 .. Len(c) /\ c[i].type = "ProposalForward" THEN c[i].entries ELSE << >>

\* Each waits in a place <<x, y, i>>: in the channel from x to y, or at x = y.
Place == Server \X Server \X Nat
Waiting(a) ==
  IF a[1] # a[2]
    THEN InTransit(net[a[1]][a[2]], a[3])
    ELSE IF a[3] = 0 THEN Buffer(a[1]) ELSE IF a[3] = 1 THEN Batch(a[1]) ELSE << >>

\* The values that were proposed.
Made == {x[2] : x \in proposed}

\* A proposal waits once at most, and then it is in the log of no round; it is
\* in the log of a round once at most.
Unique(h) == Tidy(Place, [a \in Place |-> Waiting(a)], Ballot, h.rlog, Made)

\* Every value is proposed by one server.
OneProposer == \A x, y \in Proposals : x[2] = y[2] => x = y

\* What p stores in its own round: nothing new, or N behind the rest, which is
\* what it buffered if the round begins.
Writes(p, N) ==
  LET s == storage[p]
      t == storage'[p]
  IN  t.accepted_round.pid = p =>
        /\ t.accepted_round # s.accepted_round => N = buffered_proposals[p]
        /\ t.accepted_round = s.accepted_round =>
             \/ t.accepted_idx = s.accepted_idx
             \/ /\ t.log = s.log \o N /\ t.compacted_idx = s.compacted_idx
                /\ t.accepted_idx = s.accepted_idx + Len(N)

\* So the log of a round stays, or goes on with N.
LEMMA LogsGrow ==
  ASSUME NEW h, From(h), NEW g, Succeeds(h, g), NEW p \in Server, \A q \in Peers(p) : storage'[q] = storage[q],
         NEW N \in Entries, Writes(p, N), NEW r \in Ballot
  PROVE  g.rlog[r] = h.rlog[r] \/ \E m \in Ballot, k \in Nat : Prolongs(h.rlog[m], g.rlog[r], k, N)
<1> SUFFICES ASSUME g.rlog[r] # h.rlog[r]
             PROVE  \E m \in Ballot, k \in Nat : Prolongs(h.rlog[m], g.rlog[r], k, N)
  OBVIOUS
<1>1. /\ TypeOK /\ TypeOK' /\ h \in History /\ g \in History
      /\ RoundInv(h) /\ LogInv(h) /\ RoundInv(g)' /\ LogInv(g)'
  BY DEF From, Inv, Succeeds, Explains
<1>2. Extends(h.rlog[r], g.rlog[r]) /\ Written(h, g, r)
  BY DEF Succeeds, Later
<1>3. PICK a, b : a = h.rlog[r] /\ b = g.rlog[r]
  OBVIOUS
<1>4. /\ a \in Entries /\ b \in Entries /\ Len(a) \in Nat /\ Len(b) \in Nat /\ Len(a) <= Len(b)
      /\ \A i \in 1 .. Len(a) : a[i] = b[i]
  <2>1. a \in Entries /\ b \in Entries
    BY <1>1, <1>3, HistoryFields
  <2> QED BY <2>1, <1>2, <1>3, LenProperties DEF Entries, Extends, Agree
<1>5. Len(a) # Len(b)
  <2> SUFFICES ASSUME Len(a) = Len(b) PROVE FALSE
    OBVIOUS
  <2>1. a = b
    BY <1>4, SeqEqual DEF Entries
  <2> QED BY <2>1, <1>3
<1>6. r \in g.est
  <2> SUFFICES ASSUME r \notin g.est PROVE FALSE
    OBVIOUS
  <2>1. b = << >>
    BY <1>1, <1>3 DEF RoundInv, Unused
  <2>2. Len(b) = 0
    BY <2>1
  <2> QED BY <2>2, <1>4, <1>5
<1>7. PICK x \in Server : x = r.pid
  BY <1>1, <1>6 DEF RoundInv, RoundOK
<1>8. PICK s, t : /\ s = storage[x] /\ t = storage'[x] /\ s \in Storage /\ t \in Storage
                  /\ LogOK(h, x, s) /\ BatchOK(h, x, s) /\ LogOK(g, x, t)' /\ BatchOK(g, x, t)'
  <2>1. storage[x] \in Storage /\ storage'[x] \in Storage
    BY <1>1 DEF TypeOK
  <2> QED BY <2>1, <1>1 DEF LogInv
<1>9. t.accepted_round = r /\ (r \in h.est => s.accepted_round = r)
  BY <1>2, <1>7, <1>8 DEF Written
<1>10. Len(b) = t.accepted_idx
  BY <1>3, <1>7, <1>8, <1>9 DEF BatchOK
<1>11. s.accepted_round \in h.est \cup {DefaultBallot} /\ r # DefaultBallot
  <2>1. x # 0 /\ DefaultBallot.pid = 0
    BY ServerAssumption DEF DefaultBallot
  <2> QED BY <2>1, <1>7, <1>8 DEF LogOK
<1>12. CASE r \in h.est
  <2>1. s.accepted_round = r /\ Len(a) = s.accepted_idx
    BY <1>12, <1>3, <1>7, <1>8, <1>9 DEF BatchOK
  <2>2. x = p
    BY <2>1, <1>5, <1>8, <1>10 DEF Peers
  <2>3. t.log = s.log \o N /\ t.compacted_idx = s.compacted_idx /\ t.accepted_idx = s.accepted_idx + Len(N)
    BY <2>1, <2>2, <1>5, <1>7, <1>8, <1>9, <1>10 DEF Writes
  <2>4. /\ s.log \in Entries /\ t.log \in Entries /\ s.compacted_idx \in Nat /\ s.accepted_idx \in Nat
        /\ Len(s.log) \in Nat /\ Len(N) \in Nat
    BY <1>8, StorageFields, LenProperties DEF Entries
  <2>5. s.accepted_idx = s.compacted_idx + Len(s.log) /\ Segment(b, s.compacted_idx, s.log \o N)
    BY <2>3, <1>3, <1>8, <1>9 DEF LogOK
  <2>6. Len(s.log \o N) = Len(s.log) + Len(N) /\ Segment(s.log \o N, Len(s.log), N)
    BY <2>4, AppendExtends
  <2>7. \A i \in 1 .. Len(N) : b[Len(a) + i] = N[i]
    <3> TAKE i \in 1 .. Len(N)
    <3>1. Len(s.log) + i \in 1 .. Len(s.log \o N) /\ s.compacted_idx + (Len(s.log) + i) = Len(a) + i
      BY <2>1, <2>4, <2>5, <2>6
    <3> QED BY <3>1, <2>5, <2>6 DEF Segment
  <2>8. Len(b) = Len(a) + Len(N)
    BY <2>1, <2>3, <1>10
  <2>9. Prolongs(a, b, Len(a), N)
    BY <2>4, <2>7, <2>8, <1>4 DEF Prolongs, Agree, Segment
  <2> QED BY <2>9, <1>3, <1>4
<1>13. CASE r \notin h.est
  <2>1. s.accepted_round # r
    BY <1>11, <1>13
  <2>2. x = p
    BY <2>1, <1>8, <1>9 DEF Peers
  <2>3. N = buffered_proposals[r.pid]
    BY <2>1, <2>2, <1>7, <1>8, <1>9 DEF Writes
  <2>4. Begun(h, g, r)
    BY <1>6, <1>13 DEF Succeeds, Later
  <2> QED BY <2>3, <2>4 DEF Begun, Prolongs
<1> QED BY <1>12, <1>13

\* If the call forwards entries, then as the first message to the leader it knows.
Forwards(p, out, F) ==
  \A y \in Peers(p) :
    \/ out[y] = << >>
    \/ \E m : out[y] = << m >> /\ m.type # "ProposalForward"
    \/ /\ y = get_current_leader(p)
       /\ \/ out[y] = << ProposalForward(F) >>
          \/ \E m : out[y] = << ProposalForward(F), m >> /\ m.type # "ProposalForward"

\* The entries of q that wait, and the log of q, stay.
Rests(q) ==
  /\ storage'[q] = storage[q] /\ buffered_proposals'[q] = buffered_proposals[q]
  /\ q \in panicked' <=> q \in panicked

\* The entries A come to p, from another server or from its user.
Arrives(p, A) ==
  \/ A = << >>
  \/ \E q \in Peers(p) : /\ net[q][p] # << >> /\ net'[q][p] = Tail(net[q][p])
                         /\ A = InTransit(net[q][p], 1)
  \/ \E v \in Value : /\ A = << v >>
                      /\ << p, v >> \in Proposals \ proposed /\ << p, v >> \in proposed'

\* What a step of p does with the entries that wait at p, and with A that comes
\* to p: it forwards F, and stores N in its own round.
Carries(p, out, F, A, N) ==
  /\ \A q \in Peers(p) : Rests(q)
  /\ Reaches(p, out) /\ Forwards(p, out, F)
  /\ proposed \subseteq proposed' /\ Arrives(p, A)
  /\ Writes(p, N)
  /\ A \in Entries /\ N \in Entries
  /\ Hands(Buffer(p), Batch(p), A, Buffer(p)', Batch(p)', F, N)

\* The places a step of p fills.
Filled(p) ==
  {a \in Place : /\ a[1] = p
                 /\ \/ a[2] = p
                    \/ a[2] = get_current_leader(p) /\ a[3] = Len(net[p][a[2]]) + 1}

\* In transit is what was there already, and what the call forwards.
LEMMA OwnChannels ==
  ASSUME TypeOK, NEW p \in Server, NEW out, NEW F, Reaches(p, out), Forwards(p, out, F),
         NEW y \in Peers(p), NEW i \in Nat
  PROVE  LET c == InTransit(net[p][y], i)
             d == InTransit(net'[p][y], i)
         IN  IF i = Len(net[p][y]) + 1
               THEN d = << >> \/ (y = get_current_leader(p) /\ d = F)
               ELSE d = << >> \/ d = c
<1>1. PICK a, b, o : a = net[p][y] /\ b = net'[p][y] /\ o = out[y]
  OBVIOUS
<1>2. a \in Seq(Message) /\ b \in {a, a \o o}
  <2>1. a \in Seq(Message)
    BY <1>1 DEF TypeOK, Peers
  <2>2. net'[p][y] \in {net[p][y], net[p][y] \o out[y]}
    BY DEF Reaches
  <2> QED BY <2>1, <2>2, <1>1
<1>3. PICK S : a \in Seq(S) /\ o \in Seq(S) /\ Len(a) \in Nat /\ Len(o) \in Nat
  <2>1. PICK f : f = ProposalForward(F)
    OBVIOUS
  <2>2. \E m : o \in {<< >>, << m >>, << f >>, << f, m >>}
    BY <1>1, <2>1 DEF Forwards
  <2>3. PICK m : o \in {<< >>, << m >>, << f >>, << f, m >>}
    BY <2>2
  <2>4. PICK S : S = Message \cup {f, m}
    OBVIOUS
  <2>5. f \in S /\ m \in S /\ Message \subseteq S
    BY <2>4
  <2>6. o \in Seq(S)
    <3>1. << >> \in Seq(S) /\ << m >> \in Seq(S) /\ << f >> \in Seq(S) /\ << f, m >> \in Seq(S)
      BY <2>5, EmptySeq
    <3> QED BY <2>3, <3>1
  <2>7. a \in Seq(S)
    BY <1>2, <2>5, SeqDef
  <2> QED BY <2>6, <2>7, LenProperties
<1>4. \A j \in 1 .. Len(o) : o[j].type = "ProposalForward" => y = get_current_leader(p) /\ j = 1 /\ o[j].entries = F
  <2>0. ProposalForward(F).entries = F
    BY DEF ProposalForward
  <2>1. PICK f : f = ProposalForward(F) /\ f.entries = F
    BY <2>0
  <2>2. \/ o = << >>
        \/ \E m : o = << m >> /\ m.type # "ProposalForward"
        \/ y = get_current_leader(p) /\ (o = << f >> \/ \E m : o = << f, m >> /\ m.type # "ProposalForward")
    BY <1>1, <2>1 DEF Forwards
  <2> QED BY <2>1, <2>2
<1>5. CASE b = a
  BY <1>1, <1>3, <1>5 DEF InTransit
<1>6. CASE b = a \o o
  <2>1. /\ Len(b) = Len(a) + Len(o)
        /\ \A j \in 1 .. Len(a) + Len(o) : b[j] = IF j <= Len(a) THEN a[j] ELSE o[j - Len(a)]
    BY <1>3, <1>6, ConcatProperties
  <2>2. CASE i \in 1 .. Len(a)
    <3>1. i \in 1 .. Len(b) /\ b[i] = a[i] /\ i # Len(a) + 1
      BY <2>1, <2>2, <1>3
    <3> QED BY <3>1, <2>2, <1>1 DEF InTransit
  <2>3. CASE i \in 1 .. Len(b) /\ ~ (i <= Len(a)) /\ b[i].type = "ProposalForward"
    <3>1. PICK j : j = i - Len(a)
      OBVIOUS
    <3>2. j \in 1 .. Len(o) /\ b[i] = o[j] /\ (j = 1 => i = Len(a) + 1)
      BY <3>1, <2>1, <2>3, <1>3
    <3>3. y = get_current_leader(p) /\ j = 1 /\ b[i].entries = F
      BY <3>2, <2>3, <1>4
    <3> QED BY <3>2, <3>3, <2>3, <1>1 DEF InTransit
  <2>4. CASE ~ (i \in 1 .. Len(b) /\ b[i].type = "ProposalForward")
    BY <2>4, <1>1 DEF InTransit
  <2> QED BY <2>2, <2>3, <2>4, <1>3
<1> QED BY <1>2, <1>5, <1>6

\* The places a step of p empties.
Emptied(p) ==
  {a \in Place : /\ a[2] = p
                 /\ \/ a[1] = p
                    \/ /\ a[1] # p /\ a[3] = 1
                       /\ net[a[1]][p] # << >> /\ net'[a[1]][p] = Tail(net[a[1]][p])}

\* How far the messages from x to y move up.
MovesUp(p, x, y) == IF x = p \/ x = y THEN 0 ELSE Len(net[x][y]) - Len(net'[x][y])

\* The other places: what waits there waited at p's step in a place before.
LEMMA OtherPlaces ==
  ASSUME TypeOK, NEW p \in Server, NEW out, Reaches(p, out), NEW x \in Server, NEW y \in Server, x # p,
         \A q \in Peers(p) : Rests(q), NEW i \in Nat
  PROVE  LET a == << x, y, i >>
             b == << x, y, i + MovesUp(p, x, y) >>
         IN  /\ b \in Place
             /\ Waiting(a)' = << >> \/ (b \notin Emptied(p) /\ Waiting(a)' = Waiting(b))
<1> DEFINE a == << x, y, i >>
           b == << x, y, i + MovesUp(p, x, y) >>
<1>0. a[1] = x /\ a[2] = y /\ a[3] = i /\ b[1] = x /\ b[2] = y /\ b[3] = i + MovesUp(p, x, y)
  OBVIOUS
<1>1. CASE x = y
  <2>1. b = a /\ b \in Place
    BY <1>1 DEF MovesUp, Place
  <2>2. b \notin Emptied(p)
    BY <1>0, <1>1 DEF Emptied
  <2>3. Buffer(x)' = Buffer(x) /\ Batch(x)' = Batch(x)
    BY DEF Rests, Buffer, Batch, Peers
  <2>4. Waiting(a)' = Waiting(a)
    BY <2>3, <1>0, <1>1 DEF Waiting
  <2> QED BY <2>1, <2>2, <2>4
<1>2. CASE x # y
  <2>1. PICK c, d : c = net[x][y] /\ d = net'[x][y]
    OBVIOUS
  <2>2. c \in Seq(Message) /\ Shortened(c, d)
    BY <2>1 DEF TypeOK, Reaches, Peers
  <2>3. PICK k \in Nat : Len(d) + k = Len(c) /\ \A j \in 1 .. Len(d) : j + k \in 1 .. Len(c) /\ d[j] = c[j + k]
    <3>1. Len(c) \in Nat /\ Len(d) \in Nat /\ d \in Seq(Message)
      BY <2>2, ShortenedChannel, LenProperties
    <3>2. CASE d = c
      <4>1. Len(d) + 0 = Len(c) /\ \A j \in 1 .. Len(d) : j + 0 \in 1 .. Len(c) /\ d[j] = c[j + 0]
        BY <3>1, <3>2
      <4> QED BY <4>1
    <3>3. CASE c # << >> /\ d = Tail(c)
      <4>1. Len(d) = Len(c) - 1 /\ \A j \in 1 .. Len(d) : d[j] = c[j + 1]
        BY <2>2, <3>3, HeadTailProperties
      <4>2. Len(d) + 1 = Len(c) /\ \A j \in 1 .. Len(d) : j + 1 \in 1 .. Len(c) /\ d[j] = c[j + 1]
        BY <3>1, <4>1
      <4> QED BY <4>2
    <3> QED BY <2>2, <3>2, <3>3 DEF Shortened
  <2>4. Len(c) \in Nat /\ Len(d) \in Nat
    BY <2>2, ShortenedChannel, LenProperties
  <2>5. MovesUp(p, x, y) = k
    BY <2>1, <2>3, <2>4, <1>2 DEF MovesUp
  <2>6. b = << x, y, i + k >> /\ b \in Place /\ b[3] = i + k
    BY <2>5 DEF Place
  <2>7. Waiting(a)' = InTransit(d, i) /\ Waiting(b) = InTransit(c, i + k)
    BY <2>1, <2>6, <1>0, <1>2 DEF Waiting
  <2>8. CASE i \in 1 .. Len(d)
    <3>1. InTransit(d, i) = InTransit(c, i + k)
      BY <2>3, <2>8 DEF InTransit
    <3>2. b \notin Emptied(p)
      <4> SUFFICES ASSUME b \in Emptied(p) PROVE FALSE
        OBVIOUS
      <4>1. i + k = 1 /\ c # << >> /\ d = Tail(c)
        BY <2>1, <2>6, <1>0 DEF Emptied
      <4>2. Len(d) = Len(c) - 1
        BY <4>1, <2>2, HeadTailProperties
      <4> QED BY <4>1, <4>2, <2>3, <2>4, <2>8
    <3> QED BY <3>1, <3>2, <2>6, <2>7
  <2>9. CASE i \notin 1 .. Len(d)
    BY <2>6, <2>7, <2>9 DEF InTransit
  <2> QED BY <2>8, <2>9
<1> QED BY <1>1, <1>2

\* The places of p itself.
LEMMA OwnPlaces ==
  ASSUME TypeOK, NEW p \in Server, NEW out, NEW F, Reaches(p, out), Forwards(p, out, F),
         NEW a \in Place, a[1] = p
  PROVE  /\ a \notin Filled(p) => Waiting(a)' = << >> \/ (a \notin Emptied(p) /\ Waiting(a)' = Waiting(a))
         /\ a \in Filled(p) =>
              \/ Waiting(a)' = << >>
              \/ a = << p, p, 0 >> /\ Waiting(a)' = Buffer(p)'
              \/ a = << p, p, 1 >> /\ Waiting(a)' = Batch(p)'
              \/ /\ a = << p, get_current_leader(p), Len(net[p][get_current_leader(p)]) + 1 >>
                 /\ get_current_leader(p) # p
                 /\ Waiting(a)' = F
<1>1. PICK y \in Server, i \in Nat : a = << p, y, i >>
  BY DEF Place
<1>2. a[1] = p /\ a[2] = y /\ a[3] = i
  BY <1>1
<1>3. CASE y = p
  <2>1. a \in Filled(p)
    BY <1>2, <1>3 DEF Filled
  <2>2. Waiting(a)' = IF i = 0 THEN Buffer(p)' ELSE IF i = 1 THEN Batch(p)' ELSE << >>
    BY <1>2, <1>3 DEF Waiting
  <2> QED BY <2>1, <2>2, <1>1, <1>3
<1>4. CASE y # p
  <2>1. Waiting(a) = InTransit(net[p][y], i) /\ Waiting(a)' = InTransit(net'[p][y], i)
    BY <1>2, <1>4 DEF Waiting
  <2>2. a \in Filled(p) <=> y = get_current_leader(p) /\ i = Len(net[p][y]) + 1
    BY <1>2, <1>4 DEF Filled
  <2>3. a \notin Emptied(p)
    BY <1>2, <1>4 DEF Emptied
  <2>4. y \in Peers(p)
    BY <1>4 DEF Peers
  <2>5. PICK u, w : u = InTransit(net[p][y], i) /\ w = InTransit(net'[p][y], i)
    OBVIOUS
  <2>6. IF i = Len(net[p][y]) + 1 THEN w = << >> \/ (y = get_current_leader(p) /\ w = F) ELSE w = << >> \/ w = u
    BY <2>4, <2>5, OwnChannels
  <2>7. CASE a \in Filled(p)
    BY <2>7, <2>1, <2>2, <2>5, <2>6, <1>1, <1>4
  <2>8. CASE a \notin Filled(p)
    BY <2>8, <2>1, <2>2, <2>3, <2>5, <2>6
  <2> QED BY <2>7, <2>8
<1> QED BY <1>3, <1>4

\* What arrives at p is new, or waited on its way to p; it is not at p already.
LEMMA ArrivesApart ==
  ASSUME TypeOK, OneProposer, NEW h, Unique(h), NEW p \in Server, NEW A \in Entries, Arrives(p, A),
         proposed \subseteq proposed'
  PROVE  /\ NoRepeat(A) /\ Apart(Buffer(p), A) /\ Apart(Batch(p), A)
         /\ \A x \in Values(A) : /\ x \in Made'
                                 /\ x \notin Made \/ \E b \in Emptied(p) : x \in Values(Waiting(b))
<1>1. PICK b0, b1 : b0 = << p, p, 0 >> /\ b1 = << p, p, 1 >>
  OBVIOUS
<1>2. /\ b0 \in Place /\ b1 \in Place
      /\ b0[1] = p /\ b0[2] = p /\ b0[3] = 0 /\ b1[1] = p /\ b1[2] = p /\ b1[3] = 1
  BY <1>1 DEF Place
<1>3. Waiting(b0) = Buffer(p) /\ Waiting(b1) = Batch(p)
  BY <1>2 DEF Waiting
<1>4. /\ \A a \in Place : NoRepeat(Waiting(a)) /\ Among(Waiting(a), Made)
      /\ \A a, b \in Place : a # b => Apart(Waiting(a), Waiting(b))
  BY DEF Unique, Tidy
<1>5. CASE A = << >>
  <2>1. Len(A) = 0
    BY <1>5
  <2> QED BY <2>1 DEF NoRepeat, Apart, Values
<1>6. ASSUME NEW q \in Peers(p), net[q][p] # << >>, net'[q][p] = Tail(net[q][p]), A = InTransit(net[q][p], 1)
      PROVE  /\ NoRepeat(A) /\ Apart(Buffer(p), A) /\ Apart(Batch(p), A)
             /\ \A x \in Values(A) : x \in Made' /\ \E b \in Emptied(p) : x \in Values(Waiting(b))
  <2>0. PICK b : b = << q, p, 1 >>
    OBVIOUS
  <2>1. b[1] = q /\ b[2] = p /\ b[3] = 1 /\ b \in Place /\ q # p
    BY <2>0 DEF Place, Peers
  <2>2. b \in Emptied(p)
    BY <2>1, <1>6 DEF Emptied
  <2>3. Waiting(b) = A
    BY <2>1, <1>6 DEF Waiting
  <2>4. b # b0 /\ b # b1
    BY <2>1, <1>2
  <2>5. NoRepeat(A) /\ Among(A, Made) /\ Apart(Buffer(p), A) /\ Apart(Batch(p), A)
    BY <2>1, <2>3, <2>4, <1>2, <1>3, <1>4
  <2>6. Made \subseteq Made'
    BY DEF Made
  <2> QED BY <2>2, <2>3, <2>5, <2>6 DEF Among, Values
<1>7. ASSUME NEW v \in Value, A = << v >>, << p, v >> \in Proposals \ proposed, << p, v >> \in proposed'
      PROVE  /\ NoRepeat(A) /\ Apart(Buffer(p), A) /\ Apart(Batch(p), A)
             /\ \A x \in Values(A) : x \in Made' /\ x \notin Made
  <2>1. Len(A) = 1 /\ A[1] = v
    BY <1>7
  <2>2. v \in Made'
    <3>1. << p, v >>[2] = v
      OBVIOUS
    <3> QED BY <3>1, <1>7 DEF Made
  <2>3. v \notin Made
    <3> SUFFICES ASSUME NEW x \in proposed, x[2] = v PROVE FALSE
      BY DEF Made
    <3>1. x \in Proposals /\ << p, v >>[2] = x[2]
      BY DEF TypeOK
    <3> QED BY <3>1, <1>7 DEF OneProposer
  <2>4. NoRepeat(A) /\ \A x \in Values(A) : x = v
    BY <2>1 DEF NoRepeat, Values
  <2>5. \A c : Among(c, Made) => Apart(c, A)
    BY <2>1, <2>3 DEF Among, Apart
  <2> QED BY <2>2, <2>3, <2>4, <2>5, <1>2, <1>3, <1>4
<1> QED BY <1>5, <1>6, <1>7 DEF Arrives

\* Every step of p that only carries entries on leaves them unique.
LEMMA UniqueKept ==
  ASSUME OneProposer, NEW h, From(h), NEW g, Succeeds(h, g), Unique(h), NEW p \in Server,
         NEW out, NEW F, NEW A, NEW N, Carries(p, out, F, A, N)
  PROVE  Unique(g)'
<1>1. /\ TypeOK /\ TypeOK' /\ h \in History /\ g \in History
  BY DEF From, Inv, Succeeds, Explains
<1>2. /\ \A q \in Peers(p) : Rests(q)
      /\ Reaches(p, out) /\ Forwards(p, out, F)
      /\ proposed \subseteq proposed' /\ Arrives(p, A)
      /\ Writes(p, N) /\ A \in Entries /\ N \in Entries
      /\ Hands(Buffer(p), Batch(p), A, Buffer(p)', Batch(p)', F, N)
  BY DEF Carries
<1>3. PICK W, U : W = [a \in Place |-> Waiting(a)] /\ U = [a \in Place |-> Waiting(a)']
  OBVIOUS
<1>4. PICK S, Q : S = Emptied(p) /\ Q = Filled(p)
  OBVIOUS
<1>5. PICK src : src = [a \in Place |-> << a[1], a[2], a[3] + MovesUp(p, a[1], a[2]) >>]
  OBVIOUS
<1>6. Tidy(Place, W, Ballot, h.rlog, Made)
  BY <1>3 DEF Unique
<1>7. \A x, y \in Server : MovesUp(p, x, y) \in Int
  <2>1. \A x, y \in Server : Len(net[x][y]) \in Nat /\ Len(net'[x][y]) \in Nat
    BY <1>1, LenProperties DEF TypeOK
  <2> QED BY <2>1 DEF MovesUp
<1>8. ASSUME NEW a \in Place
      PROVE  /\ src[a] \in Place
             /\ a \notin Q => U[a] = << >> \/ (src[a] \notin S /\ U[a] = W[src[a]])
             /\ a \in Q => a[1] = p
  <2>1. PICK x \in Server, y \in Server, i \in Nat : a = << x, y, i >>
    BY DEF Place
  <2>2. a[1] = x /\ a[2] = y /\ a[3] = i /\ src[a] = << x, y, i + MovesUp(p, x, y) >>
    BY <2>1, <1>5
  <2>3. CASE x = p
    <3>1. src[a] = a
      BY <2>1, <2>2, <2>3 DEF MovesUp
    <3> QED BY <3>1, <2>2, <2>3, <1>1, <1>2, <1>3, <1>4, OwnPlaces
  <2>4. CASE x # p
    <3>1. src[a] \in Place /\ (Waiting(a)' = << >> \/ (src[a] \notin S /\ Waiting(a)' = Waiting(src[a])))
      BY <2>1, <2>2, <2>4, <1>1, <1>2, <1>4, OtherPlaces
    <3>2. a \notin Q
      BY <2>2, <2>4, <1>4 DEF Filled
    <3> QED BY <3>1, <3>2, <1>3
  <2> QED BY <2>3, <2>4
<1>9. ASSUME NEW a \in Place, NEW b \in Place, a # b
      PROVE  src[a] # src[b]
  <2> SUFFICES ASSUME src[a] = src[b] PROVE FALSE
    OBVIOUS
  <2>1. PICK x \in Server, y \in Server, i \in Nat : a = << x, y, i >>
    BY DEF Place
  <2>2. PICK z \in Server, w \in Server, j \in Nat : b = << z, w, j >>
    BY DEF Place
  <2>3. /\ src[a] = << x, y, i + MovesUp(p, x, y) >>
        /\ src[b] = << z, w, j + MovesUp(p, z, w) >>
    BY <2>1, <2>2, <1>5
  <2>4. x = z /\ y = w /\ i + MovesUp(p, x, y) = j + MovesUp(p, z, w)
    <3>1. PICK k, m : k = i + MovesUp(p, x, y) /\ m = j + MovesUp(p, z, w)
      OBVIOUS
    <3>2. << x, y, k >> = << z, w, m >>
      BY <2>3, <3>1
    <3>3. x = z /\ y = w /\ k = m
      BY <3>2
    <3> QED BY <3>1, <3>3
  <2>5. i = j
    BY <2>4, <1>7
  <2> QED BY <2>1, <2>2, <2>4, <2>5, <1>9
<1>10. PICK b0, b1 : b0 = << p, p, 0 >> /\ b1 = << p, p, 1 >>
  OBVIOUS
<1>11. /\ b0 \in Place \cap S /\ b1 \in Place \cap S /\ b0 # b1
       /\ W[b0] = Buffer(p) /\ W[b1] = Batch(p)
  <2>1. b0 \in Place /\ b1 \in Place /\ b0[1] = p /\ b0[2] = p /\ b0[3] = 0 /\ b1[1] = p /\ b1[2] = p /\ b1[3] = 1
    BY <1>10 DEF Place
  <2> QED BY <2>1, <1>3, <1>4 DEF Waiting, Emptied
<1>12. PICK X : X = Values(Buffer(p)) \cup Values(Batch(p)) \cup Values(A)
  OBVIOUS
<1>13. Buffer(p) \in Entries /\ Batch(p) \in Entries
  <2>1. buffered_proposals[p] \in Entries /\ storage[p].batched_entries \in Entries /\ << >> \in Entries
    BY <1>1, StorageFields DEF TypeOK, Entries
  <2> QED BY <2>1 DEF Buffer, Batch
<1>14. /\ NoRepeat(A) /\ Apart(Buffer(p), A) /\ Apart(Batch(p), A)
       /\ \A x \in Values(A) : /\ x \in Made'
                               /\ x \notin Made \/ \E b \in S : x \in Values(Waiting(b))
  BY <1>1, <1>2, <1>4, ArrivesApart
<1>15. NoRepeat(Buffer(p)) /\ NoRepeat(Batch(p)) /\ Apart(Buffer(p), Batch(p))
       /\ Among(Buffer(p), Made) /\ Among(Batch(p), Made)
  BY <1>6, <1>11 DEF Tidy
<1>16. Parts(X, Buffer(p)', Batch(p)', F, N)
  BY <1>2, <1>12, <1>13, <1>14, <1>15, HandsParts
<1>17. X \subseteq Made' /\ Made \subseteq Made'
  <2>1. Made \subseteq Made'
    BY <1>2 DEF Made
  <2> QED BY <2>1, <1>12, <1>14, <1>15 DEF Among, Values
<1>18. \A x \in X : x \notin Made \/ \E b \in S \cap Place : x \in Values(W[b])
  <2>1. S \subseteq Place /\ \A b \in S : W[b] = Waiting(b)
    BY <1>3, <1>4 DEF Emptied
  <2> QED BY <2>1, <1>11, <1>12, <1>14
<1>19. PICK e : e = << >> /\ Len(e) = 0
  OBVIOUS
<1>20. NoRepeat(e) /\ \A x : Among(e, x) /\ Apart(e, x) /\ Apart(x, e)
  BY <1>19 DEF NoRepeat, Among, Apart
<1>21. PICK y, i : y = get_current_leader(p) /\ i = Len(net[p][y]) + 1
  OBVIOUS
<1>22. ASSUME NEW a \in Place \cap Q
       PROVE  \/ U[a] = e
              \/ a = << p, p, 0 >> /\ U[a] = Buffer(p)'
              \/ a = << p, p, 1 >> /\ U[a] = Batch(p)'
              \/ a = << p, y, i >> /\ y # p /\ U[a] = F
  <2>1. a[1] = p
    BY <1>8, <1>22
  <2> QED BY <2>1, <1>1, <1>2, <1>3, <1>4, <1>19, <1>21, <1>22, OwnPlaces
<1>23. ASSUME NEW a \in Place \cap Q
       PROVE  NoRepeat(U[a]) /\ Among(U[a], X) /\ Apart(U[a], N)
  BY <1>16, <1>20, <1>22 DEF Parts
<1>24. \A c, d : Apart(c, d) => Apart(d, c)
  BY DEF Apart
<1>25. ASSUME NEW a \in Place \cap Q, NEW b \in Place \cap Q, a # b
       PROVE  Apart(U[a], U[b])
  BY <1>16, <1>20, <1>22, <1>24, <1>25 DEF Parts
<1>26. \A r \in Ballot : h.rlog[r] \in Entries /\ g.rlog[r] \in Entries
  BY <1>1, HistoryFields
<1>27. \A r \in Ballot : \/ g.rlog[r] = h.rlog[r]
                         \/ \E m \in Ballot, k \in Nat : Prolongs(h.rlog[m], g.rlog[r], k, N)
  BY <1>2, LogsGrow DEF Rests
<1>28. PICK R, T, made, made2 : R = h.rlog /\ T = g.rlog /\ made = Made /\ made2 = Made'
  OBVIOUS
<1>29. NoRepeat(N) /\ Among(N, X)
  BY <1>16 DEF Parts
<1>30. Tidy(Place, U, Ballot, T, made2)
  <2>2. \A a, b \in Place \ Q : a # b => src[a] # src[b]
    BY <1>9
  <2>3. \A a \in Place \ Q : src[a] \in Place /\ (U[a] = << >> \/ (src[a] \notin S /\ U[a] = W[src[a]]))
    BY <1>8
  <2>4. Tidy(Place, W, Ballot, R, made)
    BY <1>6, <1>28
  <2>6. \A r \in Ballot : /\ R[r] \in Entries /\ T[r] \in Entries
                          /\ T[r] = R[r] \/ \E m \in Ballot, k \in Nat : Prolongs(R[m], T[r], k, N)
    BY <1>26, <1>27, <1>28
  <2>7. made \subseteq made2 /\ X \subseteq made2
    BY <1>17, <1>28
  <2>8. \A x \in X : x \notin made \/ \E b \in S \cap Place : x \in Values(W[b])
    BY <1>18, <1>28
  <2>9. N \in Entries
    BY <1>2
  <2>10. \A a \in Place \cap Q : NoRepeat(U[a]) /\ Among(U[a], X) /\ Apart(U[a], N)
    BY <1>23
  <2>11. \A a, b \in Place \cap Q : a # b => Apart(U[a], U[b])
    BY <1>25
  <2>12. HandsOn(Place, Ballot, W, U, R, T, made, made2, S, Q, src, X, N)
    BY <2>2, <2>3, <2>6, <2>7, <2>8, <2>9, <2>10, <2>11, <1>29 DEF HandsOn
  <2> QED BY <2>4, <2>12, TidyStep
<1> QED BY <1>3, <1>28, <1>30 DEF Unique

------------------------------------------------------------------------------
(* Every step carries the entries on so *)

\* p carries on some entries so.
Carried(p) == \E out, F, A, N : Carries(p, out, F, A, N)

\* The call leaves p with the storage s and b as its buffered proposals.
Stores(p, s, b) ==
  /\ storage' = [storage EXCEPT ![p] = s]
  /\ buffered_proposals' = [buffered_proposals EXCEPT ![p] = b]
  /\ panicked' \ {p} = panicked \ {p}

\* A call ends, or it ends with a panic, or its message is lost or ignored.
Done(p, out) ==
  \/ Ended(p, out)
  \/ \E q \in Peers(p) : net[q][p] # << >> /\ net' = Consume(p, q) /\ out = NoMessages

\* What stays at p does so in the variables, too.
LEMMA StoresSame ==
  ASSUME TypeOK, NEW p \in Server
  PROVE  /\ storage = [storage EXCEPT ![p] = storage[p]]
         /\ buffered_proposals = [buffered_proposals EXCEPT ![p] = buffered_proposals[p]]
BY DEF TypeOK

\* The others have no part in the call, and its messages reach the network.
LEMMA CarryOn ==
  ASSUME NEW h, From(h), NEW p \in Server, NEW s, NEW b, Stores(p, s, b),
         NEW out, Done(p, out), NEW F, Forwards(p, out, F), proposed \subseteq proposed',
         NEW A \in Entries, Arrives(p, A), NEW N \in Entries, Writes(p, N),
         Hands(Buffer(p), Batch(p), A, Buffer(p)', Batch(p)', F, N)
  PROVE  Carried(p)
<1>1. TypeOK /\ Explains(h)
  BY FromFacts
<1>2. \A q \in Peers(p) : Rests(q)
  BY <1>1 DEF Stores, Rests, Peers, TypeOK
<1>3. Reaches(p, out)
  <2>1. CASE Ended(p, out)
    BY <2>1, <1>1, CallReaches DEF Ended
  <2>2. ASSUME NEW q \in Peers(p), net[q][p] # << >>, net' = Consume(p, q), out = NoMessages
        PROVE  Reaches(p, out)
    <3>1. \A y \in Peers(p) : NoMessages[y] \in Seq(Message)
      BY EmptySeq DEF NoMessages, Peers
    <3>2. Delivers(p, NoMessages)
      BY <1>1, <2>2, <3>1, ConsumeDelivers
    <3> QED BY <2>2, <3>2 DEF Delivers, Reaches
  <2> QED BY <2>1, <2>2 DEF Done
<1>4. Carries(p, out, F, A, N)
  BY <1>2, <1>3 DEF Carries
<1> QED BY <1>4 DEF Carried

\* In a round of its own p stores nothing new, and batches nothing.
Rested(p, s, t) ==
  t.accepted_round.pid = p =>
    /\ t.accepted_round = s.accepted_round /\ t.accepted_idx = s.accepted_idx
    /\ t.batched_entries = s.batched_entries \/ t.batched_entries = << >>

\* A call that brings no entries, and takes none on.
LEMMA CarryQuiet ==
  ASSUME NEW h, From(h), NEW p \in Server, NEW s, Rested(p, storage[p], s),
         NEW b, b = buffered_proposals[p] \/ b = << >>, Stores(p, s, b),
         p \in panicked => p \in panicked' \/ b = << >>,
         NEW out, Done(p, out), Forwards(p, out, << >>), proposed' = proposed
  PROVE  Carried(p)
<1>1. TypeOK
  BY FromFacts
<1>2. storage'[p] = s /\ buffered_proposals'[p] = b
  BY <1>1 DEF Stores, TypeOK
<1>3. PICK e \in Entries : e = << >>
  BY EmptySeq DEF Entries
<1>4. Buffer(p)' = Buffer(p) \/ Buffer(p)' = e
  BY <1>2, <1>3 DEF Buffer
<1>5. Batch(p)' = Batch(p) \/ Batch(p)' = e
  BY <1>2, <1>3 DEF Batch, Rested
<1>6. Hands(Buffer(p), Batch(p), e, Buffer(p)', Batch(p)', e, e)
  BY <1>3, <1>4, <1>5 DEF Hands
<1>7. Arrives(p, e) /\ Writes(p, e)
  BY <1>2, <1>3 DEF Arrives, Writes, Rested
<1>8. Forwards(p, out, e)
  BY <1>3
<1>9. proposed \subseteq proposed'
  OBVIOUS
<1> QED BY <1>3, <1>6, <1>7, <1>8, <1>9, CarryOn

\* So does one that stores nothing at all.
LEMMA CarryNothing ==
  ASSUME NEW h, From(h), NEW p \in Server, UNCHANGED << storage, buffered_proposals, proposed >>,
         panicked' = panicked \/ panicked' = panicked \cup {p},
         NEW out, Done(p, out), Forwards(p, out, << >>)
  PROVE  Carried(p)
<1>1. TypeOK
  BY FromFacts
<1>2. PICK s, b : s = storage[p] /\ b = buffered_proposals[p]
  OBVIOUS
<1>3. Stores(p, s, b)
  BY <1>1, <1>2, StoresSame DEF Stores
<1>4. Rested(p, storage[p], s)
  BY <1>2 DEF Rested
<1>5. p \in panicked => p \in panicked' \/ b = << >>
  OBVIOUS
<1> QED BY <1>2, <1>3, <1>4, <1>5, CarryQuiet

\* What a call without entries to forward sends.
LEMMA ForwardsNone ==
  ASSUME NEW p, NEW out,
         \A y \in Peers(p) : out[y] = << >> \/ \E m : out[y] = << m >> /\ m.type # "ProposalForward"
  PROVE  Forwards(p, out, << >>)
BY DEF Forwards

\* In particular a single message.
LEMMA ForwardsOne ==
  ASSUME NEW h, From(h), NEW p \in Server, NEW q, NEW m, m.type # "ProposalForward",
         NEW out, out = outgoing[p] \/ out = send(outgoing[p], q, m)
  PROVE  Forwards(p, out, << >>)
<1>1. Explains(h)
  BY FromFacts
<1>2. \A y \in Server : out[y] = << >> \/ out[y] = << m >>
  <2>1. CASE out = outgoing[p]
    BY <2>1, <1>1, NothingWaits
  <2>2. CASE out = send(outgoing[p], q, m)
    <3>1. out = send(NoMessages, q, m)
      BY <1>1, <2>2, NothingWaits
    <3>2. \A y \in Server : send(NoMessages, q, m)[y] = IF y = q THEN << m >> ELSE << >>
      BY <1>1, NothingWaits
    <3> QED BY <3>1, <3>2
  <2> QED BY <2>1, <2>2
<1> QED BY <1>2, ForwardsNone DEF Peers

\* Or the same kind of message to several servers.
LEMMA ForwardsSome ==
  ASSUME NEW h, From(h), NEW p \in Server, NEW msgs, \A y \in DOMAIN msgs : msgs[y].type # "ProposalForward",
         NEW out, out = push(outgoing[p], msgs)
  PROVE  Forwards(p, out, << >>)
<1>1. Explains(h)
  BY FromFacts
<1>2. out = push(NoMessages, msgs)
  BY <1>1, NothingWaits
<1>3. \A y \in Server : push(NoMessages, msgs)[y] = IF y \in DOMAIN msgs THEN << msgs[y] >> ELSE << >>
  BY <1>1, NothingWaits
<1>4. ASSUME NEW y \in Peers(p)
      PROVE  out[y] = << >> \/ \E m : out[y] = << m >> /\ m.type # "ProposalForward"
  <2>1. out[y] = IF y \in DOMAIN msgs THEN << msgs[y] >> ELSE << >>
    BY <1>2, <1>3 DEF Peers
  <2> QED BY <2>1
<1> QED BY <1>4, ForwardsNone

\* Only a ProposalForward forwards entries.
LEMMA ForwardsNothing ==
  /\ \A n : PrepareReq(n).type # "ProposalForward" /\ NotAccepted(n).type # "ProposalForward"
  /\ \A n, s : Prepare(n, s).type # "ProposalForward"
  /\ \A n, s, sync : Promise(n, s, sync).type # "ProposalForward"
  /\ \A n, idx : Accepted(n, idx).type # "ProposalForward"
  /\ \A n, sn, d, x : /\ AcceptSync(n, sn, d, x).type # "ProposalForward"
                      /\ AcceptDecide(n, sn, d, x).type # "ProposalForward"
  /\ \A n, sn, d : Decide(n, sn, d).type # "ProposalForward"
  /\ \A kind, idx : Compaction(kind, idx).type # "ProposalForward"
BY DEF PrepareReq, NotAccepted, Prepare, Promise, Accepted, AcceptSync, AcceptDecide, Decide, Compaction

\* A call that begins to recover or refuses a message.
LEMMA RefusalsCarried ==
  ASSUME NEW p \in Server, NEW q \in Peers(p), NEW h, From(h), proposed' = proposed,
         reject_ballot(p, q) \/ dropped_preceding(p, q) \/ user_reconnected(p, q)
  PROVE  Carried(p)
<1>1. ASSUME NEW r, NEW m, m.type # "ProposalForward", Ended(p, send(outgoing[p], r, m)),
             UNCHANGED << storage, buffered_proposals, panicked >>
      PROVE  Carried(p)
  <2>1. PICK out : out = send(outgoing[p], r, m)
    OBVIOUS
  <2>2. Forwards(p, out, << >>) /\ Done(p, out)
    BY <1>1, <2>1, ForwardsOne DEF Done
  <2> QED BY <1>1, <2>2, CarryNothing
<1>2. ASSUME NEW r, UNCHANGED << storage, buffered_proposals, panicked >>,
             \/ reconnected(p, r, outgoing[p], net)
             \/ \E x \in Peers(p) : net[x][p] # << >> /\ reconnected(p, r, outgoing[p], Consume(p, x))
      PROVE  Carried(p)
  <2>1. PICK m : m = PrepareReq(storage[p].promise) /\ m.type # "ProposalForward"
    BY ForwardsNothing
  <2>2. Ended(p, send(outgoing[p], r, m))
    BY <1>2, <2>1 DEF reconnected, Ended
  <2> QED BY <1>1, <1>2, <2>1, <2>2
<1>3. CASE user_reconnected(p, q)
  BY <1>2, <1>3 DEF user_reconnected
<1>4. CASE dropped_preceding(p, q)
  BY <1>2, <1>4 DEF dropped_preceding, Incoming
<1>5. CASE reject_ballot(p, q)
  <2>1. PICK r, m : r = Head(net[q][p]) /\ m = NotAccepted(storage[p].promise) /\ m.type # "ProposalForward"
    BY ForwardsNothing
  <2>2. CASE ~ (r.n \prec storage[p].promise)
    BY <1>2, <1>5, <2>1, <2>2 DEF reject_ballot, Incoming
  <2>3. CASE r.n \prec storage[p].promise
    <3>1. Ended(p, send(outgoing[p], r.n.pid, m)) /\ UNCHANGED << storage, buffered_proposals, panicked >>
      BY <1>5, <2>1, <2>3 DEF reject_ballot, Incoming, Handled, Ended
    <3> QED BY <1>1, <2>1, <3>1
  <2> QED BY <2>2, <2>3
<1> QED BY <1>3, <1>4, <1>5

\* A message is lost or ignored, or its handler panics before it stores anything.
LEMMA ConsumeCarried ==
  ASSUME NEW p \in Server, NEW q \in Peers(p), NEW h, From(h), net[q][p] # << >>, net' = Consume(p, q),
         UNCHANGED << storage, buffered_proposals, proposed >>,
         panicked' = panicked \/ panicked' = panicked \cup {p}
  PROVE  Carried(p)
<1>1. Explains(h)
  BY FromFacts
<1>2. PICK out : out = NoMessages /\ \A y \in Server : out[y] = << >>
  BY <1>1, NothingWaits
<1>3. Forwards(p, out, << >>) /\ Done(p, out)
  BY <1>2, ForwardsNone DEF Done, Peers
<1> QED BY <1>3, CarryNothing

\* The leader prepares again.
LEMMA ResendLeaderCarried ==
  ASSUME NEW p \in Server, NEW h, From(h), resend_messages_leader(p),
         UNCHANGED << storage, buffered_proposals, proposed, panicked >>
  PROVE  Carried(p)
<1> DEFINE s == storage[p]
           l == leader_state[p]
           m == Prepare(l.n_leader, s)
           resent(q) ==
             IF q \in get_preparable_peers(l, p)
               THEN << m >>
               ELSE IF /\ state[p][2] = "Accept"
                       /\ accepted_reconfiguration(s)
                       /\ q \in get_promised_followers(l)
                      THEN IF stopsign_is_decided(s)
                             THEN << Decide(l.n_leader, l.follower_seq_nums[q], s.decided_idx) >>
                             ELSE IF l.accepted_indexes[q] # s.accepted_idx
                                    THEN << AcceptStopSign(l.n_leader, l.follower_seq_nums[q], s.stopsign) >>
                                    ELSE << >>
                      ELSE << >>
           sent == [q \in Server |-> outgoing[p][q] \o resent(q)]
<1>1. Explains(h) /\ s.stopsign = None
  BY FromFacts DEF LogOK
<1>2. PICK out : /\ EndCall(p, out, net)
                 /\ \A y \in Server : out[y] = outgoing[p][y] \o << m >> \/ out[y] = outgoing[p][y] \o << >>
  <2>1. EndCall(p, sent, net)
    BY DEF resend_messages_leader, Called
  <2>2. \A y \in Server : resent(y) = << m >> \/ resent(y) = << >>
    BY <1>1 DEF accepted_reconfiguration
  <2> HIDE DEF m, resent
  <2>3. \A y \in Server : sent[y] = outgoing[p][y] \o resent(y)
    OBVIOUS
  <2>4. \A y \in Server : sent[y] = outgoing[p][y] \o << m >> \/ sent[y] = outgoing[p][y] \o << >>
    BY <2>2, <2>3
  <2> HIDE DEF sent
  <2> QED BY <2>1, <2>4
<1>3. m.type # "ProposalForward"
  BY DEF Prepare
<1> HIDE DEF m
<1>4. \A y \in Server : outgoing[p][y] = << >>
  BY <1>1, NothingWaits
<1>5. << >> \o << m >> = << m >> /\ << >> \o << >> = << >>
  OBVIOUS
<1>6. \A y \in Peers(p) : out[y] = << >> \/ out[y] = << m >>
  BY <1>2, <1>4, <1>5 DEF Peers
<1>7. Forwards(p, out, << >>) /\ Done(p, out)
  BY <1>2, <1>3, <1>6, ForwardsNone DEF Done, Ended
<1> QED BY <1>7, CarryNothing

\* The follower promises again, or asks to be prepared.
LEMMA ResendFollowerCarried ==
  ASSUME NEW p \in Server, NEW h, From(h), resend_messages_follower(p),
         UNCHANGED << storage, buffered_proposals, proposed, panicked >>
  PROVE  Carried(p)
<1>1. PICK c, m : /\ c = follower_state[p].cached_promise_message
                  /\ m = PrepareReq(storage[p].promise) /\ m.type # "ProposalForward"
  BY ForwardsNothing
<1>2. follower_state[p] \in FollowerState
  BY FromFacts
<1>3. CASE c # None /\ Called(p, send(outgoing[p], c.n.pid, c))
  <2>1. c.type # "ProposalForward"
    BY <1>1, <1>2, <1>3 DEF FollowerState, PromiseMessage
  <2>2. PICK out : out = send(outgoing[p], c.n.pid, c)
    OBVIOUS
  <2>3. Forwards(p, out, << >>)
    BY <2>1, <2>2, ForwardsOne
  <2>4. Done(p, out)
    BY <1>3, <2>2 DEF Called, Done, Ended
  <2> QED BY <2>3, <2>4, CarryNothing
<1>4. CASE Called(p, push(outgoing[p], [q \in Peers(p) |-> m]))
  <2>1. PICK msgs, out : msgs = [q \in Peers(p) |-> m] /\ out = push(outgoing[p], msgs)
    OBVIOUS
  <2>2. \A y \in DOMAIN msgs : msgs[y].type # "ProposalForward"
    BY <1>1, <2>1
  <2>3. Forwards(p, out, << >>)
    BY <2>1, <2>2, ForwardsSome
  <2>4. Done(p, out)
    BY <1>4, <2>1 DEF Called, Done, Ended
  <2> QED BY <2>3, <2>4, CarryNothing
<1> QED BY <1>1, <1>3, <1>4 DEF resend_messages_follower

\* A peer asks to be prepared again, or refuses.
LEMMA ForgettingCarried ==
  ASSUME NEW p \in Server, NEW q \in Peers(p), NEW h, From(h), proposed' = proposed,
         handle_preparereq(p, q) \/ handle_notaccepted(p, q)
  PROVE  Carried(p)
<1>1. CASE handle_preparereq(p, q)
  <2>1. PICK n, m : /\ n = reset_promise(leader_state[p], q).n_leader
                    /\ m = Prepare(n, storage[p]) /\ m.type # "ProposalForward"
    BY ForwardsNothing
  <2>2. PICK out : out = send(outgoing[p], q, m)
    OBVIOUS
  <2>3. net[q][p] # << >> /\ Handled(p, q, out) /\ UNCHANGED << storage, buffered_proposals, panicked >>
    BY <1>1, <2>1, <2>2 DEF handle_preparereq, Incoming
  <2>4. Forwards(p, out, << >>) /\ Done(p, out)
    BY <2>1, <2>2, <2>3, ForwardsOne DEF Handled, Done, Ended
  <2> QED BY <2>3, <2>4, CarryNothing
<1>2. CASE handle_notaccepted(p, q)
  <2>1. PICK out, m : out = outgoing[p] /\ m.type # "ProposalForward"
    <3>1. NotAccepted(0).type # "ProposalForward"
      BY DEF NotAccepted
    <3> QED BY <3>1
  <2>2. net[q][p] # << >> /\ Handled(p, q, out) /\ UNCHANGED << storage, buffered_proposals, panicked >>
    BY <1>2, <2>1 DEF handle_notaccepted, Incoming
  <2>3. Forwards(p, out, << >>) /\ Done(p, out)
    BY <2>1, <2>2, ForwardsOne DEF Handled, Done, Ended
  <2> QED BY <2>2, <2>3, CarryNothing
<1> QED BY <1>1, <1>2

\* A call that stores nothing and sends one message at most.
LEMMA SendCarried ==
  ASSUME NEW h, From(h), NEW p \in Server, UNCHANGED << storage, buffered_proposals, panicked, proposed >>,
         NEW r, NEW m, m.type # "ProposalForward",
         NEW out, out = outgoing[p] \/ out = send(outgoing[p], r, m), Ended(p, out)
  PROVE  Carried(p)
<1>1. Forwards(p, out, << >>) /\ Done(p, out)
  BY ForwardsOne DEF Done
<1> QED BY <1>1, CarryNothing

\* A promise comes when the leader accepts already.
LEMMA PromiseAcceptCarried ==
  ASSUME NEW p \in Server, NEW q \in Peers(p), NEW h, From(h), proposed' = proposed,
         handle_promise_accept(p, q)
  PROVE  Carried(p)
<1> DEFINE a == Head(net[q][p])
           l1 == set_promise(leader_state[p], q, PromiseMeta(a), a.log_sync, FALSE)
           l == accsync_leader_state(l1, {q})
           m == accsync_message(storage[p], l, q)
<1>1. /\ Incoming(p, q, "Promise") /\ UNCHANGED storage
      /\ IF send_accsync_panics(storage[p], l, q)
           THEN Panic(p, q)
           ELSE /\ leader_state' = [leader_state EXCEPT ![p] = l]
                /\ Handled(p, q, send(outgoing[p], q, m))
                /\ UNCHANGED << state, follower_state, buffered_proposals, buffered_stopsign, panicked >>
  BY Zenon DEF handle_promise_accept
<1>2. net[q][p] # << >>
  BY <1>1 DEF Incoming
<1>3. m.type # "ProposalForward"
  BY ForwardsNothing DEF accsync_message
<1> HIDE DEF l, m
<1>4. CASE send_accsync_panics(storage[p], l, q)
  BY <1>1, <1>2, <1>4, ConsumeCarried DEF Panic
<1>5. CASE ~ send_accsync_panics(storage[p], l, q)
  <2>1. PICK out : out = send(outgoing[p], q, m)
    OBVIOUS
  <2>2. Ended(p, out) /\ UNCHANGED << storage, buffered_proposals, panicked >>
    BY <1>1, <1>2, <1>5, <2>1 DEF Handled, Ended
  <2> QED BY <1>3, <2>1, <2>2, SendCarried
<1> QED BY <1>4, <1>5

\* A majority promised: the round begins with what the leader buffered.
LEMMA MajorityCarried ==
  ASSUME NEW h, From(h), NEW p \in Server, NEW q \in Peers(p), net[q][p] # << >>, NEW n, NEW l, Elected(h, p, n, l),
         proposed' = proposed, handle_majority_promises(p, q, l)
  PROVE  Carried(p)
<1> DEFINE bp == buffered_proposals[p]
           d == get_max_decided_idx(l)
           sync == l.max_promise_sync
           s1 == sync_log(storage[p], l.n_leader, d, sync)
           stopped == accepted_reconfiguration(s1)
           s2 == IF stopped THEN s1 ELSE append_entries_without_batching(s1, bp)
           s3 == IF stopped \/ buffered_stopsign[p] = None
                   THEN s2 ELSE append_stopsign(s2, buffered_stopsign[p])
           Q == get_promised_followers(l) \cap Server
           l1 == set_accepted_idx(l, p, s3.accepted_idx)
           l2 == [l1 EXCEPT !.max_promise_sync = None]
           l3 == accsync_leader_state(l2, Q)
           msgs == [r \in Q |-> accsync_message(s3, l3, r)]
           sync_panics == sync_log_panics(storage[p], d, sync)
<1>1. /\ storage' = IF sync_panics THEN storage ELSE [storage EXCEPT ![p] = s3]
      /\ IF sync_panics \/ \E r \in Q : send_accsync_panics(s3, l3, r)
           THEN Panic(p, q)
           ELSE /\ state' = [state EXCEPT ![p] = << "Leader", "Accept" >>]
                /\ leader_state' = [leader_state EXCEPT ![p] = l3]
                /\ buffered_proposals' =
                     IF stopped THEN buffered_proposals ELSE [buffered_proposals EXCEPT ![p] = << >>]
                /\ buffered_stopsign' =
                     IF stopped THEN buffered_stopsign ELSE [buffered_stopsign EXCEPT ![p] = None]
                /\ Handled(p, q, push(outgoing[p], msgs))
                /\ UNCHANGED << follower_state, panicked >>
  BY Zenon DEF handle_majority_promises
<1>2. CASE sync_panics
  BY <1>1, <1>2, ConsumeCarried DEF Panic
<1>3. CASE ~ sync_panics
  <2>1. /\ TypeOK /\ Plain /\ h \in History /\ storage[p] \in Storage /\ LogOK(h, p, storage[p]) /\ Explains(h)
        /\ l \in LeaderStates /\ MaxOK(h, storage[p], l) /\ PrepareOK(h, p, storage[p], l)
        /\ storage[p].batched_entries = << >> /\ l.n_leader \in Ballot
    BY FromFacts, ElectedFacts DEF Elected, PrepareOK
  <2>2. d \in Nat
    BY <2>1, MaxDecidedIdxType
  <2>3. PICK max : max = l.max_promise_meta
    OBVIOUS
  <2>4. Synced(h.rlog[max.n_accepted], storage[p], s1, l.n_leader, d, max.accepted_idx)
    BY <1>3, <2>1, <2>2, <2>3, AdoptedStorage
  <2>5. s1 \in Storage /\ s1.stopsign = None /\ s1.batched_entries = << >> /\ s1.accepted_round = l.n_leader
    BY <2>1, <2>4 DEF Synced
  <2>6. bp = buffered_proposals[p] /\ bp \in Entries /\ buffered_stopsign[p] = None
    BY <2>1 DEF TypeOK, Plain
  <2>7. ~ stopped
    BY <2>5 DEF accepted_reconfiguration
  <2>8. s3 = append_entries_without_batching(s1, bp)
    BY <2>6, <2>7
  <2> HIDE DEF s1, stopped, s2, sync, sync_panics, bp
  <2> HIDE DEF s3
  <2> HIDE DEF l3, Q
  <2>9. \A r \in DOMAIN msgs : msgs[r].type # "ProposalForward"
    <3>1. \A r \in Q : accsync_message(s3, l3, r).type # "ProposalForward"
      BY ForwardsNothing DEF accsync_message
    <3> QED BY <3>1
  <2>10. Appended(s1, s3, bp)
    BY <2>5, <2>6, <2>8, DirectAppends
  <2>11. s3.accepted_round = l.n_leader /\ s3.batched_entries = << >>
    BY <2>5, <2>10 DEF Appended
  <2>12. storage[p].accepted_round # l.n_leader
    <3>1. l.n_leader \notin h.est /\ l.n_leader.pid = p /\ DefaultBallot.pid = 0 /\ p # 0
      BY <2>1, ServerAssumption DEF PrepareOK, DefaultBallot
    <3> QED BY <2>1, <3>1 DEF LogOK
  <2>13. storage' = [storage EXCEPT ![p] = s3]
    BY <1>1, <1>3
  <2>14. storage'[p] = s3
    BY <2>1, <2>13 DEF TypeOK
  <2>15. Writes(p, bp)
    BY <2>6, <2>11, <2>12, <2>14 DEF Writes
  <2>16. Batch(p) = << >> /\ Batch(p)' = << >>
    BY <2>1, <2>11, <2>14 DEF Batch
  <2>17. PICK e \in Entries : e = << >>
    BY EmptySeq DEF Entries
  <2>18. Arrives(p, e) /\ proposed \subseteq proposed'
    BY <2>17 DEF Arrives
  <2>19. p \notin panicked /\ Buffer(p) = bp
    BY <2>6 DEF Elected, Buffer
  <2> HIDE DEF d, l1, l2
  <2> HIDE DEF msgs
  <2>20. CASE \E r \in Q : send_accsync_panics(s3, l3, r)
    <3>1. Panic(p, q)
      BY <1>1, <2>20
    <3>2. PICK out : out = NoMessages /\ \A y \in Server : out[y] = << >>
      BY <2>1, NothingWaits
    <3>3. Forwards(p, out, e) /\ Done(p, out)
      BY <2>17, <3>1, <3>2, ForwardsNone DEF Done, Peers, Panic
    <3>4. Stores(p, s3, bp)
      BY <2>1, <2>6, <2>13, <3>1, StoresSame DEF Stores, Panic
    <3>5. Buffer(p)' = << >>
      BY <3>1 DEF Buffer, Panic
    <3>6. Hands(Buffer(p), Batch(p), e, Buffer(p)', Batch(p)', e, bp)
      BY <2>16, <2>17, <2>19, <3>5 DEF Hands
    <3> QED BY <2>6, <2>15, <2>17, <2>18, <3>3, <3>4, <3>6, CarryOn
  <2>21. CASE ~ \E r \in Q : send_accsync_panics(s3, l3, r)
    <3>1. /\ buffered_proposals' = [buffered_proposals EXCEPT ![p] = << >>]
          /\ Handled(p, q, push(outgoing[p], msgs)) /\ panicked' = panicked
      BY <1>1, <1>3, <2>7, <2>21
    <3>2. PICK out : out = push(outgoing[p], msgs)
      OBVIOUS
    <3>3. Forwards(p, out, e)
      BY <2>9, <2>17, <3>2, ForwardsSome
    <3>4. Done(p, out)
      BY <3>1, <3>2 DEF Done, Ended, Handled
    <3>5. Stores(p, s3, << >>)
      BY <2>13, <3>1 DEF Stores
    <3>6. Buffer(p)' = << >>
      BY <2>1, <3>1 DEF Buffer, TypeOK
    <3>7. Hands(Buffer(p), Batch(p), e, Buffer(p)', Batch(p)', e, bp)
      BY <2>16, <2>17, <2>19, <3>6 DEF Hands
    <3> QED BY <2>6, <2>15, <2>17, <2>18, <3>3, <3>4, <3>5, <3>7, CarryOn
  <2> QED BY <2>20, <2>21
<1> QED BY <1>2, <1>3

\* A promise comes in the Prepare phase.
LEMMA PromisePrepareCarried ==
  ASSUME NEW p \in Server, NEW q \in Peers(p), NEW h, From(h), proposed' = proposed,
         handle_promise_prepare(p, q)
  PROVE  Carried(p)
<1> DEFINE a == Head(net[q][p])
           l == set_promise(leader_state[p], q, PromiseMeta(a), a.log_sync, TRUE)
<1>1. /\ Incoming(p, q, "Promise") /\ state[p] = << "Leader", "Prepare" >> /\ counts_promise(p, a)
      /\ \/ /\ has_prepare_quorum(l)
            /\ handle_majority_promises(p, q, l)
         \/ /\ ~ has_prepare_quorum(l)
            /\ leader_state' = [leader_state EXCEPT ![p] = l]
            /\ Handled(p, q, outgoing[p])
            /\ UNCHANGED << storage, state, follower_state, buffered_proposals, buffered_stopsign, panicked >>
  BY Zenon DEF handle_promise_prepare
<1>2. /\ TypeOK /\ Inv /\ Explains(h)
  BY FromFacts
<1>4. net[q][p] # << >> /\ p \notin panicked
  BY <1>1 DEF Incoming
<1>5. CASE has_prepare_quorum(l) /\ handle_majority_promises(p, q, l)
  <2>1. /\ PromiseMeta(a) \in PromiseMetaData /\ a.log_sync \in LogSync \cup {None} /\ CountsOK(h, leader_state[p])
        /\ a \in PromiseMessage /\ a.n = leader_state[p].n_leader /\ PromiseOK(h, q, p, a)
        /\ q \in Slots /\ q \in Server /\ leader_state[p] \in LeaderStates
        /\ MetaOK(h, q, leader_state[p].n_leader, PromiseMeta(a))
    BY <1>1, <1>2, PromiseArrives DEF PromiseOK
  <2>2. Records(leader_state[p], l, q, PromiseMeta(a), a.log_sync, TRUE)
    BY <2>1, RecordsFields, Zenon
  <2> HIDE DEF a, l
  <2>3. CountsOK(h, l)
    BY <2>1, <2>2, RecordsCounts, Zenon
  <2>4. PrepareOK(h, p, storage[p], leader_state[p])
    BY <1>1, <1>2, <1>4, LeaderRound
  <2>5. PICK l0 : l0 = leader_state[p]
    OBVIOUS
  <2>6. PrepareOK(h, p, storage[p], l)
    BY <1>1, <1>2, <1>4, <2>1, <2>2, <2>4, <2>5, RecordsPrepare, Zenon
  <2>7. l \in LeaderStates /\ l.follower_seq_nums = leader_state[p].follower_seq_nums
    BY <2>2, Zenon DEF Records
  <2>8. PICK n : n = storage[p].promise
    OBVIOUS
  <2>9. Elected(h, p, n, l)
    BY <1>1, <1>4, <1>5, <2>3, <2>6, <2>7, <2>8 DEF Elected
  <2> QED BY <1>4, <1>5, <2>9, MajorityCarried
<1>6. CASE /\ leader_state' = [leader_state EXCEPT ![p] = l]
           /\ Handled(p, q, outgoing[p])
           /\ UNCHANGED << storage, state, follower_state, buffered_proposals, buffered_stopsign, panicked >>
  <2>1. PICK m : m = NotAccepted(0) /\ m.type # "ProposalForward"
    BY ForwardsNothing
  <2>2. Ended(p, outgoing[p])
    BY <1>4, <1>6 DEF Ended, Handled
  <2> HIDE DEF a, l
  <2> QED BY <1>6, <2>1, <2>2, SendCarried
<1> QED BY <1>1, <1>5, <1>6

\* The leader decides: its log stays.
LEMMA HandleAcceptedCarried ==
  ASSUME NEW h, From(h), NEW p \in Server, NEW q \in Peers(p), proposed' = proposed, handle_accepted(p, q)
  PROVE  Carried(p)
<1> DEFINE m == Head(net[q][p])
           idx == m.accepted_idx
           l == set_accepted_idx(leader_state[p], q, idx)
           Q == get_promised_followers(l) \cap Server
           new == {r \in Q : ~ has_latest_accdec(l, outgoing[p], r)}
           l1 == [l EXCEPT !.follower_seq_nums = [r \in Slots |-> IF r \in new THEN next_seq_num(@[r]) ELSE @[r]]]
           marked == [r \in Server |->
                   IF r \in Q \ new
                     THEN [outgoing[p][r] EXCEPT ![l.latest_accept_meta[r]] = [@ EXCEPT !.decided_idx = idx]]
                     ELSE outgoing[p][r]]
           msgs == [r \in new |-> Decide(l.n_leader, l1.follower_seq_nums[r], idx)]
           out == push(marked, msgs)
<1>1. \/ /\ storage' = [storage EXCEPT ![p].decided_idx = idx]
         /\ Handled(p, q, out)
      \/ /\ Handled(p, q, outgoing[p])
         /\ UNCHANGED storage
  BY Zenon DEF handle_accepted
<1>2. Incoming(p, q, "Accepted") /\ counts_accepted(p, m) /\ UNCHANGED << state, follower_state, buffered_proposals, panicked >>
  BY DEF handle_accepted
<1>3. net[q][p] # << >>
  BY <1>2 DEF Incoming
<1>4. CASE Handled(p, q, outgoing[p]) /\ UNCHANGED storage
  <2>1. PICK x : x = NotAccepted(0) /\ x.type # "ProposalForward"
    BY ForwardsNothing
  <2>2. Ended(p, outgoing[p])
    BY <1>3, <1>4 DEF Ended, Handled
  <2> HIDE DEF m, idx, l, Q, new, l1, marked, msgs, out
  <2> QED BY <1>2, <1>4, <2>1, <2>2, SendCarried
<1>5. CASE storage' = [storage EXCEPT ![p].decided_idx = idx] /\ Handled(p, q, out)
  <2>1. /\ Plain /\ leader_state[p] \in LeaderStates /\ \A r \in Slots : leader_state[p].latest_accept_meta[r] = 0
        /\ outgoing[p] = NoMessages /\ TypeOK
    BY FromFacts
  <2>2. q \in Slots /\ idx \in Nat
    BY <1>2, AcceptedArrives
  <2>3. CountsAs(leader_state[p], l, q, idx)
    BY <2>1, <2>2, CountsAsFields
  <2>4. \A r \in Q : ~ has_latest_accdec(l, outgoing[p], r)
    BY <2>3, ServersHaveSlots DEF CountsAs
  <2>5. new = Q
    BY <2>4
  <2>6. marked = NoMessages
    BY <2>1, <2>5 DEF NoMessages
  <2>7. \A r \in DOMAIN msgs : msgs[r].type # "ProposalForward"
    BY ForwardsNothing
  <2>8. PICK o, ms : o = out /\ ms = msgs /\ o = push(outgoing[p], ms)
    BY <2>1, <2>6
  <2>9. \A r \in DOMAIN ms : ms[r].type # "ProposalForward"
    BY <2>7, <2>8
  <2>10. Forwards(p, o, << >>)
    BY <2>8, <2>9, ForwardsSome
  <2>11. Done(p, o)
    BY <1>3, <1>5, <2>8 DEF Done, Ended, Handled
  <2>12. PICK s : s = [storage[p] EXCEPT !.decided_idx = idx]
    OBVIOUS
  <2>13. storage' = [storage EXCEPT ![p] = s]
    BY <1>5, <2>1, <2>12 DEF TypeOK
  <2>14. Rested(p, storage[p], s)
    <3>1. storage[p] \in Storage
      BY <2>1 DEF TypeOK
    <3> QED BY <2>12, <3>1 DEF Rested, Storage
  <2>15. PICK b : b = buffered_proposals[p]
    OBVIOUS
  <2>16. Stores(p, s, b)
    BY <1>2, <2>1, <2>13, <2>15, StoresSame DEF Stores
  <2> HIDE DEF m, idx, l, Q, new, l1, marked, msgs, out
  <2> QED BY <1>2, <2>10, <2>11, <2>14, <2>15, <2>16, CarryQuiet
<1> QED BY <1>1, <1>4, <1>5

\* The leader stores its batch, and behind it perhaps what arrives.
LEMMA AcceptsCarried ==
  ASSUME NEW h, From(h), NEW p \in Server, p \notin panicked, state[p] = << "Leader", "Accept" >>,
         NEW A \in Entries, Arrives(p, A), proposed \subseteq proposed', NEW ents \in Entries,
         ents = storage[p].batched_entries \o A \/ (A = << >> /\ ents = storage[p].batched_entries),
         NEW s, Appended(storage[p], s, ents),
         \/ accepts(p, s, ents, net)
         \/ \E x \in Peers(p) : net[x][p] # << >> /\ accepts(p, s, ents, Consume(p, x)),
         UNCHANGED << buffered_proposals, panicked >>
  PROVE  Carried(p)
<1> DEFINE l1 == set_accepted_idx(leader_state[p], p, s.accepted_idx)
           out == accdec_outgoing(l1, outgoing[p], s.decided_idx, ents)
<1>1. storage' = [storage EXCEPT ![p] = s] /\ Ended(p, out)
  BY DEF accepts, Ended
<1>2. /\ TypeOK /\ Inv /\ Explains(h) /\ outgoing[p] = NoMessages /\ leader_state[p] \in LeaderStates /\ Plain
      /\ \A r \in Slots : leader_state[p].latest_accept_meta[r] = 0
  BY FromFacts
<1>3. PICK n : n = storage[p].promise
  OBVIOUS
<1>4. n.pid = p /\ storage[p].accepted_round = n
  BY <1>3, LeaderAccepts
<1>5. /\ s \in Storage /\ s.accepted_round = n /\ s.batched_entries = << >>
      /\ s.log = storage[p].log \o ents /\ s.compacted_idx = storage[p].compacted_idx
      /\ s.accepted_idx = storage[p].accepted_idx + Len(ents)
  BY <1>4 DEF Appended
<1>6. CountsAs(leader_state[p], l1, p, s.accepted_idx)
  <2>1. p \in Slots /\ s.accepted_idx \in Nat
    BY <1>5, ServersHaveSlots, StorageFields
  <2> QED BY <1>2, <2>1, CountsAsFields
<1>7. \A y \in Peers(p) : out[y] = << >> \/ \E m : out[y] = << m >> /\ m.type # "ProposalForward"
  <2> TAKE y \in Peers(p)
  <2>1. y \in Server /\ y \in Slots /\ outgoing[p][y] = << >>
    BY <1>2, ServersHaveSlots DEF Peers, NoMessages
  <2>2. PICK k : /\ k = AcceptDecide(l1.n_leader, next_seq_num(l1.follower_seq_nums[y]), s.decided_idx, ents)
                 /\ k.type # "ProposalForward"
    BY ForwardsNothing
  <2>3. ~ has_latest_accdec(l1, outgoing[p], y)
    BY <1>6, <2>1 DEF CountsAs
  <2>4. out[y] = IF y \notin get_promised_followers(l1) THEN << >> ELSE Append(<< >>, k)
    BY <2>1, <2>2, <2>3 DEF accdec_outgoing
  <2> HIDE DEF out, l1
  <2> QED BY <2>2, <2>4
<1> HIDE DEF out, l1
<1>8. PICK F \in Entries : F = << >>
  BY EmptySeq DEF Entries
<1>9. Forwards(p, out, F) /\ Done(p, out)
  BY <1>1, <1>7, <1>8, ForwardsNone DEF Done
<1>10. PICK b : b = buffered_proposals[p]
  OBVIOUS
<1>11. Stores(p, s, b)
  BY <1>1, <1>2, <1>10, StoresSame DEF Stores
<1>12. storage'[p] = s
  BY <1>1, <1>2 DEF TypeOK
<1>13. Writes(p, ents)
  BY <1>4, <1>5, <1>12 DEF Writes
<1>14. /\ Buffer(p) = b /\ Buffer(p)' = b
       /\ Batch(p) = storage[p].batched_entries /\ Batch(p)' = << >>
  BY <1>4, <1>5, <1>10, <1>12 DEF Buffer, Batch
<1>15. Hands(Buffer(p), Batch(p), A, Buffer(p)', Batch(p)', F, ents)
  BY <1>8, <1>14 DEF Hands
<1> QED BY <1>9, <1>11, <1>13, <1>15, CarryOn

\* The leader batches what arrives.
LEMMA BatchingCarried ==
  ASSUME NEW h, From(h), NEW p \in Server, p \notin panicked, state[p] = << "Leader", "Accept" >>,
         NEW A \in Entries, Arrives(p, A), proposed \subseteq proposed', NEW s, Batched(storage[p], s, A),
         storage' = [storage EXCEPT ![p] = s], Ended(p, outgoing[p]), UNCHANGED << buffered_proposals, panicked >>
  PROVE  Carried(p)
<1>1. TypeOK /\ Explains(h)
  BY FromFacts
<1>2. storage[p].accepted_round.pid = p
  BY LeaderAccepts
<1>3. PICK F \in Entries : F = << >>
  BY EmptySeq DEF Entries
<1>4. Forwards(p, outgoing[p], F) /\ Done(p, outgoing[p])
  BY <1>1, <1>3, NothingWaits DEF Forwards, Done, Peers
<1>5. PICK b : b = buffered_proposals[p]
  OBVIOUS
<1>6. Stores(p, s, b)
  BY <1>1, <1>5, StoresSame DEF Stores
<1>7. /\ storage'[p] = s /\ s.accepted_round = storage[p].accepted_round /\ s.accepted_idx = storage[p].accepted_idx
      /\ s.batched_entries = storage[p].batched_entries \o A
  BY <1>1 DEF TypeOK, Batched
<1>8. Writes(p, F)
  BY <1>7 DEF Writes
<1>9. Buffer(p) = b /\ Buffer(p)' = b /\ Batch(p)' = Batch(p) \o A
  BY <1>2, <1>5, <1>7 DEF Buffer, Batch
<1>10. Hands(Buffer(p), Batch(p), A, Buffer(p)', Batch(p)', F, F)
  BY <1>3, <1>9 DEF Hands
<1> QED BY <1>3, <1>4, <1>6, <1>8, <1>10, CarryOn

\* Who is not in the Accept phase as a leader keeps what arrives, or forwards it.
LEMMA ForwardCarried ==
  ASSUME NEW h, From(h), NEW p \in Server, p \notin panicked, state[p] # << "Leader", "Accept" >>,
         NEW A \in Entries, Arrives(p, A), proposed \subseteq proposed',
         \/ propose_entries(p, A, net)
         \/ \E x \in Peers(p) : net[x][p] # << >> /\ propose_entries(p, A, Consume(p, x)),
         UNCHANGED panicked
  PROVE  Carried(p)
<1> DEFINE q == get_current_leader(p)
           prepares == state[p] = << "Leader", "Prepare" >>
           out == IF prepares THEN outgoing[p] ELSE forward_proposals_outgoing(p, outgoing[p], A)
<1>1. TypeOK /\ Explains(h)
  BY FromFacts
<1>2. /\ Ended(p, out) /\ UNCHANGED storage
      /\ buffered_proposals' = IF keeps_proposal(p)
                                 THEN [buffered_proposals EXCEPT ![p] = @ \o A] ELSE buffered_proposals
  BY DEF propose_entries, Ended
<1>3. PICK F \in Entries : F = << >>
  BY EmptySeq DEF Entries
<1>4. PICK b : b = buffered_proposals[p]
  OBVIOUS
<1>5. Buffer(p) = b /\ Batch(p)' = Batch(p) /\ Writes(p, F)
  BY <1>2, <1>3, <1>4 DEF Buffer, Batch, Writes
<1>6. PICK s : s = storage[p]
  OBVIOUS
<1>7. storage' = [storage EXCEPT ![p] = s]
  BY <1>1, <1>2, <1>6, StoresSame
<1>8. CASE keeps_proposal(p)
  <2>1. out = outgoing[p]
    BY <1>8 DEF keeps_proposal, forward_proposals_outgoing
  <2>2. Forwards(p, out, F) /\ Done(p, out)
    BY <1>1, <1>2, <1>3, <2>1, NothingWaits DEF Forwards, Done, Peers
  <2> HIDE DEF out, prepares, q
  <2>3. PICK c : c = b \o A
    OBVIOUS
  <2>4. Stores(p, s, c)
    BY <1>1, <1>2, <1>4, <1>7, <1>8, <2>3 DEF Stores, TypeOK
  <2>5. Buffer(p)' = c
    BY <1>1, <1>2, <1>4, <1>8, <2>3 DEF Buffer, TypeOK
  <2>6. Hands(Buffer(p), Batch(p), A, Buffer(p)', Batch(p)', F, F)
    BY <1>3, <1>5, <2>3, <2>5 DEF Hands
  <2> QED BY <1>3, <1>5, <2>2, <2>4, <2>6, CarryOn
<1>9. CASE ~ keeps_proposal(p)
  <2>1. out = send(outgoing[p], q, ProposalForward(A))
    BY <1>9 DEF keeps_proposal, forward_proposals_outgoing
  <2>2. PICK m : m = ProposalForward(A)
    OBVIOUS
  <2>3. \A y \in Server : out[y] = IF y = q THEN << m >> ELSE << >>
    BY <1>1, <2>1, <2>2, NothingWaits
  <2> HIDE DEF out, prepares
  <2>4. Forwards(p, out, A)
    BY <2>2, <2>3 DEF Forwards, Peers
  <2>5. Done(p, out)
    BY <1>2 DEF Done
  <2>6. Stores(p, s, b)
    BY <1>1, <1>2, <1>4, <1>7, <1>9, StoresSame DEF Stores
  <2>7. Buffer(p)' = b
    BY <1>2, <1>4, <1>9 DEF Buffer
  <2>8. Hands(Buffer(p), Batch(p), A, Buffer(p)', Batch(p)', A, F)
    BY <1>3, <1>5, <2>7 DEF Hands
  <2> HIDE DEF q
  <2> QED BY <1>3, <1>5, <2>4, <2>5, <2>6, <2>8, CarryOn
<1> QED BY <1>8, <1>9

\* Entries arrive at p.
LEMMA ProposeCarried ==
  ASSUME NEW h, From(h), NEW p \in Server, p \notin panicked,
         NEW A \in Entries, Arrives(p, A), proposed \subseteq proposed',
         \/ propose_entries(p, A, net)
         \/ \E x \in Peers(p) : net[x][p] # << >> /\ propose_entries(p, A, Consume(p, x)),
         UNCHANGED panicked
  PROVE  Carried(p)
<1>1. CASE state[p] # << "Leader", "Accept" >>
  BY <1>1, ForwardCarried
<1>2. CASE state[p] = << "Leader", "Accept" >>
  <2>1. PICK chan : /\ accept_entries_leader(p, A, chan) /\ UNCHANGED buffered_proposals
                    /\ chan = net \/ \E x \in Peers(p) : net[x][p] # << >> /\ chan = Consume(p, x)
    BY <1>2 DEF propose_entries
  <2>2. storage[p] \in Storage
    BY FromFacts
  <2>3. PICK s : s = append_entries_with_batching(storage[p], A)
    OBVIOUS
  <2>4. CASE fills_batch(storage[p], A)
    <3>1. PICK ents : ents = storage[p].batched_entries \o A
      OBVIOUS
    <3>2. ents \in Entries
      BY <2>2, <3>1, StorageFields, AppendExtends
    <3>3. Appended(storage[p], s, ents)
      BY <2>2, <2>3, <2>4, <3>1, BatchAppends
    <3>4. accepts(p, s, ents, chan)
      BY <2>1, <2>3, <2>4, <3>1 DEF accept_entries_leader
    <3>5. \/ accepts(p, s, ents, net)
          \/ \E x \in Peers(p) : net[x][p] # << >> /\ accepts(p, s, ents, Consume(p, x))
      BY <2>1, <3>4
    <3> QED BY <1>2, <2>1, <3>1, <3>2, <3>3, <3>5, AcceptsCarried
  <2>5. CASE ~ fills_batch(storage[p], A)
    <3>1. Batched(storage[p], s, A)
      BY <2>2, <2>3, <2>5, BatchAppends
    <3>2. storage' = [storage EXCEPT ![p] = s] /\ EndCall(p, outgoing[p], chan)
      BY <2>1, <2>3, <2>5 DEF accept_entries_leader
    <3>3. Ended(p, outgoing[p])
      BY <2>1, <3>2 DEF Ended
    <3> QED BY <1>2, <2>1, <3>1, <3>2, <3>3, BatchingCarried
  <2> QED BY <2>4, <2>5
<1> QED BY <1>1, <1>2

\* p stores its batch in the round it accepted last.
FlushedTo(p, u) ==
  LET s == storage[p]
  IN  /\ u.accepted_round = s.accepted_round /\ u.batched_entries = << >>
      /\ u.log = s.log \o s.batched_entries /\ u.compacted_idx = s.compacted_idx
      /\ u.accepted_idx = s.accepted_idx + Len(s.batched_entries)

\* flush_batch does so, whatever is promised then.
LEMMA FlushedToBy ==
  ASSUME NEW h, From(h), NEW p \in Server, NEW u,
         u = flush_batch(storage[p]) \/ \E k : Promises(p, k, u)
  PROVE  FlushedTo(p, u)
<1>1. PICK s : s = storage[p] /\ s \in Storage
  BY FromFacts
<1>2. PICK t : t = flush_batch(s)
  OBVIOUS
<1>3. Appended(s, t, s.batched_entries)
  BY <1>1, <1>2, FlushAppends
<1>4. u = t \/ \E k : u = [t EXCEPT !.promise = k]
  BY <1>1, <1>2 DEF Promises
<1>5. /\ u.accepted_round = t.accepted_round /\ u.batched_entries = t.batched_entries
      /\ u.log = t.log /\ u.compacted_idx = t.compacted_idx /\ u.accepted_idx = t.accepted_idx
  BY <1>3, <1>4 DEF Appended, Storage
<1> QED BY <1>1, <1>3, <1>5 DEF FlushedTo, Appended

\* A call that stores the batch and takes on no other entries.
LEMMA FlushCarried ==
  ASSUME NEW h, From(h), NEW p \in Server, p \notin panicked, NEW u, FlushedTo(p, u),
         storage' = [storage EXCEPT ![p] = u], UNCHANGED << buffered_proposals, proposed >>,
         panicked' = panicked \/ panicked' = panicked \cup {p},
         NEW out, Done(p, out), Forwards(p, out, << >>)
  PROVE  Carried(p)
<1>1. TypeOK /\ storage[p] \in Storage
  BY FromFacts
<1>2. PICK e \in Entries : e = << >>
  BY EmptySeq DEF Entries
<1>3. PICK N \in Entries : N = Batch(p)
  BY <1>1, <1>2, StorageFields DEF Batch
<1>4. PICK b : b = buffered_proposals[p]
  OBVIOUS
<1>5. Stores(p, u, b)
  BY <1>1, <1>4, StoresSame DEF Stores
<1>6. storage'[p] = u
  BY <1>1 DEF TypeOK
<1>7. Batch(p)' = << >> /\ Writes(p, N)
  BY <1>3, <1>6 DEF Batch, Writes, FlushedTo
<1>8. Buffer(p)' = Buffer(p) \/ Buffer(p)' = << >>
  BY DEF Buffer
<1>9. Hands(Buffer(p), Batch(p), e, Buffer(p)', Batch(p)', e, N)
  BY <1>2, <1>3, <1>7, <1>8 DEF Hands
<1>10. Arrives(p, e) /\ proposed \subseteq proposed' /\ Forwards(p, out, e)
  BY <1>2 DEF Arrives
<1> QED BY <1>2, <1>5, <1>7, <1>9, <1>10, CarryOn

\* A timeout flushes the batch.
LEMMA FlushTimeoutCarried ==
  ASSUME NEW h, From(h), NEW p \in Server, p \notin panicked, flush_batch_leader(p) \/ flush_batch_follower(p),
         UNCHANGED << buffered_proposals, panicked, proposed >>
  PROVE  Carried(p)
<1>1. PICK s, t : s = storage[p] /\ s \in Storage /\ t = flush_batch(s)
  BY FromFacts
<1>2. Appended(s, t, s.batched_entries)
  BY <1>1, FlushAppends
<1>3. CASE flush_batch_leader(p)
  <2>1. PICK A \in Entries : A = << >>
    BY EmptySeq DEF Entries
  <2>2. PICK ents \in Entries : ents = s.batched_entries
    BY <1>1, StorageFields
  <2>3. Arrives(p, A) /\ proposed \subseteq proposed'
    BY <2>1 DEF Arrives
  <2>4. state[p] = << "Leader", "Accept" >> /\ accepts(p, t, ents, net)
    BY <1>1, <1>3, <2>2 DEF flush_batch_leader
  <2> QED BY <1>1, <1>2, <2>1, <2>2, <2>3, <2>4, AcceptsCarried
<1>4. CASE flush_batch_follower(p)
  <2>1. PICK f, m : f = follower_state[p] /\ m = Accepted(t.promise, t.accepted_idx) /\ m.type # "ProposalForward"
    BY ForwardsNothing
  <2>2. f.latest_accepted_meta.idx = 0
    BY <2>1, FromFacts DEF FollowingOK
  <2>3. ~ has_latest_accepted(f, outgoing[p], t.promise)
    BY <2>2 DEF has_latest_accepted
  <2>4. PICK out : out = send(outgoing[p], t.promise.pid, m)
    OBVIOUS
  <2>5. storage' = [storage EXCEPT ![p] = t] /\ Called(p, out)
    BY <1>1, <1>4, <2>1, <2>3, <2>4 DEF flush_batch_follower, reply_accepted_outgoing
  <2>6. Forwards(p, out, << >>) /\ Done(p, out)
    BY <2>1, <2>4, <2>5, ForwardsOne DEF Called, Done, Ended
  <2>7. FlushedTo(p, t)
    BY <1>1, FlushedToBy
  <2> QED BY <2>5, <2>6, <2>7, FlushCarried
<1> QED BY <1>3, <1>4

\* The election names p: it stores its batch, and prepares its round.
LEMMA HandleLeaderCarried ==
  ASSUME NEW h, From(h), NEW p \in Server, NEW n \in Ballot, handle_leader(p, n)
  PROVE  Carried(p)
<1> DEFINE s == [flush_batch(storage[p]) EXCEPT !.promise = n]
<1>1. /\ p \notin panicked /\ storage' = [storage EXCEPT ![p] = s]
      /\ Called(p, push(outgoing[p], [q \in Peers(p) |-> Prepare(n, s)]))
      /\ UNCHANGED << buffered_proposals, panicked, proposed >>
  BY Zenon DEF handle_leader
<1>2. FlushedTo(p, s)
  BY FlushedToBy DEF Promises
<1> HIDE DEF s
<1>3. PICK msgs, out : msgs = [q \in Peers(p) |-> Prepare(n, s)] /\ out = push(outgoing[p], msgs)
  OBVIOUS
<1>4. \A y \in DOMAIN msgs : msgs[y].type # "ProposalForward"
  BY <1>3, ForwardsNothing
<1>5. Forwards(p, out, << >>)
  BY <1>3, <1>4, ForwardsSome
<1>6. Done(p, out)
  BY <1>1, <1>3 DEF Called, Done, Ended
<1> QED BY <1>1, <1>2, <1>5, <1>6, FlushCarried

\* A follower promises: it stores its batch, and then it may panic.
LEMMA HandlePrepareCarried ==
  ASSUME NEW h, From(h), NEW p \in Server, NEW q \in Peers(p), handle_prepare(p, q), proposed' = proposed
  PROVE  Carried(p)
<1> DEFINE m0 == Head(net[q][p])
           s == [flush_batch(storage[p]) EXCEPT !.promise = m0.n]
           newer == m0.n_accepted \prec s.accepted_round
           longer == m0.n_accepted = s.accepted_round /\ m0.accepted_idx < s.accepted_idx
           missing == IF newer THEN m0.decided_idx ELSE m0.accepted_idx
           sync0 == IF newer \/ longer THEN create_log_sync(s, missing, m0.decided_idx) ELSE None
           promise0 == Promise(m0.n, s, sync0)
<1>1. /\ Incoming(p, q, "Prepare")
      /\ storage' = [storage EXCEPT ![p] = s]
      /\ IF (newer \/ longer) /\ create_log_sync_panics(s, missing)
           THEN Panic(p, q)
           ELSE /\ Handled(p, q, send(outgoing[p], q, promise0))
                /\ UNCHANGED << leader_state, buffered_proposals, buffered_stopsign, panicked >>
  BY Zenon DEF handle_prepare
<1>2. FlushedTo(p, s)
  BY FlushedToBy DEF Promises
<1>3. promise0.type # "ProposalForward"
  BY ForwardsNothing
<1> HIDE DEF promise0, s
<1>4. net[q][p] # << >> /\ p \notin panicked
  BY <1>1 DEF Incoming
<1>5. CASE Panic(p, q)
  <2>1. Explains(h)
    BY FromFacts
  <2>2. PICK out : out = NoMessages /\ \A y \in Server : out[y] = << >>
    BY <2>1, NothingWaits
  <2>3. Forwards(p, out, << >>) /\ Done(p, out)
    BY <1>4, <1>5, <2>2, ForwardsNone DEF Done, Peers, Panic
  <2>4. panicked' = panicked \cup {p} /\ UNCHANGED buffered_proposals
    BY <1>5 DEF Panic
  <2> QED BY <1>1, <1>2, <1>4, <2>3, <2>4, FlushCarried
<1>6. CASE /\ Handled(p, q, send(outgoing[p], q, promise0))
           /\ UNCHANGED << buffered_proposals, panicked >>
  <2>1. PICK out : out = send(outgoing[p], q, promise0)
    OBVIOUS
  <2>2. Forwards(p, out, << >>)
    BY <1>3, <2>1, ForwardsOne
  <2>3. Done(p, out)
    BY <1>4, <1>6, <2>1 DEF Handled, Done, Ended
  <2> QED BY <1>1, <1>2, <1>4, <1>6, <2>2, <2>3, FlushCarried
<1> QED BY <1>1, <1>5, <1>6

\* A user proposes a value it has not proposed before.
LEMMA AppendCarried ==
  ASSUME NEW h, From(h), NEW p \in Server, NEW v \in Value, append(p, v)
  PROVE  Carried(p)
<1>1. PICK A : A = << v >>
  OBVIOUS
<1>2. /\ p \notin panicked /\ << p, v >> \in Proposals \ proposed /\ propose_entries(p, A, net)
      /\ proposed' = proposed \cup {<< p, v >>} /\ UNCHANGED panicked
  BY <1>1, Zenon DEF append
<1>3. A \in Entries
  BY <1>1 DEF Entries
<1>4. Arrives(p, A)
  BY <1>1, <1>2 DEF Arrives
<1> QED BY <1>2, <1>3, <1>4, ProposeCarried

\* A peer forwards what was proposed to it.
LEMMA ForwardedCarried ==
  ASSUME NEW h, From(h), NEW p \in Server, NEW q \in Peers(p), handle_forwarded_proposal(p, q), proposed' = proposed
  PROVE  Carried(p)
<1>1. PICK A : A = Head(net[q][p]).entries
  OBVIOUS
<1>2. /\ net[q][p] # << >> /\ Head(net[q][p]).type = "ProposalForward" /\ p \notin panicked
      /\ propose_entries(p, A, Consume(p, q)) /\ UNCHANGED panicked
  BY <1>1, Zenon DEF handle_forwarded_proposal, Incoming
<1>3. TypeOK /\ Plain /\ Explains(h)
  BY FromFacts
<1>4. PICK m \in Message : m = Head(net[q][p])
  BY <1>2, <1>3, HeadOK
<1>5. A \in Entries
  BY <1>1, <1>2, <1>4 DEF Message, PromiseMessage
<1>6. net[q][p] \in Seq(Message)
  BY <1>3 DEF TypeOK, Peers
<1>7. A = InTransit(net[q][p], 1)
  <2>1. 1 \in 1 .. Len(net[q][p]) /\ Head(net[q][p]) = net[q][p][1]
    BY <1>2, <1>6
  <2> QED BY <1>1, <1>2, <2>1 DEF InTransit
<1>8. \E out : EndCall(p, out, Consume(p, q))
  BY <1>2 DEF propose_entries, accept_entries_leader, accepts
<1>9. net'[q][p] = Tail(net[q][p])
  <2>1. EagerTake /\ net \in [Server -> [Server -> Seq(Message)]] /\ q \in Server /\ q # p
    BY <1>3 DEF TypeOK, Plain, Peers
  <2>2. PICK t : t = Tail(net[q][p])
    OBVIOUS
  <2>3. PICK chan : chan = Consume(p, q) /\ \E out : EndCall(p, out, chan)
    BY <1>8
  <2>4. chan = [net EXCEPT ![q][p] = t]
    BY <2>2, <2>3 DEF Consume
  <2>5. PICK c : net' = [chan EXCEPT ![p] = c]
    BY <2>1, <2>3 DEF EndCall, Transmit
  <2>6. chan[q][p] = t /\ DOMAIN chan = Server
    BY <2>1, <2>4
  <2>7. net'[q] = chan[q]
    BY <2>1, <2>5, <2>6
  <2> QED BY <2>2, <2>6, <2>7
<1>10. Arrives(p, A)
  BY <1>2, <1>7, <1>9 DEF Arrives
<1>11. proposed \subseteq proposed'
  OBVIOUS
<1> QED BY <1>2, <1>5, <1>10, <1>11, ProposeCarried

\* A follower goes on as its leader tells: it writes in no round of its own.
LEMMA FollowCarried ==
  ASSUME NEW h, From(h), NEW p \in Server, NEW q \in Peers(p), NEW m, NEW n, Expects(h, p, q, m, n),
         NEW t, t.accepted_round = n, NEW answers, follow(p, q, t, answers), proposed' = proposed
  PROVE  Carried(p)
<1>1. TypeOK /\ FollowingOK(h, p) /\ follower_state[p] \in FollowerState
  BY FromFacts
<1>2. net[q][p] # << >> /\ m = Head(net[q][p]) /\ m.n = n /\ n.pid = q /\ q # p
  BY DEF Expects, Peers
<1>3. PICK f, x : f = [follower_state[p] EXCEPT !.current_seq_num = m.seq_num] /\ x = Accepted(n, t.accepted_idx)
  OBVIOUS
<1>12. x.type # "ProposalForward"
  BY <1>3, ForwardsNothing
<1>4. f.latest_accepted_meta.idx = 0
  BY <1>1, <1>3 DEF FollowingOK, FollowerState
<1>5. ~ has_latest_accepted(f, outgoing[p], m.n)
  BY <1>4 DEF has_latest_accepted
<1>6. PICK out : Handled(p, q, out) /\ (out = outgoing[p] \/ out = send(outgoing[p], q, x))
  BY <1>2, <1>3, <1>5 DEF follow, reply_accepted_outgoing
<1>7. storage' = [storage EXCEPT ![p] = t] /\ UNCHANGED << buffered_proposals, panicked >>
  BY DEF follow
<1>8. Forwards(p, out, << >>) /\ Done(p, out)
  BY <1>2, <1>6, <1>12, ForwardsOne DEF Done, Ended, Handled
<1>9. Rested(p, storage[p], t)
  BY <1>2 DEF Rested
<1>10. PICK b : b = buffered_proposals[p]
  OBVIOUS
<1>11. Stores(p, t, b)
  BY <1>1, <1>7, <1>10, StoresSame DEF Stores
<1> QED BY <1>7, <1>8, <1>9, <1>10, <1>11, CarryQuiet

\* AcceptDecide and Decide.
LEMMA FollowingCarried ==
  ASSUME NEW h, From(h), NEW p \in Server, NEW q \in Peers(p), proposed' = proposed,
         handle_acceptdecide(p, q) \/ handle_decide(p, q)
  PROVE  Carried(p)
<1>1. PICK m, n, s0 : m = Head(net[q][p]) /\ n = storage[p].promise /\ s0 = storage[p] /\ s0 \in Storage
  BY FromFacts
<1>2. \A d, ents : /\ update_decided_idx(s0, d).accepted_round = s0.accepted_round
                   /\ update_decided_idx(append_entries_with_batching(s0, ents), d).accepted_round = s0.accepted_round
  <2> TAKE d, ents
  <2>1. PICK s : s = append_entries_with_batching(s0, ents)
    OBVIOUS
  <2>2. s0.accepted_round = s.accepted_round /\ DOMAIN s = DOMAIN s0
    BY <2>1 DEF append_entries_with_batching, flush_batch, append_entries_without_batching, Storage
  <2>3. "accepted_round" \in DOMAIN s0
    BY <1>1 DEF Storage
  <2>4. \A r : DOMAIN r = DOMAIN s0 => update_decided_idx(r, d).accepted_round = r.accepted_round
    BY <2>3 DEF update_decided_idx, flush_batch, append_entries_without_batching
  <2> QED BY <2>1, <2>2, <2>4
<1>3. CASE handle_acceptdecide(p, q)
  <2>1. PICK t, answers : follow(p, q, t, answers) /\ t.accepted_round = s0.accepted_round
    BY <1>1, <1>2, <1>3 DEF handle_acceptdecide
  <2>2. IncomingAccept(p, q, "AcceptDecide")
    BY <1>3 DEF handle_acceptdecide
  <2>3. Expects(h, p, q, m, n)
    BY <1>1, <2>2, FollowerExpects
  <2>4. t.accepted_round = n
    BY <1>1, <2>1, <2>3 DEF Expects
  <2> QED BY <2>1, <2>3, <2>4, FollowCarried
<1>4. CASE handle_decide(p, q)
  <2>1. PICK t, answers : follow(p, q, t, answers) /\ t.accepted_round = s0.accepted_round
    BY <1>1, <1>2, <1>4 DEF handle_decide
  <2>2. IncomingAccept(p, q, "Decide")
    BY <1>4 DEF handle_decide
  <2>3. Expects(h, p, q, m, n)
    BY <1>1, <2>2, FollowerExpects
  <2>4. t.accepted_round = n
    BY <1>1, <2>1, <2>3 DEF Expects
  <2> QED BY <2>1, <2>3, <2>4, FollowCarried
<1> QED BY <1>3, <1>4

\* Trimming takes away what is stored and decided.
LEMMA TrimCarried ==
  ASSUME NEW h, From(h), NEW p \in Server, proposed' = proposed,
         (\E idx : trim(p, idx)) \/ (\E q \in Peers(p) : handle_compaction(p, q))
  PROVE  Carried(p)
<1>1. TypeOK /\ Explains(h) /\ storage[p] \in Storage
  BY FromFacts
<1>2. PICK s, b : s = storage[p] /\ b = buffered_proposals[p]
  OBVIOUS
<1>3. ASSUME NEW idx, storage' = [storage EXCEPT ![p] = try_trim(s, idx)], UNCHANGED << buffered_proposals, panicked >>,
             NEW out, Done(p, out), Forwards(p, out, << >>)
      PROVE  Carried(p)
  <2>1. PICK t : t = try_trim(s, idx)
    OBVIOUS
  <2>2. Rested(p, s, t)
    BY <1>1, <1>2, <2>1 DEF try_trim, compact, Rested, Storage
  <2>3. Stores(p, t, b)
    BY <1>1, <1>2, <1>3, <2>1, StoresSame DEF Stores
  <2> QED BY <1>2, <1>3, <2>2, <2>3, CarryQuiet
<1>4. ASSUME NEW idx, trim(p, idx) PROVE Carried(p)
  <2>1. PICK msgs, out : msgs = [q \in Peers(p) |-> Compaction("Trim", idx)] /\ out = push(outgoing[p], msgs)
    OBVIOUS
  <2>4. \A y \in DOMAIN msgs : msgs[y].type # "ProposalForward"
    BY <2>1, ForwardsNothing
  <2>2. /\ storage' = [storage EXCEPT ![p] = try_trim(s, idx)] /\ Called(p, out)
        /\ UNCHANGED << buffered_proposals, panicked >>
    BY <1>2, <1>4, <2>1 DEF trim
  <2>3. Forwards(p, out, << >>) /\ Done(p, out)
    BY <2>1, <2>2, <2>4, ForwardsSome DEF Called, Done, Ended
  <2> QED BY <1>3, <2>2, <2>3
<1>5. ASSUME NEW q \in Peers(p), handle_compaction(p, q) PROVE Carried(p)
  <2>1. PICK m : m = Head(net[q][p])
    OBVIOUS
  <2>2. /\ net[q][p] # << >> /\ m.type = "Compaction"
        /\ storage' = [storage EXCEPT ![p] = IF m.kind = "Trim" THEN try_trim(s, m.idx) ELSE try_snapshot(s, m.idx)]
        /\ Handled(p, q, outgoing[p]) /\ UNCHANGED << buffered_proposals, panicked >>
    BY <1>2, <1>5, <2>1, Zenon DEF handle_compaction, Incoming
  <2>3. m.kind = "Trim"
    BY <1>1, <2>1, <2>2, HeadOK DEF MsgOK
  <2>4. PICK out : out = outgoing[p]
    OBVIOUS
  <2>5. Forwards(p, out, << >>) /\ Done(p, out)
    BY <1>1, <2>2, <2>4, ForwardsNone, NothingWaits DEF Handled, Done, Ended, Peers
  <2> QED BY <1>3, <2>2, <2>3, <2>5
<1> QED BY <1>4, <1>5

\* What a server buffered or batched is lost when it restarts.
LEMMA RestartCarried ==
  ASSUME NEW h, From(h), NEW p \in Server, restart(p)
  PROVE  Carried(p)
<1>1. /\ TypeOK /\ h \in History /\ storage[p] \in Storage /\ LogOK(h, p, storage[p]) /\ BatchOK(h, p, storage[p])
      /\ outgoing[p] = NoMessages
  BY FromFacts
<1>2. PICK s, b : s = load_cache(storage[p]) /\ b = << >>
  OBVIOUS
<1>3. PICK msgs, out : msgs = [q \in Peers(p) |-> PrepareReq(s.promise)] /\ out = push(outgoing[p], msgs)
  OBVIOUS
<1>8. \A y \in DOMAIN msgs : msgs[y].type # "ProposalForward"
  BY <1>3, ForwardsNothing
<1>4. /\ storage' = [storage EXCEPT ![p] = s] /\ buffered_proposals' = [buffered_proposals EXCEPT ![p] = b]
      /\ panicked' = panicked \ {p} /\ proposed' = proposed /\ Called(p, out)
  BY <1>1, <1>2, <1>3 DEF restart
<1>5. Loses(storage[p], s)
  BY <1>1, <1>2, LoadLoses
<1>6. Rested(p, storage[p], s) /\ Stores(p, s, b)
  BY <1>4, <1>5 DEF Rested, Loses, Stores
<1>7. Forwards(p, out, << >>) /\ Done(p, out)
  BY <1>3, <1>4, <1>8, ForwardsSome DEF Called, Done, Ended
<1> QED BY <1>2, <1>4, <1>6, <1>7, CarryQuiet

\* A follower forwards what it buffered, and says what it accepted.
LEMMA HandleAcceptSyncCarried ==
  ASSUME NEW h, From(h), NEW p \in Server, NEW q \in Peers(p), handle_acceptsync(p, q), proposed' = proposed
  PROVE  Carried(p)
<1> DEFINE m0 == Head(net[q][p])
           s0 == sync_log(storage[p], m0.n, m0.decided_idx, m0.log_sync)
           forwards == s0.stopsign = None /\ buffered_proposals[p] # << >>
           out0 == IF forwards THEN forward_proposals_outgoing(p, outgoing[p], buffered_proposals[p])
                               ELSE outgoing[p]
<1>1. /\ IncomingAccept(p, q, "AcceptSync")
      /\ IF sync_log_panics(storage[p], m0.decided_idx, m0.log_sync)
           THEN Panic(p, q) /\ UNCHANGED storage
           ELSE /\ storage' = [storage EXCEPT ![p] = s0]
                /\ buffered_proposals' = IF forwards /\ knows_other_leader(p)
                                           THEN [buffered_proposals EXCEPT ![p] = << >>]
                                           ELSE buffered_proposals
                /\ Handled(p, q, send(out0, q, Accepted(m0.n, s0.accepted_idx)))
                /\ UNCHANGED << leader_state, buffered_stopsign, panicked >>
  BY Zenon DEF handle_acceptsync
<1>2. PICK m, n, sync, t, b, bp : /\ m = m0 /\ n = storage[p].promise /\ sync = m.log_sync /\ t = s0
                                  /\ bp = buffered_proposals[p] /\ b = IF forwards THEN << >> ELSE bp
  OBVIOUS
<1>3. /\ TypeOK /\ Explains(h) /\ Plain /\ h \in History /\ storage[p] \in Storage
      /\ outgoing[p] = NoMessages /\ bp \in Entries
  BY <1>2, FromFacts DEF TypeOK
<1>4. SyncsWith(h, p, q, m, n, sync)
  BY <1>1, <1>2, SyncArrives
<1>5. /\ net[q][p] # << >> /\ p \notin panicked /\ m.n = n /\ n = storage[p].promise /\ n.pid = q /\ q # p
      /\ storage[p].batched_entries = << >> /\ n \in Ballot /\ q \in Server
  BY <1>4 DEF SyncsWith, Peers
<1>6. knows_other_leader(p) /\ get_current_leader(p) = q
  BY <1>5, ServerAssumption DEF knows_other_leader, get_current_leader
<1>7. CASE sync_log_panics(storage[p], m0.decided_idx, m0.log_sync)
  <2>1. net' = Consume(p, q) /\ panicked' = panicked \cup {p} /\ UNCHANGED << storage, buffered_proposals >>
    BY <1>1, <1>7 DEF Panic
  <2> QED BY <1>5, <2>1, ConsumeCarried
<1>8. CASE ~ sync_log_panics(storage[p], m0.decided_idx, m0.log_sync)
  <2>1. PICK x, k, out : /\ x = Accepted(n, t.accepted_idx) /\ k = ProposalForward(bp)
                         /\ out = send(out0, q, Accepted(m0.n, s0.accepted_idx))
    OBVIOUS
  <2>2. out = send(IF forwards THEN send(NoMessages, q, k) ELSE NoMessages, q, x)
    BY <1>2, <1>3, <1>5, <1>6, <2>1 DEF forward_proposals_outgoing
  <2>3. storage' = [storage EXCEPT ![p] = t] /\ Handled(p, q, out) /\ panicked' = panicked
    BY <1>1, <1>2, <1>8, <2>1
  <2>4. buffered_proposals' = [buffered_proposals EXCEPT ![p] = b]
    BY <1>1, <1>2, <1>3, <1>6, <1>8, StoresSame
  <2>5. t.accepted_round = n /\ t.accepted_idx \in Nat
    <3>1. n \in Ballot /\ m.decided_idx \in Nat /\ sync \in LogSync /\ Joins(h.rlog[storage[p].accepted_round], h.rlog[n], storage[p], sync)
      BY <1>4, SyncJoins DEF SyncsWith
    <3>2. PICK s, a, c, d : /\ s = storage[p] /\ a = h.rlog[storage[p].accepted_round] /\ c = h.rlog[n]
                            /\ d = m.decided_idx
      OBVIOUS
    <3>3. s \in Storage /\ a \in Entries /\ c \in Entries /\ d \in Nat
      BY <1>3, <3>1, <3>2, StorageFields, HistoryFields
    <3>4. /\ ~ sync_log_panics(s, d, sync) /\ Joins(a, c, s, sync) /\ t = sync_log(s, n, d, sync)
      BY <1>2, <1>5, <1>8, <3>1, <3>2
    <3>5. Synced(c, s, t, n, d, sync.sync_idx + Len(sync.suffix))
      BY <1>3, <3>1, <3>3, <3>4, SyncLogFields
    <3> QED BY <3>5, StorageFields DEF Synced
  <2>6. Stores(p, t, b)
    BY <2>3, <2>4 DEF Stores
  <2>7. Done(p, out)
    BY <1>5, <2>3 DEF Done, Ended, Handled
  <2>8. storage'[p] = t /\ Buffer(p) = bp /\ Buffer(p)' = b
    BY <1>2, <1>3, <1>5, <2>3, <2>4 DEF Buffer, TypeOK
  <2>9. Batch(p) = << >> /\ Batch(p)' = << >>
    BY <1>5, <2>5, <2>8 DEF Batch
  <2>10. PICK e \in Entries : e = << >>
    BY EmptySeq DEF Entries
  <2>11. Arrives(p, e) /\ Writes(p, e) /\ proposed \subseteq proposed'
    BY <1>5, <2>5, <2>8, <2>10 DEF Arrives, Writes
  <2>12. x \in Message /\ x.type # "ProposalForward" /\ k \in Message
    BY <1>3, <1>5, <2>1, <2>5 DEF Accepted, ProposalForward, Message
  <2> HIDE DEF m0, s0, out0
  <2>13. CASE forwards
    <3>1. out = send(send(NoMessages, q, k), q, x)
      BY <2>2, <2>13
    <3>2. \A y \in Server : out[y] = IF y = q THEN << k, x >> ELSE << >>
      BY <1>3, <1>5, <2>12, <3>1, TwoSends
    <3>3. Forwards(p, out, bp)
      BY <1>6, <2>1, <2>12, <3>2 DEF Forwards, Peers
    <3>4. Hands(Buffer(p), Batch(p), e, Buffer(p)', Batch(p)', bp, e)
      BY <1>2, <2>8, <2>9, <2>10, <2>13 DEF Hands
    <3> QED BY <1>3, <2>6, <2>7, <2>10, <2>11, <3>3, <3>4, CarryOn
  <2>14. CASE ~ forwards
    <3>1. out = send(outgoing[p], q, x)
      BY <1>3, <2>2, <2>14
    <3>2. Forwards(p, out, e)
      BY <2>10, <2>12, <3>1, ForwardsOne
    <3>3. Hands(Buffer(p), Batch(p), e, Buffer(p)', Batch(p)', e, e)
      BY <1>2, <2>8, <2>9, <2>10, <2>14 DEF Hands
    <3> QED BY <2>6, <2>7, <2>10, <2>11, <3>2, <3>3, CarryOn
  <2> QED BY <2>13, <2>14
<1> QED BY <1>7, <1>8

------------------------------------------------------------------------------
(* So it is in every reachable state *)

\* Every handler of a message carries the entries on.
LEMMA HandleCarried ==
  ASSUME NEW h, From(h), NEW p \in Server, NEW q \in Peers(p), handle(p, q)
  PROVE  Carried(p)
<1>1. /\ Plain /\ TypeOK /\ Explains(h) /\ proposed' = proposed
  BY FromFacts DEF handle
<1>2. CASE handle_preparereq(p, q) \/ handle_notaccepted(p, q)
  BY <1>1, <1>2, ForgettingCarried
<1>3. CASE handle_prepare(p, q)
  BY <1>1, <1>3, HandlePrepareCarried
<1>4. CASE handle_promise_prepare(p, q)
  BY <1>1, <1>4, PromisePrepareCarried
<1>5. CASE handle_promise_accept(p, q)
  BY <1>1, <1>5, PromiseAcceptCarried
<1>6. CASE handle_acceptsync(p, q)
  BY <1>1, <1>6, HandleAcceptSyncCarried
<1>7. CASE handle_acceptdecide(p, q) \/ handle_decide(p, q)
  BY <1>1, <1>7, FollowingCarried
<1>8. CASE handle_accepted(p, q)
  BY <1>1, <1>8, HandleAcceptedCarried
<1>9. CASE handle_forwarded_proposal(p, q)
  BY <1>1, <1>9, ForwardedCarried
<1>10. CASE handle_compaction(p, q)
  BY <1>1, <1>10, TrimCarried
<1>11. ASSUME net[q][p] # << >>, Head(net[q][p]).type \in {"AcceptStopSign", "ForwardStopSign"}
       PROVE  FALSE
  <2>1. PICK m \in Message : m = Head(net[q][p])
    BY <1>1, <1>11, HeadOK
  <2>2. m.ss \in StopSign
    BY <1>11, <2>1 DEF Message, PromiseMessage
  <2> QED BY <1>1, <2>2 DEF Plain
<1>12. ~ handle_accept_stopsign(p, q) /\ ~ handle_forwarded_stopsign(p, q)
  BY <1>11 DEF handle_accept_stopsign, handle_forwarded_stopsign, IncomingAccept, Incoming
<1>13. CASE reject_ballot(p, q) \/ dropped_preceding(p, q)
  BY <1>1, <1>13, RefusalsCarried
<1>14. CASE ignore(p, q)
  <2>1. /\ net[q][p] # << >> /\ net' = Consume(p, q)
        /\ UNCHANGED << storage, buffered_proposals, panicked >>
    BY <1>14 DEF ignore, Discard, serverVars
  <2> QED BY <1>1, <2>1, ConsumeCarried
<1> QED BY <1>2, <1>3, <1>4, <1>5, <1>6, <1>7, <1>8, <1>9, <1>10, <1>12, <1>13, <1>14 DEF handle

\* And so does every step.
LEMMA StepCarried ==
  ASSUME NEW h, From(h), AnyStep
  PROVE  \E p \in Server : Carried(p)
<1>1. Plain /\ TypeOK /\ Ballots \subseteq Ballot
  BY PaxosAssumption DEF From, Explains, Inv
<1>2. ASSUME NEW p \in Server, NEW n \in Ballot, handle_leader(p, n) PROVE Carried(p)
  BY <1>2, HandleLeaderCarried
<1>3. ASSUME NEW p \in Server, NEW q \in Peers(p), handle(p, q) PROVE Carried(p)
  BY <1>3, HandleCarried
<1>4. ASSUME NEW p \in Server, NEW v \in Value, append(p, v) PROVE Carried(p)
  BY <1>4, AppendCarried
<1>5. ASSUME NEW p \in Server, NEW idx, trim(p, idx) PROVE Carried(p)
  <2>1. proposed' = proposed
    BY <1>5 DEF trim
  <2> QED BY <1>5, <2>1, TrimCarried
<1>6. ASSUME NEW p \in Server, NEW local_only, NEW idx, snapshot(p, idx, local_only) PROVE FALSE
  BY <1>1, <1>6 DEF snapshot, Plain
<1>7. ASSUME NEW p \in Server, resend_message_timeout(p) PROVE Carried(p)
  <2>1. /\ resend_messages_leader(p) \/ resend_messages_follower(p)
        /\ UNCHANGED << storage, buffered_proposals, proposed, panicked >>
    BY <1>7 DEF resend_message_timeout
  <2> QED BY <2>1, ResendLeaderCarried, ResendFollowerCarried
<1>8. ASSUME NEW p \in Server, flush_batch_timeout(p) PROVE Carried(p)
  <2>1. /\ p \notin panicked /\ (flush_batch_leader(p) \/ flush_batch_follower(p))
        /\ UNCHANGED << buffered_proposals, panicked, proposed >>
    BY <1>8 DEF flush_batch_timeout
  <2> QED BY <2>1, FlushTimeoutCarried
<1>9. ASSUME NEW p \in Server, NEW q \in Peers(p), user_reconnected(p, q) PROVE Carried(p)
  <2>1. proposed' = proposed
    BY <1>9 DEF user_reconnected
  <2> QED BY <1>9, <2>1, RefusalsCarried
<1>10. ASSUME NEW p \in Server, take_outgoing_msgs(p) PROVE FALSE
  BY <1>1, <1>10 DEF take_outgoing_msgs, Plain
<1>11. ASSUME NEW p \in Server, NEW q \in Peers(p), drop(p, q) PROVE Carried(p)
  <2>1. /\ net[q][p] # << >> /\ net' = Consume(p, q)
        /\ UNCHANGED << storage, buffered_proposals, proposed, panicked >>
    BY <1>11 DEF drop, serverVars
  <2> QED BY <2>1, ConsumeCarried
<1>12. ASSUME NEW p \in Server, restart(p) PROVE Carried(p)
  BY <1>12, RestartCarried
<1>13. \A p \in Server, ss \in StopSign : FALSE
  BY <1>1 DEF Plain
<1> QED BY <1>1, <1>2, <1>3, <1>4, <1>5, <1>6, <1>7, <1>8, <1>9, <1>10, <1>11, <1>12, <1>13 DEF AnyStep, Next

\* Some history explains the state, and has no value twice in a round.
Traced == \E h : Explains(h) /\ Unique(h)

\* At first nothing waits.
LEMMA InitTraced == Plain /\ Init => Traced
<1> SUFFICES ASSUME Plain, Init PROVE Traced
  OBVIOUS
<1>1. PICK h : Explains(h) /\ \A r \in Ballot : h.rlog[r] = << >>
  BY InitExplains
<1>2. ASSUME NEW a \in Place PROVE Waiting(a) = << >>
  <2>1. a[1] \in Server /\ a[2] \in Server
    BY DEF Place
  <2>2. net[a[1]][a[2]] = << >> /\ buffered_proposals[a[1]] = << >> /\ storage[a[1]].batched_entries = << >>
    BY <2>1 DEF Init, NoMessages, EmptyStorage
  <2>3. InTransit(<< >>, a[3]) = << >>
    BY DEF InTransit
  <2> QED BY <2>1, <2>2, <2>3 DEF Waiting, Buffer, Batch
<1>3. NoRepeat(<< >>) /\ Among(<< >>, Made) /\ Apart(<< >>, << >>)
  BY DEF NoRepeat, Among, Apart
<1>4. Unique(h)
  BY <1>1, <1>2, <1>3 DEF Unique, Tidy
<1> QED BY <1>1, <1>4 DEF Traced

\* Every step leads from such a state to such a state.
LEMMA StepTraced ==
  ASSUME OneProposer, Inv, [AnyStep]_vars, Traced
  PROVE  Traced'
<1>1. PICK h : Explains(h) /\ Unique(h)
  BY DEF Traced
<1>2. CASE UNCHANGED vars
  <2>1. Succeeds(h, h)
    BY <1>1, <1>2, StutterExplained
  <2>2. /\ \A a : Waiting(a)' = Waiting(a)
        /\ Made' = Made
    BY <1>2 DEF vars, serverVars, Waiting, InTransit, Buffer, Batch, Made
  <2>3. Unique(h)'
    BY <1>1, <2>2 DEF Unique, Tidy
  <2> QED BY <2>1, <2>3 DEF Traced, Succeeds
<1>3. CASE ~ UNCHANGED vars
  <2>1. From(h) /\ AnyStep
    BY <1>1, <1>3, AnyStepOK DEF From
  <2>2. PICK p \in Server : Carried(p)
    BY <2>1, StepCarried
  <2>3. PICK g : Succeeds(h, g)
    BY <1>1, AnyStepSucceeds
  <2>4. Unique(g)'
    BY <1>1, <2>1, <2>2, <2>3, UniqueKept DEF Carried
  <2> QED BY <2>3, <2>4 DEF Traced, Succeeds
<1> QED BY <1>2, <1>3

\* What is stored is in the log of a round, or waits in a leader's batch.
LEMMA TracedHolds == Inv /\ Traced => NoDuplicates
<1> SUFFICES ASSUME Inv, NEW h, Explains(h), Unique(h), NEW p \in Server
             PROVE  NoRepeat(storage[p].log \o storage[p].batched_entries)
                    /\ storage[p].log \o storage[p].batched_entries \in Entries
  <2>1. \A a \in Entries : NoRepeat(a) => \A i, j \in DOMAIN a : a[i] = a[j] => i = j
    BY LenProperties DEF NoRepeat, Entries
  <2> QED BY <2>1 DEF Traced, NoDuplicates
<1>1. PICK s, r, a : s = storage[p] /\ r = s.accepted_round /\ a = h.rlog[r]
  OBVIOUS
<1>2. /\ TypeOK /\ h \in History /\ s \in Storage /\ LogOK(h, p, s) /\ BatchOK(h, p, s)
  BY <1>1 DEF Inv, TypeOK, Explains, LogInv
<1>3. /\ r \in Ballot /\ a \in Entries /\ s.compacted_idx \in Nat /\ s.log \in Entries /\ s.batched_entries \in Entries
  BY <1>1, <1>2, StorageFields, HistoryFields
<1>4. Segment(a, s.compacted_idx, s.log) /\ s.accepted_idx = s.compacted_idx + Len(s.log)
  BY <1>1, <1>2 DEF LogOK
<1>5. NoRepeat(a) /\ \A x \in Place : NoRepeat(Waiting(x)) /\ Apart(Waiting(x), a)
  BY <1>1, <1>3 DEF Unique, Tidy
<1>6. ASSUME NEW k \in Nat, NEW b \in Entries, Segment(a, k, b)
      PROVE  NoRepeat(b)
  <2>1. Len(a) \in Nat /\ Len(b) \in Nat
    BY <1>3, LenProperties DEF Entries
  <2>2. \A i \in 1 .. Len(b) : k + i \in 1 .. Len(a) /\ a[k + i] = b[i]
    BY <1>6, <2>1 DEF Segment
  <2> SUFFICES ASSUME NEW i \in 1 .. Len(b), NEW j \in 1 .. Len(b), b[i] = b[j] PROVE i = j
    BY DEF NoRepeat
  <2>3. k + i = k + j
    BY <1>5, <2>2 DEF NoRepeat
  <2> QED BY <2>1, <2>3
<1>7. CASE r.pid # p
  <2>1. Segment(a, s.accepted_idx, s.batched_entries)
    BY <1>1, <1>2, <1>7 DEF BatchOK
  <2>2. s.log \o s.batched_entries \in Entries /\ Segment(a, s.compacted_idx, s.log \o s.batched_entries)
    BY <1>3, <1>4, <2>1, SegmentConcat
  <2> QED BY <1>1, <1>3, <1>6, <2>2
<1>8. CASE r.pid = p
  <2>1. PICK x : x = << p, p, 1 >>
    OBVIOUS
  <2>2. x \in Place /\ Waiting(x) = s.batched_entries
    BY <1>1, <1>8, <2>1 DEF Place, Waiting, Batch
  <2>3. PICK b : b = s.batched_entries /\ b \in Entries
    BY <1>3
  <2>4. NoRepeat(b) /\ Apart(b, a)
    BY <1>5, <2>2, <2>3
  <2>5. NoRepeat(s.log)
    BY <1>3, <1>4, <1>6
  <2>6. Apart(s.log, b)
    <3>1. Len(a) \in Nat /\ Len(s.log) \in Nat
      BY <1>3, LenProperties DEF Entries
    <3>2. \A i \in 1 .. Len(s.log) : s.compacted_idx + i \in 1 .. Len(a) /\ a[s.compacted_idx + i] = s.log[i]
      BY <1>3, <1>4, <3>1 DEF Segment
    <3> QED BY <2>4, <3>2 DEF Apart
  <2> QED BY <1>1, <1>3, <2>3, <2>4, <2>5, <2>6, ConcatApart
<1> QED BY <1>7, <1>8

\* A value that one server proposes, and once only, is never twice in a log,
\* although proposals are buffered, forwarded, batched and synchronised.
THEOREM NoDuplicatesTheorem == Plain /\ OneProposer /\ Spec => []NoDuplicates
<1>1. Plain /\ Init => Traced
  BY InitTraced
<1>2. OneProposer /\ Inv /\ [Next]_vars /\ Traced => Traced'
  BY StepTraced DEF AnyStep
<1>3. Inv /\ Traced => NoDuplicates
  BY TracedHolds
<1>4. OneProposer => OneProposer'
  BY DEF OneProposer
<1> QED BY <1>1, <1>2, <1>3, <1>4, Invariance, PTL DEF Spec

\* Nor twice in a log of the service, whatever ballots the election comes up with.
THEOREM ServiceNoDuplicatesTheorem == Plain /\ OneProposer /\ OmniSpec => []NoDuplicates
<1>1. Plain /\ OmniInit => Traced
  BY ServiceInitOK, InitTraced
<1>2. OneProposer /\ ServiceInv /\ [OmniNext]_omniVars /\ Traced => Traced'
  BY ServiceStepOK, StepTraced DEF ServiceInv
<1>3. ServiceInv /\ Traced => NoDuplicates
  BY TracedHolds DEF ServiceInv
<1>4. OneProposer => OneProposer'
  BY DEF OneProposer
<1> QED BY <1>1, <1>2, <1>3, <1>4, ServiceInvariance, PTL DEF OmniSpec
==============================================================================
