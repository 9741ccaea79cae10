--------------------------- MODULE AgreementProofs ---------------------------
(***************************************************************************)
(* Why the servers of SequencePaxos agree on their logs, second part: for  *)
(* every action of a follower, and for compaction and recovery, the        *)
(* history that explains the state it leads to; and the theorems, those    *)
(* on what a user reads (LogReads) among them.                             *)
(***************************************************************************)
EXTENDS HistoryProofs, LogReads

------------------------------------------------------------------------------
(* Promising and following *)

\* create_log_sync of s from an index on.
SyncFrom(s, from, d, sync) == ~ create_log_sync_panics(s, from) /\ sync = create_log_sync(s, from, d)

\* The part of its log that p sends with a promise fits behind the log of the
\* leader q, whose storage is t.
LEMMA PromiseAdopts ==
  ASSUME NEW p \in Server, NEW h, NEW g, Step(p, h, g), Accepts(p, h, g), Founds(h, g),
         NEW q \in Peers(p), NEW t, t = storage[q], NEW u \in Storage, LogOK(g, p, u),
         greater_meta(Meta(u), Meta(t)),
         NEW from, from = IF t.accepted_round \prec u.accepted_round THEN t.decided_idx ELSE t.accepted_idx,
         NEW d, NEW sync, SyncFrom(u, from, d, sync)
  PROVE  AdoptOK(g, t, Meta(u), sync)
<1>1. /\ TypeOK /\ h \in History /\ g \in History /\ Grows(p, h, g) /\ Explains(h) /\ Plain
      /\ q \in Server /\ q # p /\ t \in Storage
  BY StepFacts DEF Step, Peers, Explains
<1>2. PICK r, k : r = t.accepted_round /\ k = u.accepted_round
  OBVIOUS
<1>3. /\ r \in Ballot /\ k \in Ballot /\ t.accepted_idx \in Nat /\ t.decided_idx \in Nat /\ u.accepted_idx \in Nat
      /\ u.compacted_idx \in Nat /\ Len(u.log) \in Nat /\ u.log \in Entries
      /\ g.rlog[r] \in Entries /\ g.rlog[k] \in Entries /\ Len(g.rlog[r]) \in Nat /\ Len(g.rlog[k]) \in Nat
      /\ g.base[k] \in Nat /\ g.acc[q][r] \in Nat /\ h.acc[q][r] \in Nat
  BY <1>1, <1>2, StorageFields, HistoryFields
<1>4. LogOK(h, q, t)
  BY <1>1 DEF Explains, LogInv
<1>5. /\ r \in h.est \cup {DefaultBallot} /\ h.acc[q][r] = t.accepted_idx
      /\ t.decided_idx <= t.accepted_idx /\ DecidedIn(h, r, t.decided_idx)
  BY <1>2, <1>4 DEF LogOK
<1>6. r \in g.est \cup {DefaultBallot} /\ DecidedIn(g, r, t.decided_idx)
  BY <1>1, <1>3, <1>5, GrowsKeeps, ChosenGrows
<1>7. /\ u.accepted_idx = u.compacted_idx + Len(u.log) /\ Segment(g.rlog[k], u.compacted_idx, u.log)
      /\ k \in g.est \cup {DefaultBallot} /\ u.stopsign = None
  BY <1>2 DEF LogOK
<1>8. k \in g.est => g.base[k] <= u.accepted_idx
  BY <1>2 DEF LogOK
<1>9. VoteInv(g)' /\ ChosenInv(g)
  BY RoundsKept, ChosenFirst
<1>10. g.acc[q][r] = t.accepted_idx
  BY <1>1, <1>3, <1>5 DEF Grows
<1>11. t.accepted_idx <= Len(g.rlog[r])
  BY <1>1, <1>3, <1>9, <1>10 DEF VoteInv
<1>12. \/ r \prec k /\ from = t.decided_idx
       \/ r = k /\ t.accepted_idx < u.accepted_idx /\ from = t.accepted_idx
  BY <1>2, <1>3, BallotIrreflexive DEF greater_meta, Meta
<1>13. /\ from \in Nat /\ from <= u.accepted_idx /\ from <= t.accepted_idx
       /\ Agree(g.rlog[r], g.rlog[k], from)
  <2>1. CASE r \prec k /\ from = t.decided_idx
    <3>1. k # DefaultBallot
      BY <1>3, <2>1, DefaultBallotSmallest, BallotAsymmetric
    <3>2. k \in g.est
      BY <1>7, <3>1
    <3>3. t.decided_idx <= g.base[k] /\ Agree(g.rlog[r], g.rlog[k], t.decided_idx)
      BY <1>1, <1>3, <1>6, <1>9, <2>1, <3>2, DecidedAgree
    <3> QED BY <1>3, <1>5, <1>8, <2>1, <3>2, <3>3
  <2>2. CASE r = k /\ t.accepted_idx < u.accepted_idx /\ from = t.accepted_idx
    <3>1. Agree(g.rlog[r], g.rlog[r], t.accepted_idx)
      BY <1>3, <1>11, AgreeSelf
    <3> QED BY <1>3, <2>2, <3>1
  <2> QED BY <1>12, <2>1, <2>2
<1>14. PICK a : a = g.rlog[k]
  OBVIOUS
<1>15. /\ sync.decided_snapshot.kind = "None" /\ sync.sync_idx = from
       /\ sync.sync_idx + Len(sync.suffix) = u.accepted_idx
       /\ Segment(a, sync.sync_idx, sync.suffix)
  <2>1. ~ create_log_sync_panics(u, from) /\ sync = create_log_sync(u, from, d)
    BY DEF SyncFrom
  <2>2. Segment(a, u.compacted_idx, u.log) /\ a \in Entries
    BY <1>3, <1>7, <1>14
  <2>3. u.accepted_idx = u.compacted_idx + Len(u.log) /\ u.stopsign = None
    BY <1>7
  <2>4. from \in Nat /\ from <= u.accepted_idx
    BY <1>13
  <2> QED BY <1>1, <2>1, <2>2, <2>3, <2>4, LogSyncFields
<1>16. PICK meta : meta = Meta(u) /\ meta.n_accepted = k /\ meta.accepted_idx = u.accepted_idx
  BY <1>2 DEF Meta
<1>17. AdoptOK(g, t, meta, sync)
  BY <1>2, <1>13, <1>14, <1>15, <1>16 DEF AdoptOK
<1> QED BY <1>16, <1>17

\* The log of the leader is behind u, and from where on.
Behind(m, u) ==
  m.n_accepted \prec u.accepted_round \/ (m.n_accepted = u.accepted_round /\ m.accepted_idx < u.accepted_idx)
MissingFrom(m, u) == IF m.n_accepted \prec u.accepted_round THEN m.decided_idx ELSE m.accepted_idx

\* What the promise that answers the Prepare m brings.
Brings(m, u, sync) ==
  \/ ~ Behind(m, u) /\ sync = None
  \/ Behind(m, u) /\ SyncFrom(u, MissingFrom(m, u), m.decided_idx, sync)

\* The promise is as the history tells.
LEMMA PromiseGiven ==
  ASSUME NEW p \in Server, NEW h, NEW g, Step(p, h, g), Accepts(p, h, g), Founds(h, g),
         NEW q \in Peers(p), NEW u \in Storage, storage'[p] = u, LogOK(g, p, u),
         NEW m \in Message, m.type = "Prepare", PrepareMsgOK(q, m), m.n = u.promise,
         NEW sync, Brings(m, u, sync), NEW promise, promise = Promise(m.n, u, sync)
  PROVE  promise \in PromiseMessage /\ promise.type = "Promise" /\ promise.n = m.n /\ PromiseOK(g, p, q, promise)'
<1>1. PICK n, meta, from : n = m.n /\ meta = Meta(u) /\ from = MissingFrom(m, u)
  OBVIOUS
<1>2. /\ m.n \in Ballot /\ m.n_accepted \in Ballot /\ m.accepted_idx \in Nat /\ m.decided_idx \in Nat
      /\ from \in Nat
  BY <1>1, MessageFields DEF MissingFrom
<1>3. /\ u.accepted_round \in Ballot /\ u.accepted_idx \in Nat /\ u.decided_idx \in Nat
      /\ meta.n_accepted = u.accepted_round /\ meta.accepted_idx = u.accepted_idx /\ meta.decided_idx = u.decided_idx
  BY <1>1, StorageFields DEF Meta
<1>4. StorageOK(u)
  BY DEF StorageOK, LogOK
<1>5. sync \in LogSync \cup {None} /\ (sync = None <=> ~ Behind(m, u))
  <2>1. CASE ~ Behind(m, u) /\ sync = None
    BY <2>1
  <2>2. CASE Behind(m, u) /\ SyncFrom(u, from, m.decided_idx, sync)
    <3>1. ~ create_log_sync_panics(u, from) /\ sync = create_log_sync(u, from, m.decided_idx)
      BY <2>2 DEF SyncFrom
    <3>2. sync \in LogSync
      BY <1>2, <1>4, <3>1, CreateLogSyncType
    <3> QED BY <2>2, <3>2, NoneAssumption
  <2> QED BY <1>1, <2>1, <2>2 DEF Brings
<1>6. /\ promise \in PromiseMessage /\ promise.type = "Promise" /\ promise.n = n /\ promise.log_sync = sync
      /\ PromiseMeta(promise) = meta
  BY <1>1, <1>2, <1>3, <1>5 DEF Promise, PromiseMessage, PromiseMeta, Meta
<1>7. MetaOK(g, p, n, meta)'
  BY <1>1, OwnMetaOK
<1>8. /\ q \in Server /\ storage'[q] = storage[q] /\ state'[q] = state[q] /\ (q \in panicked' <=> q \in panicked)
      /\ storage[q] \in Storage
  BY StepFacts DEF Peers, Moves, Same
<1>9. n.pid = q /\ n \preceq storage'[q].promise
  BY <1>1, <1>8 DEF PrepareMsgOK
<1>10. PICK t : t = storage[q]
  OBVIOUS
<1>11. t \in Storage /\ t.accepted_round \in Ballot /\ t.accepted_idx \in Nat
  BY <1>8, <1>10, StorageFields
<1>12. ASSUME Prepares(q, n)'
       PROVE  /\ sync = None => ~ greater_meta(meta, Meta(t))
              /\ sync # None => AdoptOK(g, t, meta, sync)
  <2>1. Prepares(q, n)
    BY <1>8, <1>12 DEF Prepares
  <2>2. /\ m.n_accepted = t.accepted_round /\ m.accepted_idx = t.accepted_idx /\ m.decided_idx = t.decided_idx
    BY <1>1, <1>10, <2>1 DEF PrepareMsgOK
  <2>3. Behind(m, u) <=> greater_meta(meta, Meta(t))
    BY <1>3, <1>11, <2>2 DEF Behind, greater_meta, Meta
  <2>4. ASSUME sync # None PROVE AdoptOK(g, t, meta, sync)
    <3>1. Behind(m, u) /\ SyncFrom(u, from, m.decided_idx, sync) /\ greater_meta(Meta(u), Meta(t))
      BY <1>1, <1>5, <2>3, <2>4 DEF Brings
    <3>2. from = IF t.accepted_round \prec u.accepted_round THEN t.decided_idx ELSE t.accepted_idx
      BY <1>1, <2>2 DEF MissingFrom
    <3>3. PICK d : d = m.decided_idx
      OBVIOUS
    <3>4. AdoptOK(g, t, Meta(u), sync)
      BY <1>10, <3>1, <3>2, <3>3, PromiseAdopts
    <3> QED BY <1>1, <3>4
  <2> QED BY <1>5, <2>3, <2>4
<1>13. PromiseOK(g, p, q, promise)'
  <2>1. storage'[q] = t
    BY <1>8, <1>10
  <2>2. Prepares(q, n)' => (sync = None => ~ greater_meta(meta, Meta(t))) /\ (sync # None => AdoptOK(g, t, meta, sync))
    BY <1>12
  <2>3. AdoptOK(g, t, meta, sync) => AdoptOK(g, storage[q], PromiseMeta(promise), promise.log_sync)'
    BY <1>6, <2>1 DEF AdoptOK
  <2>4. ~ greater_meta(meta, Meta(t)) => ~ greater_meta(PromiseMeta(promise), Meta(storage[q]))'
    BY <1>6, <2>1
  <2>5. MetaOK(g, p, promise.n, PromiseMeta(promise))'
    BY <1>6, <1>7
  <2> QED BY <1>6, <1>9, <2>2, <2>3, <2>4, <2>5 DEF PromiseOK
<1> QED BY <1>1, <1>6, <1>13

\* p stores u, and leads no more: it has answered a Prepare, or panicked.
Answers(p, u) ==
  /\ storage'[p] = u /\ leader_state'[p] = leader_state[p]
  /\ follower_state'[p].latest_accepted_meta = follower_state[p].latest_accepted_meta
  /\ (p \in panicked' /\ state'[p] = state[p]) \/ state'[p] = << "Follower", "Prepare" >>
  /\ \A y \in Peers(p) : Same(y)

\* It is a step.
LEMMA AnswerStep ==
  ASSUME NEW h, From(h), NEW p \in Server, NEW k \in Ballot, storage[p].promise \preceq k,
         NEW u, Promises(p, k, u), NEW g, Flushes(p, h, g, u), Answers(p, u)
  PROVE  Step(p, h, g) /\ Accepts(p, h, g) /\ Founds(h, g)
<1>1. /\ u \in Storage /\ u.promise = k /\ u.accepted_round = storage[p].accepted_round
  BY NewPromise
<1>2. storage'[p] = u /\ \A y \in Peers(p) : Same(y)
  BY DEF Answers
<1>3. \A n \in Ballot : ~ (Leads(p, n)') /\ ~ (Prepares(p, n)')
  <2>1. p \in panicked' \/ state'[p] = << "Follower", "Prepare" >>
    BY DEF Answers
  <2> QED BY <2>1 DEF Leads, Prepares
<1>4. Moves(p)
  BY <1>1, <1>2, <1>3 DEF Moves
<1>5. Inv /\ Inv' /\ RoundsStep /\ Explains(h)
  BY DEF From
<1>6. Step(p, h, g)
  BY <1>4, <1>5 DEF Step, Flushes
<1> QED BY <1>2, <1>6, FlushAccepts

\* The history explains the state that follows.
LEMMA AnswerExplained ==
  ASSUME NEW h, From(h), NEW p \in Server, NEW k \in Ballot, storage[p].promise \preceq k,
         NEW u, Promises(p, k, u), NEW g, Flushes(p, h, g, u), Answers(p, u),
         outgoing' = [x \in Server |-> NoMessages],
         NEW out, Delivers(p, out), SendsOK(p, g, out), KeptPromiseOK(g, p)'
  PROVE  Succeeds(h, g)
<1>1. /\ u \in Storage /\ u.promise = k /\ u.accepted_round = storage[p].accepted_round /\ u.batched_entries = << >>
      /\ u.accepted_idx = storage[p].accepted_idx + Len(storage[p].batched_entries)
  BY NewPromise
<1>2. Step(p, h, g) /\ Accepts(p, h, g) /\ Founds(h, g)
  BY AnswerStep
<1>3. LogOK(g, p, u) /\ BatchOK(g, p, u)
  BY DEF Flushes
<1>4. /\ TypeOK /\ storage[p] \in Storage /\ leader_state[p] \in LeaderStates /\ CountsOK(h, leader_state[p])
      /\ LeadingOK(h, p) /\ FollowingOK(h, p)
  BY FromFacts
<1>5. /\ storage'[p] = u /\ leader_state'[p] = leader_state[p]
      /\ follower_state'[p].latest_accepted_meta = follower_state[p].latest_accepted_meta
      /\ (p \in panicked' /\ state'[p] = state[p]) \/ state'[p] = << "Follower", "Prepare" >>
  BY DEF Answers
<1>6. ReceivesOK(p, g)
  <2>1. CASE u.promise # storage[p].promise
    BY <1>2, <1>5, <2>1, ReceivesKept
  <2>2. CASE u.promise = storage[p].promise
    <3>1. /\ storage[p].accepted_idx \in Nat /\ Len(storage[p].batched_entries) \in Nat
      BY <1>4, StorageFields
    <3>2. Len(u.batched_entries) = 0
      BY <1>1
    <3>3. PICK a, b : a = storage[p].accepted_idx /\ b = Len(storage[p].batched_entries)
      OBVIOUS
    <3>4. u.accepted_idx = a + b /\ a <= a + b /\ u.accepted_idx + Len(u.batched_entries) <= a + b
      BY <1>1, <3>1, <3>2, <3>3
    <3>5. /\ storage'[p].accepted_round = storage[p].accepted_round
          /\ storage[p].accepted_idx <= storage'[p].accepted_idx
          /\ storage'[p].accepted_idx + Len(storage'[p].batched_entries)
               <= storage[p].accepted_idx + Len(storage[p].batched_entries)
      BY <1>1, <1>5, <3>3, <3>4
    <3> QED BY <1>2, <3>5, ReceivesKept
  <2> QED BY <2>1, <2>2
<1>7. CountsOK(g, leader_state[p])'
  <2>1. PICK l0 \in LeaderStates : l0 = leader_state[p] /\ l0 = leader_state'[p] /\ CountsOK(h, l0)
    BY <1>4, <1>5
  <2>2. CountsOK(g, l0)'
    BY <1>2, <2>1, CountsKept
  <2> QED BY <2>1, <2>2
<1>8. LeadingOK(g, p)'
  <2>1. CASE p \in panicked' /\ state'[p] = state[p]
    <3>1. h.est \subseteq g.est
      BY DEF Flushes, Grows
    <3>2. LeaderOK(h, p, storage[p], leader_state[p]) => LeaderOK(g, p, u, leader_state[p])
      BY <1>1, <3>1 DEF LeaderOK
    <3>3. state[p] = << "Leader", "Accept" >> => LeaderOK(g, p, storage[p], leader_state[p])'
      BY <1>4, <1>5, <3>2 DEF LeadingOK, LeaderOK
    <3> QED BY <1>4, <2>1, <3>3 DEF LeadingOK
  <2>2. CASE state'[p] = << "Follower", "Prepare" >>
    BY <2>2 DEF LeadingOK
  <2> QED BY <1>5, <2>1, <2>2
<1>9. FollowingOK(g, p)'
  BY <1>1, <1>4, <1>5 DEF FollowingOK
<1>10. LogOK(g, p, storage'[p]) /\ BatchOK(g, p, storage'[p])
  BY <1>3, <1>5
<1> QED BY <1>2, <1>6, <1>7, <1>8, <1>9, <1>10, StepExplained

\* handle_prepare.
LEMMA HandlePrepareExplained ==
  ASSUME NEW h, From(h), NEW p \in Server, NEW q \in Peers(p), handle_prepare(p, q)
  PROVE  \E g : Succeeds(h, g)
<1> DEFINE m0 == Head(net[q][p])
           s == [flush_batch(storage[p]) EXCEPT !.promise = m0.n]
           newer == m0.n_accepted \prec s.accepted_round
           longer == m0.n_accepted = s.accepted_round /\ m0.accepted_idx < s.accepted_idx
           from == IF newer THEN m0.decided_idx ELSE m0.accepted_idx
           sync0 == IF newer \/ longer THEN create_log_sync(s, from, m0.decided_idx) ELSE None
           promise0 == Promise(m0.n, s, sync0)
<1>1. /\ Incoming(p, q, "Prepare") /\ accepts_prepare(p, m0)
      /\ storage' = [storage EXCEPT ![p] = s]
      /\ IF (newer \/ longer) /\ create_log_sync_panics(s, from)
           THEN Panic(p, q)
           ELSE /\ state' = [state EXCEPT ![p] = << "Follower", "Prepare" >>]
                /\ follower_state' =
                     [follower_state EXCEPT ![p].current_seq_num = DefaultSequenceNumber,
                                            ![p].cached_promise_message = promise0]
                /\ Handled(p, q, send(outgoing[p], q, promise0))
                /\ UNCHANGED << leader_state, buffered_proposals, buffered_stopsign, panicked >>
  BY Zenon DEF handle_prepare
<1>2. PICK m, u, sync, promise : m = m0 /\ u = s /\ sync = sync0 /\ promise = promise0
  OBVIOUS
<1>3. /\ net[q][p] # << >> /\ p \notin panicked /\ m.type = "Prepare" /\ accepts_prepare(p, m)
      /\ storage' = [storage EXCEPT ![p] = u]
  BY <1>1, <1>2 DEF Incoming
<1>4. Promises(p, m.n, u) /\ promise = Promise(m.n, u, sync)
  BY <1>2 DEF Promises
<1>5. /\ Behind(m, u) <=> newer \/ longer
      /\ MissingFrom(m, u) = from
  BY <1>2 DEF Behind, MissingFrom
<1>6. ~ (Behind(m, u) /\ create_log_sync_panics(u, MissingFrom(m, u))) => Brings(m, u, sync)
  BY <1>2, <1>5 DEF Brings, SyncFrom
<1>7. \/ Panic(p, q)
      \/ /\ Brings(m, u, sync)
         /\ state' = [state EXCEPT ![p] = << "Follower", "Prepare" >>]
         /\ follower_state' =
              [follower_state EXCEPT ![p].current_seq_num = DefaultSequenceNumber,
                                     ![p].cached_promise_message = promise]
         /\ Handled(p, q, send(outgoing[p], q, promise))
         /\ UNCHANGED << leader_state, panicked >>
  BY <1>1, <1>2, <1>5, <1>6
<1> HIDE DEF m0, s, newer, longer, from, sync0, promise0
<1>8. /\ TypeOK /\ Explains(h) /\ storage[p] \in Storage /\ outgoing[p] = NoMessages
      /\ outgoing = [x \in Server |-> NoMessages] /\ Plain
      /\ follower_state[p] \in FollowerState /\ leader_state[p] \in LeaderStates
  BY FromFacts DEF Explains
<1>9. m \in Message /\ PrepareMsgOK(q, m)
  BY <1>2, <1>3, <1>8, HeadOK DEF MsgOK, m0
<1>10. PICK k \in Ballot : k = m.n
  BY <1>3, <1>9, MessageFields
<1>11. storage[p].promise \preceq k
  BY <1>3, <1>10 DEF accepts_prepare, \preceq
<1>12. u \in Storage /\ u.promise = k
  BY <1>4, <1>10, NewPromise
<1>13. PICK g : Flushes(p, h, g, u)
  BY <1>4, <1>10, NewPromise
<1>14. CASE Panic(p, q)
  <2>1. /\ panicked' = panicked \cup {p} /\ net' = Consume(p, q)
        /\ UNCHANGED << state, leader_state, follower_state, outgoing >>
    BY <1>14 DEF Panic
  <2>2. Updates(p, u, state[p], leader_state[p], follower_state[p])
    BY <1>3, <1>8, <2>1, Unchanged DEF Updates
  <2>3. panicked' \ {p} = panicked \ {p} /\ p \in panicked'
    BY <2>1
  <2>4. Answers(p, u)
    BY <1>8, <2>2, <2>3, OthersSame DEF Answers
  <2>5. Step(p, h, g)
    BY <1>4, <1>10, <1>11, <1>13, <2>4, AnswerStep
  <2>6. KeptPromiseOK(g, p)'
    BY <2>1, <2>5, KeptPromiseKept
  <2>7. PICK out : out = NoMessages /\ Delivers(p, out) /\ SendsOK(p, g, out)
    <3>1. \A y \in Server : NoMessages[y] = << >>
      BY DEF NoMessages
    <3>2. Fresh(p, g, NoMessages)
      BY <3>1 DEF Fresh, Peers
    <3>3. SendsOK(p, g, NoMessages) /\ \A y \in Peers(p) : NoMessages[y] \in Seq(Message)
      BY <3>2, SendsOne
    <3>4. Delivers(p, NoMessages)
      BY <1>3, <1>8, <2>1, <3>3, ConsumeDelivers
    <3> QED BY <3>3, <3>4
  <2> QED BY <1>4, <1>8, <1>10, <1>11, <1>13, <2>1, <2>4, <2>6, <2>7, AnswerExplained
<1>15. CASE /\ Brings(m, u, sync)
            /\ state' = [state EXCEPT ![p] = << "Follower", "Prepare" >>]
            /\ follower_state' =
                 [follower_state EXCEPT ![p].current_seq_num = DefaultSequenceNumber,
                                        ![p].cached_promise_message = promise]
            /\ Handled(p, q, send(outgoing[p], q, promise))
            /\ UNCHANGED << leader_state, panicked >>
  <2>1. PICK out : out = send(outgoing[p], q, promise)
    OBVIOUS
  <2>2. Ended(p, out)
    BY <1>3, <1>15, <2>1 DEF Ended, Handled
  <2>3. PICK f : f = [follower_state[p] EXCEPT !.current_seq_num = DefaultSequenceNumber,
                                               !.cached_promise_message = promise]
    OBVIOUS
  <2>4. f.latest_accepted_meta = follower_state[p].latest_accepted_meta /\ f.cached_promise_message = promise
    BY <1>8, <2>3 DEF FollowerState
  <2>5. follower_state' = [follower_state EXCEPT ![p] = f]
    BY <1>8, <1>15, <2>3 DEF TypeOK, FollowerState
  <2>6. Updates(p, u, << "Follower", "Prepare" >>, leader_state[p], f)
    BY <1>3, <1>8, <1>15, <2>5, Unchanged DEF Updates
  <2>7. panicked' \ {p} = panicked \ {p}
    BY <1>15
  <2>8. Answers(p, u) /\ follower_state'[p].cached_promise_message = promise
    BY <1>8, <2>4, <2>6, <2>7, OthersSame DEF Answers
  <2>9. Step(p, h, g) /\ Accepts(p, h, g) /\ Founds(h, g)
    BY <1>4, <1>10, <1>11, <1>13, <2>8, AnswerStep
  <2>10. LogOK(g, p, u) /\ storage'[p] = u
    BY <1>13, <2>8 DEF Flushes, Answers
  <2>11. promise \in PromiseMessage /\ promise.type = "Promise" /\ promise.n = k /\ PromiseOK(g, p, q, promise)'
    BY SMTT(30), <1>3, <1>4, <1>9, <1>10, <1>12, <1>15, <2>9, <2>10, PromiseGiven
  <2>12. KeptPromiseOK(g, p)'
    <3>1. k.pid = q /\ q \in Server
      BY <1>9, <1>10 DEF PrepareMsgOK, Peers
    <3> QED BY <2>8, <2>11, <3>1 DEF KeptPromiseOK
  <2>13. Fresh(p, g, out)
    <3>1. FreshOK(p, g, q, promise) /\ promise \in Message
      BY <2>11 DEF FreshOK, MsgOK, AcceptTypes, Message
    <3> SUFFICES ASSUME NEW y \in Peers(p)
                 PROVE  out[y] = << >> \/ \E x \in Message : out[y] = << x >> /\ FreshOK(p, g, y, x)
      BY DEF Fresh
    <3>2. out[y] = IF y = q THEN << promise >> ELSE << >>
      BY <1>8, <2>1, NothingWaits DEF Peers
    <3> QED BY <3>1, <3>2
  <2>14. Delivers(p, out) /\ SendsOK(p, g, out) /\ outgoing' = [x \in Server |-> NoMessages]
    BY <2>2, <2>13, CallEnds
  <2> QED BY <1>4, <1>10, <1>11, <1>13, <2>8, <2>12, <2>14, AnswerExplained
<1> QED BY <1>7, <1>14, <1>15

------------------------------------------------------------------------------
(* Following a leader *)

\* p follows round n, with the storage t that has the log of the round and the
\* bookkeeping f now.
Following(p, h, n, t, f) ==
  /\ p \notin panicked /\ panicked' = panicked
  /\ n = storage[p].promise /\ n \in h.est /\ n.pid # p
  /\ t \in Storage /\ t.promise = n /\ t.accepted_round = n /\ t.snapshot = None /\ t.stopsign = None
  /\ t.compacted_idx = storage[p].compacted_idx
  /\ t.accepted_idx = t.compacted_idx + Len(t.log) /\ Segment(h.rlog[n], t.compacted_idx, t.log)
  /\ Segment(h.rlog[n], t.accepted_idx, t.batched_entries)
  /\ h.acc[p][n] <= t.accepted_idx /\ h.base[n] <= t.accepted_idx
  /\ t.decided_idx <= t.accepted_idx /\ DecidedIn(h, n, t.decided_idx)
  /\ Updates(p, t, << "Follower", "Accept" >>, leader_state[p], f)
  /\ f.latest_accepted_meta.idx = 0
  /\ f.cached_promise_message \in {None, follower_state[p].cached_promise_message}
  /\ h.start[n][p][next_seq_num(f.current_seq_num)] = t.accepted_idx + Len(t.batched_entries)
  /\ f.current_seq_num \in SequenceNumber /\ Sent(n.pid, n, p, f.current_seq_num)

\* From h to g p has accepted idx entries of round n, and nothing else happened.
AcceptsMore(p, h, g, n, idx) ==
  /\ Continues(h, g, p, n, h.rlog[n], idx, h.est, h.base[n], h.start[n])
  /\ Grows(p, h, g)

\* There is such a history, and it is a step.
LEMMA FollowingStep ==
  ASSUME NEW h, From(h), NEW p \in Server, NEW n, NEW t, NEW f, Following(p, h, n, t, f)
  PROVE  \E g : AcceptsMore(p, h, g, n, t.accepted_idx) /\ Step(p, h, g)
<1>1. /\ TypeOK /\ Inv /\ Inv' /\ RoundsStep /\ Explains(h) /\ h \in History
  BY FromFacts DEF From
<1>2. /\ n = storage[p].promise /\ n \in h.est /\ t.promise = n /\ t.accepted_round = n
      /\ h.acc[p][n] <= t.accepted_idx /\ t \in Storage
      /\ Updates(p, t, << "Follower", "Accept" >>, leader_state[p], f)
      /\ panicked' \ {p} = panicked \ {p}
  BY DEF Following
<1>3. PICK idx \in Nat : idx = t.accepted_idx
  BY <1>2, StorageFields
<1>4. PICK g : /\ Continues(h, g, p, n, h.rlog[n], idx, h.est, h.base[n], h.start[n])
               /\ Grows(p, h, g)
  BY <1>1, <1>2, <1>3, GoesOnAccepting
<1>5. /\ \A q \in Peers(p) : Same(q)
      /\ storage'[p] = t /\ state'[p] = << "Follower", "Accept" >>
  BY <1>1, <1>2, OthersSame
<1>6. \A k \in Ballot : ~ (Leads(p, k)') /\ ~ (Prepares(p, k)')
  BY <1>5 DEF Leads, Prepares
<1>7. Moves(p)
  BY <1>2, <1>5, <1>6 DEF Moves
<1>8. Step(p, h, g)
  BY <1>1, <1>4, <1>7 DEF Step
<1> QED BY <1>3, <1>4, <1>8 DEF AcceptsMore

\* The log of p is the beginning of the log of the round.
LEMMA FollowingLog ==
  ASSUME NEW h, From(h), NEW p \in Server, NEW n, NEW t, NEW f, Following(p, h, n, t, f),
         NEW g, AcceptsMore(p, h, g, n, t.accepted_idx), Step(p, h, g), storage'[p] = t
  PROVE  LogOK(g, p, t) /\ BatchOK(g, p, t) /\ Accepts(p, h, g) /\ Founds(h, g)
<1>1. /\ h \in History /\ n \in h.est /\ n \in Ballot /\ t \in Storage
      /\ h.rlog[n] \in Entries /\ Len(h.rlog[n]) \in Nat
  BY FromFacts, HistoryFields DEF Following
<1>2. /\ g.est = h.est /\ g.rlog[n] = h.rlog[n] /\ g.acc[p][n] = t.accepted_idx /\ g.base[n] = h.base[n]
  BY DEF AcceptsMore, Continues
<1>3. t.decided_idx \in Nat /\ DecidedIn(g, n, t.decided_idx)
  BY <1>1, StorageFields, StepGrows DEF Following
<1>4. LogOK(g, p, t)
  <2>1. t.compacted_idx \in Nat /\ t.compacted_idx = storage[p].compacted_idx
    BY <1>1, StorageFields DEF Following
  <2>2. HeldByAll(h, t.compacted_idx)
    BY <2>1, FromFacts DEF LogOK
  <2>3. HeldByAll(g, t.compacted_idx)
    BY <2>1, <2>2, StepGrows
  <2> QED BY <1>1, <1>2, <1>3, <2>3 DEF LogOK, Following
<1>5. BatchOK(g, p, t)
  BY <1>2 DEF BatchOK, Following
<1>6. Accepts(p, h, g)
  <2>1. Segment(h.rlog[n], t.compacted_idx, t.log) /\ t.accepted_idx = t.compacted_idx + Len(t.log)
    BY DEF Following
  <2>2. t.accepted_idx <= Len(h.rlog[n])
    BY <2>1 DEF Segment
  <2> QED BY <1>2, <2>2 DEF Accepts, Written, Following
<1>7. Founds(h, g)
  BY <1>2 DEF Founds
<1> QED BY <1>4, <1>5, <1>6, <1>7

\* The history explains the state that follows.
LEMMA FollowingExplained ==
  ASSUME NEW h, From(h), NEW p \in Server, NEW n, NEW t, NEW f, Following(p, h, n, t, f),
         NEW g, AcceptsMore(p, h, g, n, t.accepted_idx), Step(p, h, g),
         outgoing' = [x \in Server |-> NoMessages],
         NEW out, Delivers(p, out), SendsOK(p, g, out), ReceivesOK(p, g)
  PROVE  Succeeds(h, g)
<1>1. /\ TypeOK /\ h \in History /\ leader_state[p] \in LeaderStates /\ CountsOK(h, leader_state[p])
      /\ Explains(h)
  BY FromFacts
<1>2. /\ storage'[p] = t /\ state'[p] = << "Follower", "Accept" >>
      /\ leader_state'[p] = leader_state[p] /\ follower_state'[p] = f
  <2>1. Updates(p, t, << "Follower", "Accept" >>, leader_state[p], f) /\ panicked' \ {p} = panicked \ {p}
    BY DEF Following
  <2> QED BY <1>1, <2>1, OthersSame
<1>3. LogOK(g, p, t) /\ BatchOK(g, p, t) /\ Accepts(p, h, g) /\ Founds(h, g)
  BY <1>2, FollowingLog
<1>4. CountsOK(g, leader_state[p])'
  <2>1. PICK l0 \in LeaderStates : l0 = leader_state[p] /\ l0 = leader_state'[p] /\ CountsOK(h, l0)
    BY <1>1, <1>2
  <2>2. CountsOK(g, l0)'
    BY <2>1, CountsKept
  <2> QED BY <2>1, <2>2
<1>5. LeadingOK(g, p)'
  BY <1>2 DEF LeadingOK
<1>6. KeptPromiseOK(g, p)'
  <2>1. CASE f.cached_promise_message = None
    BY <1>2, <2>1 DEF KeptPromiseOK
  <2>2. CASE f.cached_promise_message = follower_state[p].cached_promise_message
    BY <1>2, <2>2, KeptPromiseKept
  <2> QED BY <2>1, <2>2 DEF Following
<1>7. FollowingOK(g, p)'
  <2>1. PICK sn \in SequenceNumber : sn = f.current_seq_num /\ Sent(n.pid, n, p, sn)
    BY DEF Following
  <2>2. n \in h.est /\ n \in Ballot /\ n.pid \in Server
    BY <1>1, HistoryFields DEF Following, Explains, RoundInv, RoundOK
  <2>3. Sent(n.pid, n, p, sn)'
    BY <2>1, <2>2, SentKept
  <2>4. g.start[n] = h.start[n]
    BY DEF AcceptsMore, Continues
  <2>5. FollowsOK(g, p, t, f)
    BY <2>4 DEF FollowsOK, Following
  <2>6. t.promise = n /\ f.latest_accepted_meta.idx = 0
    BY DEF Following
  <2>7. Sent(storage[p].promise.pid, storage[p].promise, p, follower_state[p].current_seq_num)'
    BY <1>2, <2>1, <2>3, <2>6 DEF Sent, Leads
  <2> QED BY <1>2, <2>5, <2>6, <2>7 DEF FollowingOK
<1>8. LogOK(g, p, storage'[p]) /\ BatchOK(g, p, storage'[p])
  BY <1>2, <1>3
<1> QED BY <1>3, <1>4, <1>5, <1>6, <1>7, <1>8, StepExplained

\* The log and the batch of t have the first e entries of a; t is s, which went on.
Holds(a, s, t, e) ==
  /\ t \in Storage /\ t.promise = s.promise /\ t.accepted_round = s.accepted_round
  /\ t.snapshot = s.snapshot /\ t.stopsign = s.stopsign
  /\ t.accepted_idx = t.compacted_idx + Len(t.log) /\ Segment(a, t.compacted_idx, t.log)
  /\ Segment(a, t.accepted_idx, t.batched_entries)
  /\ t.accepted_idx + Len(t.batched_entries) = e
  /\ s.accepted_idx <= t.accepted_idx /\ t.compacted_idx = s.compacted_idx

\* The log takes entries that come next in a, the batch first.
LEMMA HoldsAppended ==
  ASSUME NEW a \in Entries, NEW s \in Storage, NEW u, NEW e, Holds(a, s, u, e),
         NEW ents \in Entries, Segment(a, u.accepted_idx, ents), NEW t, Appended(u, t, ents)
  PROVE  Holds(a, s, t, u.accepted_idx + Len(ents)) /\ t.batched_entries = << >> /\ t.decided_idx = u.decided_idx
<1>1. u \in Storage /\ u.accepted_idx = u.compacted_idx + Len(u.log) /\ Segment(a, u.compacted_idx, u.log)
  BY DEF Holds
<1>2. t.accepted_idx = t.compacted_idx + Len(t.log) /\ Segment(a, t.compacted_idx, t.log)
  BY <1>1, AppendedSegment
<1>3. /\ s.accepted_idx \in Nat /\ u.accepted_idx \in Nat /\ Len(ents) \in Nat /\ s.accepted_idx <= u.accepted_idx
  BY <1>1, StorageFields, LenProperties DEF Holds, Entries
<1>4. /\ t \in Storage /\ t.accepted_idx = u.accepted_idx + Len(ents) /\ t.batched_entries = << >>
      /\ t.decided_idx = u.decided_idx
  BY DEF Appended
<1>5. Segment(a, u.accepted_idx + Len(ents), << >>)
  BY <1>3 DEF Segment
<1>6. /\ s.accepted_idx <= t.accepted_idx /\ t.accepted_idx + Len(t.batched_entries) = u.accepted_idx + Len(ents)
  BY <1>3, <1>4
<1>7. /\ t.promise = s.promise /\ t.accepted_round = s.accepted_round
      /\ t.snapshot = s.snapshot /\ t.stopsign = s.stopsign /\ t.compacted_idx = s.compacted_idx
  BY DEF Holds, Appended
<1> QED BY <1>2, <1>4, <1>5, <1>6, <1>7 DEF Holds

\* flush_batch.
LEMMA HoldsFlushed ==
  ASSUME NEW a \in Entries, NEW s \in Storage, NEW u, NEW e, Holds(a, s, u, e), NEW t, t = flush_batch(u)
  PROVE  /\ Holds(a, s, t, e) /\ t.batched_entries = << >> /\ t.decided_idx = u.decided_idx
         /\ t.accepted_idx = e
<1>1. /\ u \in Storage /\ Segment(a, u.accepted_idx, u.batched_entries) /\ e = u.accepted_idx + Len(u.batched_entries)
  BY DEF Holds
<1>2. PICK b \in Entries : b = u.batched_entries
  BY <1>1, StorageFields
<1>3. Appended(u, t, b) /\ Segment(a, u.accepted_idx, b)
  BY <1>1, <1>2, FlushAppends
<1>4. Holds(a, s, t, e) /\ t.batched_entries = << >> /\ t.decided_idx = u.decided_idx
  BY <1>1, <1>2, <1>3, HoldsAppended
<1> QED BY <1>1, <1>2, <1>3, <1>4 DEF Appended

\* append_entries_with_batching.
LEMMA HoldsBatched ==
  ASSUME NEW a \in Entries, NEW s \in Storage, NEW u, NEW e, Holds(a, s, u, e),
         NEW ents \in Entries, Segment(a, e, ents), NEW t, t = append_entries_with_batching(u, ents)
  PROVE  Holds(a, s, t, e + Len(ents)) /\ t.decided_idx = u.decided_idx
<1>1. /\ u \in Storage /\ Segment(a, u.accepted_idx, u.batched_entries) /\ e = u.accepted_idx + Len(u.batched_entries)
  BY DEF Holds
<1>2. PICK k, b, c : k = u.accepted_idx /\ b = u.batched_entries /\ c = b \o ents
  OBVIOUS
<1>3. k \in Nat /\ b \in Entries
  BY <1>1, <1>2, StorageFields
<1>4. Segment(a, k, b) /\ Segment(a, k + Len(b), ents)
  BY <1>1, <1>2
<1>5. c \in Entries /\ Len(c) = Len(b) + Len(ents) /\ Segment(a, k, c)
  BY <1>2, <1>3, <1>4, SegmentConcat
<1>6. k + Len(c) = e + Len(ents)
  <2>1. Len(b) \in Nat /\ Len(ents) \in Nat
    BY <1>3, LenProperties DEF Entries
  <2> QED BY <1>1, <1>2, <1>3, <1>5, <2>1
<1>7. CASE fills_batch(u, ents)
  <2>1. Appended(u, t, c)
    BY <1>1, <1>2, <1>7, BatchAppends
  <2>2. Segment(a, u.accepted_idx, c)
    BY <1>2, <1>5
  <2>3. Holds(a, s, t, u.accepted_idx + Len(c)) /\ t.decided_idx = u.decided_idx
    BY <1>5, <2>1, <2>2, HoldsAppended
  <2> QED BY <1>2, <1>6, <2>3
<1>8. CASE ~ fills_batch(u, ents)
  <2>1. Batched(u, t, ents)
    BY <1>1, <1>8, BatchAppends
  <2>2. t.batched_entries = c
    BY <1>2, <2>1 DEF Batched
  <2>3. t.accepted_idx = k /\ t.log = u.log /\ t.compacted_idx = u.compacted_idx /\ t.decided_idx = u.decided_idx
        /\ t \in Storage /\ t.promise = u.promise /\ t.accepted_round = u.accepted_round
        /\ t.snapshot = u.snapshot /\ t.stopsign = u.stopsign
    BY <1>2, <2>1 DEF Batched
  <2> QED BY <1>2, <1>5, <1>6, <2>2, <2>3 DEF Holds
<1> QED BY <1>7, <1>8

\* The decided index moves on to d at most, and not beyond what is accepted.
DecidesUpTo(u, t, d) ==
  /\ t.decided_idx = u.decided_idx \/ t.decided_idx <= d
  /\ t.decided_idx <= t.accepted_idx

\* update_decided_idx.
LEMMA HoldsDecided ==
  ASSUME NEW a \in Entries, NEW s \in Storage, NEW u, NEW e, Holds(a, s, u, e), u.decided_idx <= u.accepted_idx,
         NEW d \in Nat, NEW t, t = update_decided_idx(u, d)
  PROVE  Holds(a, s, t, e) /\ DecidesUpTo(u, t, d)
<1>1. u \in Storage /\ u.decided_idx \in Nat /\ u.accepted_idx \in Nat
  BY StorageFields DEF Holds
<1>2. CASE d <= u.decided_idx
  <2>1. t = u
    BY <1>2 DEF update_decided_idx
  <2> QED BY <2>1 DEF DecidesUpTo
<1>3. CASE ~ d <= u.decided_idx /\ flushes_to_decide(u, d)
  <2>1. PICK v : v = flush_batch(u)
    OBVIOUS
  <2>2. Holds(a, s, v, e) /\ v.accepted_idx = e
    BY <2>1, HoldsFlushed
  <2>3. v \in Storage /\ v.accepted_idx \in Nat
    BY <2>2, StorageFields DEF Holds
  <2>4. PICK c : c = minimum(d, v.accepted_idx)
    OBVIOUS
  <2>5. c \in Nat /\ c <= d /\ c <= v.accepted_idx
    BY <2>3, <2>4 DEF minimum
  <2>6. t = [v EXCEPT !.decided_idx = c]
    BY <1>3, <2>1, <2>4 DEF update_decided_idx
  <2>7. /\ t \in Storage /\ t.decided_idx = c /\ t.promise = v.promise /\ t.accepted_round = v.accepted_round
        /\ t.snapshot = v.snapshot /\ t.stopsign = v.stopsign /\ t.log = v.log
        /\ t.compacted_idx = v.compacted_idx /\ t.accepted_idx = v.accepted_idx
        /\ t.batched_entries = v.batched_entries
    BY <2>3, <2>5, <2>6 DEF Storage
  <2>8. Holds(a, s, t, e)
    BY <2>2, <2>7 DEF Holds
  <2> QED BY <2>5, <2>7, <2>8 DEF DecidesUpTo
<1>4. CASE ~ d <= u.decided_idx /\ ~ flushes_to_decide(u, d)
  <2>1. t = [u EXCEPT !.decided_idx = d]
    BY <1>4 DEF update_decided_idx
  <2>2. d <= u.accepted_idx
    BY <1>1, <1>4 DEF flushes_to_decide
  <2>3. /\ t \in Storage /\ t.decided_idx = d /\ t.promise = u.promise /\ t.accepted_round = u.accepted_round
        /\ t.snapshot = u.snapshot /\ t.stopsign = u.stopsign /\ t.log = u.log
        /\ t.compacted_idx = u.compacted_idx /\ t.accepted_idx = u.accepted_idx
        /\ t.batched_entries = u.batched_entries
    BY <1>1, <2>1 DEF Storage
  <2>4. Holds(a, s, t, e)
    BY <2>3 DEF Holds
  <2> QED BY <2>2, <2>3, <2>4 DEF DecidesUpTo
<1> QED BY <1>2, <1>3, <1>4

\* An accept message of the round that p follows has been handled: what is left
\* fits behind it.
LEMMA ReceivesNext ==
  ASSUME NEW h, From(h), NEW g, NEW p \in Server, NEW q \in Peers(p), net[q][p] # << >>,
         NEW m, m = Head(net[q][p]), m.type \in AcceptTypes, NEW n, n = storage[p].promise, m.n = n,
         NEW out, Handled(p, q, out),
         NEW t, storage'[p] = t, t.promise = n, t.accepted_round = n, t.accepted_idx \in Nat,
         t.accepted_idx + Len(t.batched_entries) = End(h, p, m),
         \/ m.type = "AcceptSync" /\ t.accepted_idx = End(h, p, m)
         \/ storage[p].accepted_idx <= t.accepted_idx
  PROVE  ReceivesOK(p, g)
<1>1. /\ TypeOK /\ Explains(h) /\ Plain /\ storage[p] \in Storage /\ p \in Peers(q) /\ q \in Server
  BY FromFacts DEF Peers
<1>2. /\ net \in [Server -> [Server -> Seq(Message)]] /\ EagerTake
  BY <1>1 DEF TypeOK, Plain
<1>3. \A x \in Peers(p) : net'[x][p] = IF x = q THEN Tail(net[x][p]) ELSE net[x][p]
  <2>1. PICK chan : chan = Consume(p, q)
    OBVIOUS
  <2>2. \A x \in Server : chan[x][p] = IF x = q THEN Tail(net[x][p]) ELSE net[x][p]
    BY <1>1, <1>2, <2>1 DEF Consume
  <2>3. DOMAIN chan = Server
    BY <1>2, <2>1 DEF Consume
  <2>4. net' = Transmit(chan, p, out)
    BY <1>2, <2>1 DEF Handled, EndCall
  <2>5. \A x \in Peers(p) : net'[x] = chan[x]
    BY <2>3, <2>4 DEF Transmit, Peers
  <2> QED BY <2>2, <2>5 DEF Peers
<1>4. m \in Message /\ m = net[q][p][1] /\ MsgOK(h, q, p, m) /\ 1 \in 1 .. Len(net[q][p])
  BY <1>1, HeadOK
<1>5. m.n.pid = q
  BY <1>4 DEF MsgOK, AcceptMsgOK
<1> SUFFICES ASSUME NEW x \in Peers(p), NEW i \in 1 .. Len(net'[x][p]), NEW b, b = net'[x][p][i],
                    b.type = "AcceptSync", b.n = n
             PROVE  /\ b.log_sync.sync_idx <= t.accepted_idx
                    /\ t.accepted_idx + Len(t.batched_entries) <= b.log_sync.sync_idx + Len(b.log_sync.suffix)
  BY DEF ReceivesOK, SyncTargetOK, TargetOK
<1>6. x \in Server /\ p \in Peers(x) /\ net[x][p] \in Seq(Message)
  BY <1>2 DEF Peers
<1>7. PICK j : /\ j \in 1 .. Len(net[x][p]) /\ b = net[x][p][j] /\ (x = q => 1 < j)
  <2>1. CASE x = q
    <3>1. net[x][p] # << >> /\ net'[x][p] = Tail(net[x][p])
      BY <1>3, <2>1
    <3>2. /\ Len(net'[x][p]) = Len(net[x][p]) - 1
          /\ \A k \in 1 .. Len(net'[x][p]) : net'[x][p][k] = net[x][p][k + 1]
      BY <1>6, <3>1, HeadTailProperties
    <3>3. i + 1 \in 1 .. Len(net[x][p]) /\ 1 < i + 1
      BY <1>6, <3>2, LenProperties
    <3> QED BY <3>2, <3>3
  <2>2. CASE x # q
    BY <1>3, <2>2
  <2> QED BY <2>1, <2>2
<1>8. b \in Message /\ MsgOK(h, x, p, b) /\ SyncTargetOK(h, p, b)
  <2>1. b \in Message
    BY <1>6, <1>7, ElementOfSeq
  <2> QED BY <1>1, <1>6, <1>7, <2>1 DEF Explains, MessageInv
<1>9. b.type \in AcceptTypes
  BY DEF AcceptTypes
<1>10. b.n.pid = x /\ End(h, p, b) = b.log_sync.sync_idx + Len(b.log_sync.suffix)
  BY <1>8, <1>9 DEF MsgOK, AcceptMsgOK, SyncMsgOK
<1>11. x = q
  BY <1>5, <1>10
<1>12. OrderOK(h, p, m, b)
  <2>1. 1 < j
    BY <1>7, <1>11
  <2>2. OrderOK(h, p, net[q][p][1], net[q][p][j])
    BY <1>1, <1>4, <1>7, <1>11, <2>1 DEF Explains, OrderInv
  <2> QED BY <1>4, <1>7, <1>11, <2>2
<1>13. End(h, p, m) <= End(h, p, b) /\ (m.type = "AcceptSync" => b.log_sync.sync_idx <= End(h, p, m))
  BY <1>12 DEF OrderOK
<1>14. b.log_sync.sync_idx <= storage[p].accepted_idx
  BY <1>8 DEF SyncTargetOK, TargetOK
<1>15. b.log_sync.sync_idx \in Nat /\ storage[p].accepted_idx \in Nat
  BY <1>1, <1>8, <1>9, AcceptFields, StorageFields
<1>16. b.log_sync.sync_idx <= t.accepted_idx
  <2>1. CASE m.type = "AcceptSync" /\ t.accepted_idx = End(h, p, m)
    BY <1>13, <2>1
  <2>2. CASE storage[p].accepted_idx <= t.accepted_idx
    BY <1>14, <1>15, <2>2
  <2> QED BY <2>1, <2>2
<1> QED BY <1>10, <1>13, <1>16

\* Messages of which none is an AcceptSync are as g tells.
LEMMA SendsPlain ==
  ASSUME NEW p \in Server, NEW g, NEW out,
         \A y \in Peers(p) : /\ out[y] \in Seq(Message)
                             /\ \A i \in 1 .. Len(out[y]) :
                                  out[y][i].type # "AcceptSync" /\ FreshOK(p, g, y, out[y][i])
  PROVE  SendsOK(p, g, out)
<1> SUFFICES ASSUME NEW y \in Peers(p), NEW i \in 1 .. Len(out[y]), NEW m \in Message, m = out[y][i]
             PROVE  MsgOK(g, p, y, m)' /\ m.type # "AcceptSync"
  BY DEF SendsOK
<1>1. m.type # "AcceptSync" /\ FreshOK(p, g, y, m)
  OBVIOUS
<1> QED BY <1>1 DEF FreshOK

\* What p tells its leader that it accepted.
LEMMA AcceptedFresh ==
  ASSUME NEW p \in Server, NEW g, NEW y, NEW n \in Ballot, NEW idx \in Nat, idx <= g.acc[p][n]
  PROVE  Accepted(n, idx) \in Message /\ FreshOK(p, g, y, Accepted(n, idx))
<1>1. Accepted(n, idx) \in Message
  BY DEF Accepted, Message
<1>2. FreshOK(p, g, y, Accepted(n, idx))
  BY DEF FreshOK, MsgOK, Accepted, AcceptTypes
<1> QED BY <1>1, <1>2

\* An accept message that p, a follower, expects next.
Expects(h, p, q, m, n) ==
  /\ net[q][p] # << >> /\ p \notin panicked /\ state[p] = << "Follower", "Accept" >>
  /\ m = Head(net[q][p]) /\ m \in Message /\ m.type \in {"AcceptDecide", "Decide"} /\ MsgOK(h, q, p, m)
  /\ n = storage[p].promise /\ m.n = n /\ n \in h.est /\ n \in Ballot /\ n.pid = q
  /\ m.seq_num = next_seq_num(follower_state[p].current_seq_num)
  /\ m.seq_num \in SequenceNumber /\ m.decided_idx \in Nat /\ DecidedIn(h, n, m.decided_idx)
  /\ storage[p].accepted_round = n
  /\ Holds(h.rlog[n], storage[p], storage[p], h.start[n][p][m.seq_num])

\* A follower has the log of the round up to where the next message goes on.
LEMMA FollowerHolds ==
  ASSUME NEW h, From(h), NEW p \in Server, p \notin panicked, state[p] = << "Follower", "Accept" >>,
         NEW n, n = storage[p].promise
  PROVE  /\ storage[p].accepted_round = n
         /\ Holds(h.rlog[n], storage[p], storage[p],
                  h.start[n][p][next_seq_num(follower_state[p].current_seq_num)])
<1>1. /\ Inv /\ Explains(h) /\ storage[p] \in Storage /\ LogOK(h, p, storage[p])
      /\ BatchOK(h, p, storage[p])
  BY FromFacts
<1>2. FollowsOK(h, p, storage[p], follower_state[p])
  BY <1>1, FollowedRound
<1>3. /\ storage[p].accepted_round = n /\ n.pid # p
      /\ h.start[n][p][next_seq_num(follower_state[p].current_seq_num)]
           = storage[p].accepted_idx + Len(storage[p].batched_entries)
  BY <1>2 DEF FollowsOK
<1>4. /\ Segment(h.rlog[n], storage[p].accepted_idx, storage[p].batched_entries)
      /\ Segment(h.rlog[n], storage[p].compacted_idx, storage[p].log)
      /\ storage[p].accepted_idx = storage[p].compacted_idx + Len(storage[p].log)
  BY <1>1, <1>3 DEF LogOK, BatchOK
<1>5. storage[p].accepted_idx <= storage[p].accepted_idx
  BY <1>1, StorageFields
<1> QED BY <1>1, <1>3, <1>4, <1>5 DEF Holds

\* What IncomingAccept lets through is one.
LEMMA FollowerExpects ==
  ASSUME NEW h, From(h), NEW p \in Server, NEW q \in Peers(p), NEW type \in {"AcceptDecide", "Decide"},
         IncomingAccept(p, q, type), NEW m, m = Head(net[q][p]), NEW n, n = storage[p].promise
  PROVE  Expects(h, p, q, m, n)
<1>1. /\ TypeOK /\ Inv /\ Explains(h) /\ Plain /\ storage[p] \in Storage /\ LogOK(h, p, storage[p])
      /\ BatchOK(h, p, storage[p])
  BY FromFacts
<1>2. /\ net[q][p] # << >> /\ p \notin panicked /\ m.type = type /\ m.n = n
      /\ in_phase(p, m) /\ msg_status(p, m) = "Expected"
  BY DEF IncomingAccept, Incoming
<1>3. m \in Message /\ MsgOK(h, q, p, m)
  BY <1>1, <1>2, HeadOK
<1>4. m.type \in AcceptTypes /\ m.type # "AcceptSync"
  BY <1>2 DEF AcceptTypes
<1>5. m.n.pid = q /\ DecidedIn(h, n, m.decided_idx) /\ m.n \in h.est
  BY <1>2, <1>3, <1>4 DEF MsgOK, AcceptMsgOK
<1>6. m.n \in Ballot /\ m.seq_num \in SequenceNumber /\ m.decided_idx \in Nat
  BY <1>1, <1>3, <1>4, AcceptFields
<1>7. state[p] = << "Follower", "Accept" >>
  <2>1. state[p][2] = "Accept"
    BY <1>2, <1>4 DEF in_phase
  <2>2. state[p][1] # "Leader"
    BY <1>1, <1>2, <1>5, LeaderRound DEF Peers
  <2>3. state[p] \in {"Leader", "Follower"} \X {"Prepare", "Accept", "Recover", "None"}
    BY <1>1 DEF TypeOK
  <2> QED BY <2>1, <2>2, <2>3
<1>8. m.seq_num = next_seq_num(follower_state[p].current_seq_num)
  BY <1>2, <1>4 DEF msg_status, check_msg_status
<1>9. /\ storage[p].accepted_round = n
      /\ Holds(h.rlog[n], storage[p], storage[p], h.start[n][p][m.seq_num])
  BY <1>2, <1>7, <1>8, FollowerHolds
<1> QED BY <1>2, <1>3, <1>5, <1>6, <1>7, <1>8, <1>9 DEF Expects

\* What p replies to its leader, having accepted up to idx.
Replies(p, n, idx, out) == out = NoMessages \/ out = send(NoMessages, n.pid, Accepted(n, idx))

\* It is as the history tells.
LEMMA RepliesFresh ==
  ASSUME NEW h, From(h), NEW p \in Server, NEW n \in Ballot, NEW idx \in Nat, NEW g, idx <= g.acc[p][n],
         NEW out, Replies(p, n, idx, out)
  PROVE  Fresh(p, g, out)
<1>1. Explains(h)
  BY DEF From
<1>2. PICK x : x = Accepted(n, idx)
  OBVIOUS
<1>3. x \in Message /\ \A y : FreshOK(p, g, y, x)
  BY <1>2, AcceptedFresh
<1> SUFFICES ASSUME NEW y \in Peers(p)
             PROVE  out[y] = << >> \/ \E k \in Message : out[y] = << k >> /\ FreshOK(p, g, y, k)
  BY DEF Fresh
<1>4. CASE out = NoMessages
  BY <1>1, <1>4, NothingWaits DEF Peers
<1>5. CASE out = send(NoMessages, n.pid, x)
  <2>1. out[y] = IF y = n.pid THEN << x >> ELSE << >>
    BY <1>1, <1>5, NothingWaits DEF Peers
  <2> QED BY <1>3, <2>1
<1> QED BY <1>2, <1>4, <1>5 DEF Replies

\* The rest of the handler: p stores t and may reply.
LEMMA FollowExplained ==
  ASSUME NEW h, From(h), NEW p \in Server, NEW q \in Peers(p), NEW m, NEW n, Expects(h, p, q, m, n),
         NEW t, Holds(h.rlog[n], storage[p], t, End(h, p, m)), DecidesUpTo(storage[p], t, m.decided_idx),
         NEW replies, follow(p, q, t, replies)
  PROVE  \E g : Succeeds(h, g)
<1>1. /\ TypeOK /\ h \in History /\ storage[p] \in Storage /\ follower_state[p] \in FollowerState
      /\ LogOK(h, p, storage[p]) /\ FollowingOK(h, p) /\ Plain
      /\ outgoing[p] = NoMessages /\ Explains(h) /\ ChoiceInv(h)
  BY FromFacts
<1>2. /\ net[q][p] # << >> /\ p \notin panicked /\ state[p] = << "Follower", "Accept" >>
      /\ m = Head(net[q][p]) /\ m \in Message /\ MsgOK(h, q, p, m)
      /\ n = storage[p].promise /\ m.n = n /\ n \in h.est /\ n \in Ballot /\ n.pid = q
      /\ m.seq_num \in SequenceNumber /\ m.decided_idx \in Nat /\ DecidedIn(h, n, m.decided_idx)
      /\ storage[p].accepted_round = n
  BY DEF Expects
<1>3. m.type \in AcceptTypes
  BY DEF Expects, AcceptTypes
<1>4. PICK f : f = [follower_state[p] EXCEPT !.current_seq_num = m.seq_num]
  OBVIOUS
<1>5. /\ f.current_seq_num = m.seq_num /\ f.latest_accepted_meta.idx = 0
      /\ f.cached_promise_message = follower_state[p].cached_promise_message
      /\ f.latest_accepted_meta = follower_state[p].latest_accepted_meta
  BY <1>1, <1>2, <1>4 DEF FollowingOK, FollowerState
<1>6. ~ has_latest_accepted(f, outgoing[p], m.n)
  BY <1>5 DEF has_latest_accepted
<1>7. cached_idx(outgoing[p], n.pid) = 0
  BY <1>1 DEF cached_idx, Plain
<1>8. PICK f1 : f1 = IF replies THEN reply_accepted_meta(f, outgoing[p], m.n) ELSE f
  OBVIOUS
<1>9. /\ f1.current_seq_num = m.seq_num /\ f1.latest_accepted_meta.idx = 0
      /\ f1.cached_promise_message = follower_state[p].cached_promise_message
  <2>1. f1 = f \/ f1 = [f EXCEPT !.latest_accepted_meta = [n |-> n, idx |-> 0]]
    BY <1>2, <1>6, <1>7, <1>8 DEF reply_accepted_meta
  <2>2. f \in FollowerState
    BY <1>1, <1>2, <1>4 DEF FollowerState
  <2> QED BY <1>5, <2>1, <2>2 DEF FollowerState
<1>10. /\ storage' = [storage EXCEPT ![p] = t]
       /\ follower_state' = [follower_state EXCEPT ![p] = f1]
       /\ Handled(p, q, IF replies THEN reply_accepted_outgoing(f, outgoing[p], m.n, t.accepted_idx)
                                   ELSE outgoing[p])
       /\ UNCHANGED << state, leader_state, panicked >>
  BY <1>2, <1>4, <1>8 DEF follow
<1>11. PICK out : /\ out = NoMessages \/ out = send(NoMessages, q, Accepted(n, t.accepted_idx))
                  /\ Handled(p, q, out)
  BY <1>1, <1>2, <1>6, <1>10 DEF reply_accepted_outgoing
<1>12. Updates(p, t, << "Follower", "Accept" >>, leader_state[p], f1)
  BY <1>1, <1>2, <1>10, Unchanged DEF Updates
<1>13. Following(p, h, n, t, f1)
  <2>1. /\ t \in Storage /\ t.promise = n /\ t.accepted_round = n /\ t.snapshot = None /\ t.stopsign = None
    BY <1>1, <1>2 DEF Holds, LogOK
  <2>2. /\ t.compacted_idx = storage[p].compacted_idx
        /\ t.accepted_idx = t.compacted_idx + Len(t.log) /\ Segment(h.rlog[n], t.compacted_idx, t.log)
        /\ Segment(h.rlog[n], t.accepted_idx, t.batched_entries)
        /\ t.accepted_idx + Len(t.batched_entries) = End(h, p, m)
        /\ storage[p].accepted_idx <= t.accepted_idx
    BY DEF Holds
  <2>3. h.acc[p][n] <= t.accepted_idx /\ h.base[n] <= t.accepted_idx
    <3>1. h.acc[p][n] = storage[p].accepted_idx /\ h.base[n] <= storage[p].accepted_idx
      BY <1>1, <1>2 DEF LogOK
    <3>2. h.base[n] \in Nat /\ storage[p].accepted_idx \in Nat /\ t.accepted_idx \in Nat
      BY <1>1, <1>2, <2>1, HistoryFields, StorageFields
    <3> QED BY <2>2, <3>1, <3>2
  <2>4. t.decided_idx <= t.accepted_idx
    BY DEF DecidesUpTo
  <2>5. DecidedIn(h, n, t.decided_idx)
    <3>1. CASE t.decided_idx = storage[p].decided_idx
      BY <1>1, <1>2, <3>1 DEF LogOK
    <3>2. CASE t.decided_idx <= m.decided_idx
      <4>1. t.decided_idx \in Nat
        BY <2>1, StorageFields
      <4>2. n \preceq n
        BY DEF \preceq
      <4> QED BY <1>1, <1>2, <3>2, <4>1, <4>2, DecidedBefore
    <3> QED BY <3>1, <3>2 DEF DecidesUpTo
  <2>6. h.start[n][p][next_seq_num(f1.current_seq_num)] = t.accepted_idx + Len(t.batched_entries)
    BY <1>2, <1>9, <2>2 DEF End
  <2>7. f1.current_seq_num \in SequenceNumber /\ Sent(n.pid, n, p, f1.current_seq_num)
    BY <1>2, <1>3, <1>9 DEF MsgOK, AcceptMsgOK
  <2> QED BY <1>2, <1>9, <1>10, <1>12, <2>1, <2>2, <2>3, <2>4, <2>5, <2>6, <2>7 DEF Following, Peers
<1>14. PICK g : AcceptsMore(p, h, g, n, t.accepted_idx) /\ Step(p, h, g)
  BY <1>13, FollowingStep
<1>15. Fresh(p, g, out)
  <2>1. PICK idx \in Nat : idx = t.accepted_idx /\ idx <= g.acc[p][n]
    <3>1. t.accepted_idx \in Nat /\ g.acc[p][n] = t.accepted_idx
      BY <1>14, StorageFields DEF Holds, AcceptsMore, Continues
    <3> QED BY <3>1
  <2>2. Replies(p, n, idx, out)
    BY <1>2, <1>11, <2>1 DEF Replies
  <2> QED BY <1>2, <2>1, <2>2, RepliesFresh
<1>16. Ended(p, out)
  BY <1>2, <1>11 DEF Ended, Handled
<1>17. Delivers(p, out) /\ SendsOK(p, g, out) /\ outgoing' = [x \in Server |-> NoMessages]
  BY <1>15, <1>16, CallEnds
<1>18. ReceivesOK(p, g)
  <2>1. storage'[p] = t
    BY <1>1, <1>10 DEF TypeOK
  <2>2. /\ t.promise = n /\ t.accepted_round = n /\ t.accepted_idx \in Nat
        /\ t.accepted_idx + Len(t.batched_entries) = End(h, p, m)
        /\ storage[p].accepted_idx <= t.accepted_idx
    BY <1>2, StorageFields DEF Holds
  <2> QED BY <1>2, <1>3, <1>11, <2>1, <2>2, ReceivesNext
<1> QED BY <1>13, <1>14, <1>17, <1>18, FollowingExplained

\* handle_acceptdecide.
LEMMA HandleAcceptDecideExplained ==
  ASSUME NEW h, From(h), NEW p \in Server, NEW q \in Peers(p), handle_acceptdecide(p, q)
  PROVE  \E g : Succeeds(h, g)
<1>1. PICK m, n, s, t : /\ m = Head(net[q][p]) /\ n = storage[p].promise
                        /\ s = append_entries_with_batching(storage[p], m.entries)
                        /\ t = update_decided_idx(s, m.decided_idx)
  OBVIOUS
<1>2. /\ IncomingAccept(p, q, "AcceptDecide")
      /\ \E replies : follow(p, q, t, replies)
  BY <1>1 DEF handle_acceptdecide
<1>3. Expects(h, p, q, m, n) /\ m.type = "AcceptDecide"
  BY <1>1, <1>2, FollowerExpects DEF IncomingAccept, Incoming
<1>4. /\ h \in History /\ storage[p] \in Storage /\ LogOK(h, p, storage[p]) /\ Plain
  BY FromFacts
<1>5. PICK a \in Entries : a = h.rlog[n]
  BY <1>3, <1>4, HistoryFields DEF Expects
<1>6. PICK e : e = h.start[n][p][m.seq_num] /\ Holds(a, storage[p], storage[p], e)
  BY <1>3, <1>5 DEF Expects
<1>7. m.decided_idx \in Nat /\ m.entries \in Entries /\ m.n = n /\ MsgOK(h, q, p, m)
  BY <1>3, <1>4, AcceptFields DEF Expects, AcceptTypes
<1>8. Segment(a, e, m.entries) /\ End(h, p, m) = e + Len(m.entries)
  BY <1>3, <1>5, <1>6, <1>7 DEF MsgOK, DecideMsgOK
<1>9. Holds(a, storage[p], s, e + Len(m.entries)) /\ s.decided_idx = storage[p].decided_idx
  <2>1. PICK s0, ents : s0 \in Storage /\ s0 = storage[p] /\ ents \in Entries /\ ents = m.entries
    BY <1>4, <1>7
  <2>2. Holds(a, s0, s0, e) /\ Segment(a, e, ents) /\ s = append_entries_with_batching(s0, ents)
    BY <1>1, <1>6, <1>8, <2>1
  <2>3. Holds(a, s0, s, e + Len(ents)) /\ s.decided_idx = s0.decided_idx
    BY <2>1, <2>2, HoldsBatched
  <2> QED BY <2>1, <2>3
<1>10. s.decided_idx <= s.accepted_idx
  <2>1. storage[p].decided_idx <= storage[p].accepted_idx /\ storage[p].accepted_idx <= s.accepted_idx
    BY <1>4, <1>9 DEF LogOK, Holds
  <2>2. storage[p].decided_idx \in Nat /\ storage[p].accepted_idx \in Nat /\ s.accepted_idx \in Nat
    BY <1>4, <1>9, StorageFields DEF Holds
  <2> QED BY <1>9, <2>1, <2>2
<1>11. Holds(a, storage[p], t, e + Len(m.entries)) /\ DecidesUpTo(s, t, m.decided_idx)
  BY <1>1, <1>4, <1>7, <1>9, <1>10, HoldsDecided
<1>12. Holds(h.rlog[n], storage[p], t, End(h, p, m)) /\ DecidesUpTo(storage[p], t, m.decided_idx)
  BY <1>5, <1>8, <1>9, <1>11 DEF DecidesUpTo
<1> QED BY <1>2, <1>3, <1>12, FollowExplained

\* handle_decide.
LEMMA HandleDecideExplained ==
  ASSUME NEW h, From(h), NEW p \in Server, NEW q \in Peers(p), handle_decide(p, q)
  PROVE  \E g : Succeeds(h, g)
<1>1. PICK m, n, t : /\ m = Head(net[q][p]) /\ n = storage[p].promise
                     /\ t = update_decided_idx(storage[p], m.decided_idx)
  OBVIOUS
<1>2. /\ IncomingAccept(p, q, "Decide")
      /\ \E replies : follow(p, q, t, replies)
  BY <1>1 DEF handle_decide
<1>3. Expects(h, p, q, m, n) /\ m.type = "Decide"
  BY <1>1, <1>2, FollowerExpects DEF IncomingAccept, Incoming
<1>4. /\ h \in History /\ storage[p] \in Storage /\ LogOK(h, p, storage[p])
  BY FromFacts
<1>5. PICK a \in Entries : a = h.rlog[n]
  BY <1>3, <1>4, HistoryFields DEF Expects
<1>6. PICK e : e = h.start[n][p][m.seq_num] /\ Holds(a, storage[p], storage[p], e)
  BY <1>3, <1>5 DEF Expects
<1>7. m.decided_idx \in Nat /\ End(h, p, m) = e
  BY <1>3, <1>6 DEF Expects, MsgOK
<1>8. Holds(a, storage[p], t, e) /\ DecidesUpTo(storage[p], t, m.decided_idx)
  BY <1>1, <1>4, <1>6, <1>7, HoldsDecided DEF LogOK
<1> QED BY <1>2, <1>3, <1>5, <1>7, <1>8, FollowExplained

\* flush_batch_follower.
LEMMA FlushFollowerExplained ==
  ASSUME NEW h, From(h), NEW p \in Server, p \notin panicked, flush_batch_follower(p), UNCHANGED << state, panicked >>
  PROVE  \E g : Succeeds(h, g)
<1>1. PICK t, f, n : /\ t = flush_batch(storage[p]) /\ f = follower_state[p] /\ n = storage[p].promise
  OBVIOUS
<1>2. /\ TypeOK /\ h \in History /\ storage[p] \in Storage /\ f \in FollowerState /\ Inv
      /\ LogOK(h, p, storage[p]) /\ FollowingOK(h, p) /\ Plain
      /\ outgoing[p] = NoMessages /\ Explains(h)
  BY <1>1, FromFacts
<1>3. /\ state[p] = << "Follower", "Accept" >> /\ storage' = [storage EXCEPT ![p] = t]
      /\ follower_state' = [follower_state EXCEPT ![p] = reply_accepted_meta(f, outgoing[p], t.promise)]
      /\ Called(p, reply_accepted_outgoing(f, outgoing[p], t.promise, t.accepted_idx))
      /\ UNCHANGED leader_state
  BY <1>1 DEF flush_batch_follower
<1>4. /\ n \in h.est /\ n \in Ballot /\ n.pid # p /\ n.pid \in Server
      /\ f.current_seq_num \in SequenceNumber /\ Sent(n.pid, n, p, f.current_seq_num)
  BY <1>1, <1>2, <1>3, FollowedRound
<1>5. PICK e : /\ e = h.start[n][p][next_seq_num(f.current_seq_num)]
               /\ Holds(h.rlog[n], storage[p], storage[p], e) /\ storage[p].accepted_round = n
  BY <1>1, <1>3, FollowerHolds
<1>6. PICK a \in Entries : a = h.rlog[n]
  BY <1>2, <1>4, HistoryFields
<1>7. /\ Holds(a, storage[p], t, e) /\ t.batched_entries = << >> /\ t.decided_idx = storage[p].decided_idx
      /\ t.accepted_idx = e
  <2>1. PICK s0 : s0 \in Storage /\ s0 = storage[p]
    BY <1>2
  <2>2. Holds(a, s0, s0, e) /\ t = flush_batch(s0)
    BY <1>1, <1>5, <1>6, <2>1
  <2> QED BY <2>1, <2>2, HoldsFlushed
<1>8. /\ t \in Storage /\ t.promise = n /\ t.accepted_round = n /\ t.snapshot = None /\ t.stopsign = None
      /\ t.accepted_idx = t.compacted_idx + Len(t.log) /\ Segment(a, t.compacted_idx, t.log)
      /\ Segment(a, t.accepted_idx, t.batched_entries)
      /\ t.accepted_idx + Len(t.batched_entries) = e /\ storage[p].accepted_idx <= t.accepted_idx
      /\ t.compacted_idx = storage[p].compacted_idx
  BY <1>1, <1>2, <1>5, <1>7 DEF Holds, LogOK
<1>9. f.latest_accepted_meta.idx = 0
  BY <1>1, <1>2 DEF FollowingOK
<1>10. ~ has_latest_accepted(f, outgoing[p], n)
  BY <1>9 DEF has_latest_accepted
<1>11. PICK f1 : f1 = [f EXCEPT !.latest_accepted_meta = [n |-> n, idx |-> 0]]
  OBVIOUS
<1>12. /\ f1.current_seq_num = f.current_seq_num /\ f1.latest_accepted_meta.idx = 0
       /\ f1.cached_promise_message = f.cached_promise_message
  BY <1>2, <1>11 DEF FollowerState
<1>13. cached_idx(outgoing[p], n.pid) = 0
  BY <1>2 DEF cached_idx, Plain
<1>14. follower_state' = [follower_state EXCEPT ![p] = f1]
  BY <1>3, <1>8, <1>10, <1>11, <1>13 DEF reply_accepted_meta
<1>15. PICK idx \in Nat : idx = t.accepted_idx
  BY <1>8, StorageFields
<1>16. PICK out : out = send(NoMessages, n.pid, Accepted(n, idx)) /\ Called(p, out)
  BY <1>2, <1>3, <1>8, <1>10, <1>15 DEF reply_accepted_outgoing
<1>17. Updates(p, t, << "Follower", "Accept" >>, leader_state[p], f1)
  BY <1>2, <1>3, <1>14, Unchanged DEF Updates
<1>18. h.acc[p][n] <= t.accepted_idx /\ h.base[n] <= t.accepted_idx /\ t.decided_idx <= t.accepted_idx
  <2>1. /\ h.acc[p][n] = storage[p].accepted_idx /\ h.base[n] <= storage[p].accepted_idx
        /\ storage[p].decided_idx <= storage[p].accepted_idx
    BY <1>2, <1>4, <1>5 DEF LogOK
  <2>2. /\ h.base[n] \in Nat /\ storage[p].accepted_idx \in Nat /\ storage[p].decided_idx \in Nat
    BY <1>2, <1>4, HistoryFields, StorageFields
  <2> QED BY <1>7, <1>8, <1>15, <2>1, <2>2
<1>19. DecidedIn(h, n, t.decided_idx)
  BY <1>2, <1>5, <1>7 DEF LogOK
<1>20. Following(p, h, n, t, f1)
  BY <1>1, <1>4, <1>5, <1>6, <1>8, <1>12, <1>17, <1>18, <1>19 DEF Following
<1>21. PICK g : AcceptsMore(p, h, g, n, t.accepted_idx) /\ Step(p, h, g)
  BY <1>20, FollowingStep
<1>22. idx <= g.acc[p][n]
  BY <1>15, <1>21 DEF AcceptsMore, Continues
<1>23. Fresh(p, g, out)
  BY <1>4, <1>16, <1>22, RepliesFresh DEF Replies
<1>24. Delivers(p, out) /\ SendsOK(p, g, out) /\ outgoing' = [x \in Server |-> NoMessages]
  <2>1. Ended(p, out)
    BY <1>16 DEF Ended, Called
  <2> QED BY <1>23, <2>1, CallEnds
<1>25. ReceivesOK(p, g)
  <2>1. storage'[p] = t
    BY <1>2, <1>3 DEF TypeOK
  <2>2. storage[p].accepted_idx + Len(storage[p].batched_entries) = e
    BY <1>5 DEF Holds
  <2>3. t.accepted_idx + Len(t.batched_entries) <= storage[p].accepted_idx + Len(storage[p].batched_entries)
    BY <1>7, <1>8, <1>15, <2>2
  <2> QED BY <1>5, <1>8, <1>21, <1>24, <2>1, <2>3, ReceivesKept
<1> QED BY <1>20, <1>21, <1>24, <1>25, FollowingExplained

------------------------------------------------------------------------------
(* Synchronising with the leader *)

\* The AcceptSync of the round that p has promised.
SyncsWith(h, p, q, m, n, sync) ==
  /\ net[q][p] # << >> /\ p \notin panicked /\ state[p] = << "Follower", "Prepare" >>
  /\ m = Head(net[q][p]) /\ m \in Message /\ m.type = "AcceptSync" /\ MsgOK(h, q, p, m)
  /\ n = storage[p].promise /\ m.n = n /\ n \in h.est /\ n \in Ballot /\ n.pid = q
  /\ m.seq_num \in SequenceNumber /\ m.decided_idx \in Nat
  /\ sync = m.log_sync /\ sync \in LogSync
  /\ TargetOK(h, storage[p], m) /\ storage[p].batched_entries = << >>

\* What IncomingAccept lets through is one.
LEMMA SyncArrives ==
  ASSUME NEW h, From(h), NEW p \in Server, NEW q \in Peers(p), IncomingAccept(p, q, "AcceptSync"),
         NEW m, m = Head(net[q][p]), NEW n, n = storage[p].promise, NEW sync, sync = m.log_sync
  PROVE  SyncsWith(h, p, q, m, n, sync)
<1>1. TypeOK /\ Explains(h) /\ Plain /\ FollowingOK(h, p)
  BY FromFacts
<1>2. /\ net[q][p] # << >> /\ p \notin panicked /\ m.type = "AcceptSync" /\ m.n = n /\ in_phase(p, m)
  BY DEF IncomingAccept, Incoming
<1>3. m \in Message /\ MsgOK(h, q, p, m) /\ SyncTargetOK(h, p, m)
  BY <1>1, <1>2, HeadOK
<1>4. m.type \in AcceptTypes
  BY <1>2 DEF AcceptTypes
<1>5. m.n.pid = q /\ m.n \in h.est
  BY <1>3, <1>4 DEF MsgOK, AcceptMsgOK
<1>6. m.n \in Ballot /\ m.seq_num \in SequenceNumber /\ m.decided_idx \in Nat /\ m.log_sync \in LogSync
  BY <1>1, <1>2, <1>3, <1>4, AcceptFields
<1>7. TargetOK(h, storage[p], m)
  BY <1>2, <1>3 DEF SyncTargetOK
<1>8. state[p] = << "Follower", "Prepare" >>
  BY <1>2 DEF in_phase
<1>9. storage[p].batched_entries = << >>
  BY <1>1, <1>2, <1>8 DEF FollowingOK
<1> QED BY <1>2, <1>3, <1>5, <1>6, <1>7, <1>8, <1>9 DEF SyncsWith

\* The log can be cut and gone on with.
LEMMA SyncJoins ==
  ASSUME NEW h, From(h), NEW p \in Server, NEW q, NEW m, NEW n, NEW sync, SyncsWith(h, p, q, m, n, sync)
  PROVE  Joins(h.rlog[storage[p].accepted_round], h.rlog[n], storage[p], sync)
<1>1. /\ h \in History /\ storage[p] \in Storage /\ LogOK(h, p, storage[p])
  BY FromFacts
<1>2. PICK s, r, a, b, idx : /\ s = storage[p] /\ r = s.accepted_round /\ a = h.rlog[r] /\ b = h.rlog[n]
                             /\ idx = sync.sync_idx
  OBVIOUS
<1>3. /\ s.accepted_idx = s.compacted_idx + Len(s.log) /\ Segment(a, s.compacted_idx, s.log)
  BY <1>1, <1>2 DEF LogOK
<1>4. SyncMsgOK(h, p, m) /\ TargetOK(h, s, m) /\ m.n = n
  BY <1>2 DEF SyncsWith, MsgOK
<1>5. /\ sync = m.log_sync /\ sync \in LogSync
  BY DEF SyncsWith
<1>6. /\ sync.decided_snapshot.kind = "None" /\ Segment(b, idx, sync.suffix)
  BY <1>2, <1>4, <1>5 DEF SyncMsgOK
<1>7. idx <= s.accepted_idx /\ (r # n => Agree(a, b, idx))
  BY <1>2, <1>4, <1>5 DEF TargetOK
<1>8. idx \in Nat /\ a \in Entries
  BY <1>1, <1>2, <1>5, StorageFields, HistoryFields DEF LogSync
<1>9. CASE r = n
  <2>1. s.compacted_idx + Len(s.log) <= Len(a)
    BY <1>3 DEF Segment
  <2>2. s.accepted_idx \in Nat /\ Len(a) \in Nat
    BY <1>1, <1>2, <1>8, StorageFields, LenProperties DEF Entries
  <2>3. idx <= Len(a)
    BY <1>3, <1>7, <1>8, <2>1, <2>2
  <2>4. Agree(a, b, idx)
    BY <1>2, <1>8, <1>9, <2>3, AgreeSelf
  <2> QED BY <1>2, <1>3, <1>6, <1>7, <2>4 DEF Joins
<1>10. CASE r # n
  BY <1>2, <1>3, <1>6, <1>7, <1>10 DEF Joins
<1> QED BY <1>9, <1>10

\* p stores what it is sent, and follows.
LEMMA SyncFollows ==
  ASSUME NEW h, From(h), NEW p \in Server, NEW q \in Peers(p), NEW m, NEW n, NEW sync,
         SyncsWith(h, p, q, m, n, sync),
         NEW t, Synced(h.rlog[n], storage[p], t, n, m.decided_idx, sync.sync_idx + Len(sync.suffix)),
         NEW f, f.current_seq_num = m.seq_num, f.latest_accepted_meta.idx = 0, f.cached_promise_message = None,
         Updates(p, t, << "Follower", "Accept" >>, leader_state[p], f), panicked' = panicked
  PROVE  /\ Following(p, h, n, t, f)
         /\ t.batched_entries = << >> /\ t.accepted_idx \in Nat /\ t.accepted_idx = End(h, p, m)
<1>1. /\ h \in History /\ storage[p] \in Storage /\ LogOK(h, p, storage[p]) /\ VoteInv(h) /\ Inv
  BY FromFacts
<1>2. /\ t \in Storage /\ t.promise = n /\ t.accepted_round = n /\ t.decided_idx = m.decided_idx
      /\ t.snapshot = None /\ t.stopsign = None /\ t.batched_entries = << >>
      /\ t.accepted_idx = t.compacted_idx + Len(t.log) /\ Segment(h.rlog[n], t.compacted_idx, t.log)
      /\ t.accepted_idx = sync.sync_idx + Len(sync.suffix)
      /\ t.compacted_idx = storage[p].compacted_idx
  BY <1>1 DEF Synced, SyncsWith, LogOK
<1>3. /\ p \notin panicked /\ n = storage[p].promise /\ n \in h.est /\ n \in Ballot /\ n.pid # p /\ n.pid = q
      /\ m.type \in AcceptTypes /\ m.n = n /\ m.seq_num \in SequenceNumber /\ sync = m.log_sync
      /\ SyncMsgOK(h, p, m) /\ AcceptMsgOK(h, q, p, m) /\ TargetOK(h, storage[p], m)
      /\ storage[p].batched_entries = << >>
  BY DEF SyncsWith, MsgOK, AcceptTypes, Peers
<1>4. t.accepted_idx = End(h, p, m)
  BY <1>2, <1>3 DEF SyncMsgOK
<1>5. h.base[n] <= t.accepted_idx /\ t.decided_idx <= t.accepted_idx
  BY <1>2, <1>3, <1>4 DEF SyncMsgOK
<1>6. DecidedIn(h, n, t.decided_idx) /\ Sent(n.pid, n, p, f.current_seq_num)
  BY <1>2, <1>3 DEF AcceptMsgOK
<1>7. h.start[n][p][next_seq_num(f.current_seq_num)] = t.accepted_idx
  BY <1>3, <1>4 DEF End
<1>8. /\ t.accepted_idx \in Nat /\ storage[p].accepted_idx \in Nat /\ storage[p].accepted_round \in Ballot
      /\ h.acc[p][n] \in Nat /\ h.rlog[n] \in Entries /\ Len(h.rlog[n]) \in Nat
  BY <1>1, <1>2, <1>3, StorageFields, HistoryFields
<1>9. h.acc[p][n] <= t.accepted_idx
  <2>1. CASE storage[p].accepted_round = n
    <3>1. h.acc[p][n] = storage[p].accepted_idx
      BY <1>1, <2>1 DEF LogOK
    <3>2. storage[p].accepted_idx + Len(storage[p].batched_entries) <= t.accepted_idx
      BY <1>2, <1>3, <2>1 DEF TargetOK
    <3>3. Len(storage[p].batched_entries) = 0
      BY <1>3
    <3> QED BY <1>8, <3>1, <3>2, <3>3
  <2>2. CASE storage[p].accepted_round # n
    <3>1. storage[p].accepted_round \preceq n
      BY <1>1, <1>3 DEF Inv, StorageInv
    <3>2. h.acc[p][n] = 0
      BY <1>1, <1>3, <2>2, <3>1 DEF VoteInv, \preceq
    <3> QED BY <1>8, <3>2
  <2> QED BY <2>1, <2>2
<1>10. Segment(h.rlog[n], t.accepted_idx, t.batched_entries)
  <2>1. t.accepted_idx <= Len(h.rlog[n])
    BY <1>2 DEF Segment
  <2> QED BY <1>2, <1>8, <2>1 DEF Segment
<1>11. t.accepted_idx + Len(t.batched_entries) = t.accepted_idx
  BY <1>2, <1>8
<1>12. Following(p, h, n, t, f)
  BY <1>2, <1>3, <1>5, <1>6, <1>7, <1>9, <1>10, <1>11 DEF Following
<1> QED BY <1>2, <1>4, <1>8, <1>12

\* The proposals that p buffered, if there are any, and what it accepted.
RepliesToSync(p, q, n, idx, entries, out) ==
  \/ out = send(NoMessages, q, Accepted(n, idx))
  \/ out = send(send(NoMessages, q, ProposalForward(entries)), q, Accepted(n, idx))

\* Two messages to one server.
LEMMA TwoSends ==
  ASSUME NEW h, Explains(h), NEW q \in Server, NEW k \in Message, NEW x \in Message,
         NEW out, out = send(send(NoMessages, q, k), q, x)
  PROVE  \A y \in Server : out[y] = IF y = q THEN << k, x >> ELSE << >>
<1>1. PICK o : o = send(NoMessages, q, k)
  OBVIOUS
<1>2. \A y \in Server : o[y] = IF y = q THEN << k >> ELSE << >>
  BY <1>1, NothingWaits
<1>3. DOMAIN o = Server
  BY <1>1 DEF send, NoMessages
<1>4. out = [o EXCEPT ![q] = Append(o[q], x)]
  BY <1>1 DEF send
<1>5. \A y \in Server : out[y] = IF y = q THEN Append(o[q], x) ELSE o[y]
  BY <1>3, <1>4
<1>6. Append(<< k >>, x) = << k, x >>
  <2>1. PICK s, r : s = Append(<< k >>, x) /\ r = << k, x >>
    OBVIOUS
  <2>2. << k >> \in Seq(Message) /\ Len(<< k >>) = 1 /\ << k >>[1] = k
    OBVIOUS
  <2>3. s \in Seq(Message) /\ Len(s) = 2 /\ s[1] = k /\ s[2] = x
    BY <2>1, <2>2, AppendProperties
  <2>4. r \in Seq(Message) /\ Len(r) = 2 /\ r[1] = k /\ r[2] = x
    BY <2>1
  <2>5. \A i \in 1 .. Len(s) : s[i] = r[i]
    BY <2>3, <2>4
  <2>6. s = r
    BY <2>3, <2>4, <2>5, SeqEqual
  <2> QED BY <2>1, <2>6
<1>7. o[q] = << k >>
  BY <1>2
<1> QED BY <1>2, <1>5, <1>6, <1>7

\* They are as the history tells.
LEMMA SyncReplies ==
  ASSUME NEW h, From(h), NEW p \in Server, NEW q \in Peers(p), NEW n \in Ballot, NEW idx \in Nat,
         NEW entries \in Entries, NEW g, idx <= g.acc[p][n], NEW out, RepliesToSync(p, q, n, idx, entries, out)
  PROVE  SendsOK(p, g, out) /\ \A y \in Peers(p) : out[y] \in Seq(Message)
<1>1. Explains(h) /\ q \in Server
  BY DEF From, Peers
<1>2. PICK x, k : x = Accepted(n, idx) /\ k = ProposalForward(entries)
  OBVIOUS
<1>3. /\ x \in Message /\ x.type # "AcceptSync" /\ \A y : FreshOK(p, g, y, x)
  BY <1>2, AcceptedFresh DEF Accepted
<1>4. /\ k \in Message /\ k.type # "AcceptSync" /\ \A y : FreshOK(p, g, y, k)
  <2>1. k.type = "ProposalForward" /\ k \in Message
    BY <1>2 DEF ProposalForward, Message
  <2> QED BY <2>1, HarmlessFresh
<1>5. << x >> \in Seq(Message) /\ << k, x >> \in Seq(Message) /\ << >> \in Seq(Message)
  BY <1>3, <1>4
<1>6. \A y \in Peers(p) : out[y] \in {<< >>, << x >>, << k, x >>}
  <2>1. CASE out = send(NoMessages, q, x)
    BY <1>1, <2>1, NothingWaits DEF Peers
  <2>2. CASE out = send(send(NoMessages, q, k), q, x)
    <3>1. \A y \in Server : out[y] = IF y = q THEN << k, x >> ELSE << >>
      BY <1>1, <1>3, <1>4, <2>2, TwoSends
    <3> QED BY <3>1 DEF Peers
  <2> QED BY <1>2, <2>1, <2>2 DEF RepliesToSync
<1>7. \A y \in Peers(p) : /\ out[y] \in Seq(Message)
                          /\ \A i \in 1 .. Len(out[y]) :
                               out[y][i].type # "AcceptSync" /\ FreshOK(p, g, y, out[y][i])
  <2> SUFFICES ASSUME NEW y \in Peers(p), NEW i \in 1 .. Len(out[y])
               PROVE  out[y][i] \in {k, x}
    BY <1>3, <1>4, <1>5, <1>6
  <2>1. Len(<< >>) = 0 /\ Len(<< x >>) = 1 /\ Len(<< k, x >>) = 2 /\ << x >>[1] = x
        /\ << k, x >>[1] = k /\ << k, x >>[2] = x
    OBVIOUS
  <2>2. i \in Nat /\ 1 <= i /\ i <= Len(out[y])
    BY <1>5, <1>6
  <2> QED BY <1>6, <2>1, <2>2
<1> QED BY <1>7, SendsPlain

\* handle_acceptsync.
LEMMA HandleAcceptSyncExplained ==
  ASSUME NEW h, From(h), NEW p \in Server, NEW q \in Peers(p), handle_acceptsync(p, q)
  PROVE  \E g : Succeeds(h, g)
<1> DEFINE m0 == Head(net[q][p])
           s0 == sync_log(storage[p], m0.n, m0.decided_idx, m0.log_sync)
           forwards == s0.stopsign = None /\ buffered_proposals[p] # << >>
           out0 == IF forwards THEN forward_proposals_outgoing(p, outgoing[p], buffered_proposals[p])
                               ELSE outgoing[p]
           f0 == [current_seq_num |-> m0.seq_num, cached_promise_message |-> None,
                  latest_accepted_meta |-> [n |-> m0.n, idx |-> cached_idx(out0, q)]]
<1>1. /\ IncomingAccept(p, q, "AcceptSync")
      /\ IF sync_log_panics(storage[p], m0.decided_idx, m0.log_sync)
           THEN Panic(p, q) /\ UNCHANGED storage
           ELSE /\ storage' = [storage EXCEPT ![p] = s0]
                /\ state' = [state EXCEPT ![p] = << "Follower", "Accept" >>]
                /\ follower_state' = [follower_state EXCEPT ![p] = f0]
                /\ Handled(p, q, send(out0, q, Accepted(m0.n, s0.accepted_idx)))
                /\ UNCHANGED << leader_state, buffered_stopsign, panicked >>
  BY Zenon DEF handle_acceptsync
<1>2. PICK m, n, sync, t, o, f, out :
        /\ m = m0 /\ n = storage[p].promise /\ sync = m.log_sync /\ t = s0 /\ o = out0 /\ f = f0
        /\ out = send(out0, q, Accepted(m0.n, s0.accepted_idx))
  OBVIOUS
<1>3. /\ TypeOK /\ Explains(h) /\ Plain /\ h \in History /\ storage[p] \in Storage
      /\ outgoing[p] = NoMessages /\ buffered_proposals[p] \in Entries
  BY FromFacts DEF TypeOK
<1>4. IncomingAccept(p, q, "AcceptSync") /\ m = Head(net[q][p])
  BY <1>1, <1>2
<1>5. SyncsWith(h, p, q, m, n, sync)
  BY <1>2, <1>4, SyncArrives
<1>6. /\ t = sync_log(storage[p], n, m.decided_idx, sync) /\ n = m.n
  BY <1>2, <1>5 DEF SyncsWith
<1>7. \/ Panic(p, q) /\ UNCHANGED storage
      \/ /\ ~ sync_log_panics(storage[p], m.decided_idx, sync)
         /\ storage' = [storage EXCEPT ![p] = t]
         /\ state' = [state EXCEPT ![p] = << "Follower", "Accept" >>]
         /\ follower_state' = [follower_state EXCEPT ![p] = f]
         /\ Handled(p, q, out)
         /\ UNCHANGED << leader_state, panicked >>
  BY <1>1, <1>2
<1>8. /\ f.current_seq_num = m.seq_num /\ f.cached_promise_message = None
      /\ f.latest_accepted_meta.idx = 0
  BY <1>2, <1>3 DEF cached_idx, Plain
<1>9. RepliesToSync(p, q, n, t.accepted_idx, buffered_proposals[p], out)
  <2>1. o = NoMessages \/ o = send(NoMessages, q, ProposalForward(buffered_proposals[p]))
    <3>1. storage[p].promise.pid = q
      BY <1>5 DEF SyncsWith
    <3> QED BY <1>2, <1>3, <3>1 DEF forward_proposals_outgoing, get_current_leader
  <2>2. out = send(o, q, Accepted(n, t.accepted_idx))
    BY <1>2, <1>6
  <2> QED BY <2>1, <2>2 DEF RepliesToSync
<1> HIDE DEF m0, s0, forwards, out0, f0
<1>10. net[q][p] # << >>
  BY <1>5 DEF SyncsWith
<1>11. CASE Panic(p, q) /\ UNCHANGED storage
  <2>1. /\ panicked' = panicked \cup {p} /\ net' = Consume(p, q)
        /\ UNCHANGED << storage, state, leader_state, follower_state, outgoing >>
    BY <1>11 DEF Panic
  <2> QED BY <1>10, <2>1, ConsumeExplained
<1>12. CASE /\ ~ sync_log_panics(storage[p], m.decided_idx, sync)
            /\ storage' = [storage EXCEPT ![p] = t]
            /\ state' = [state EXCEPT ![p] = << "Follower", "Accept" >>]
            /\ follower_state' = [follower_state EXCEPT ![p] = f]
            /\ Handled(p, q, out)
            /\ UNCHANGED << leader_state, panicked >>
  <2>1. n \in Ballot /\ n = storage[p].promise /\ m.decided_idx \in Nat /\ sync \in LogSync
    BY <1>5 DEF SyncsWith
  <2>2. Synced(h.rlog[n], storage[p], t, n, m.decided_idx, sync.sync_idx + Len(sync.suffix))
    <3>1. Joins(h.rlog[storage[p].accepted_round], h.rlog[n], storage[p], sync)
      BY <1>5, SyncJoins
    <3>2. PICK s, a, b, d : /\ s = storage[p] /\ a = h.rlog[storage[p].accepted_round] /\ b = h.rlog[n]
                            /\ d = m.decided_idx
      OBVIOUS
    <3>3. s \in Storage /\ a \in Entries /\ b \in Entries /\ d \in Nat
      BY <1>3, <2>1, <3>2, StorageFields, HistoryFields
    <3>4. /\ ~ sync_log_panics(s, d, sync) /\ Joins(a, b, s, sync) /\ t = sync_log(s, n, d, sync)
      BY <1>6, <1>12, <3>1, <3>2
    <3>5. Synced(b, s, t, n, d, sync.sync_idx + Len(sync.suffix))
      BY <1>3, <2>1, <3>3, <3>4, SyncLogFields
    <3> QED BY <3>2, <3>5
  <2>3. Updates(p, t, << "Follower", "Accept" >>, leader_state[p], f) /\ panicked' = panicked
    BY <1>3, <1>12, Unchanged DEF Updates
  <2>4. /\ Following(p, h, n, t, f)
        /\ t.batched_entries = << >> /\ t.accepted_idx \in Nat /\ t.accepted_idx = End(h, p, m)
    BY <1>5, <1>8, <2>2, <2>3, SyncFollows
  <2>5. PICK g : AcceptsMore(p, h, g, n, t.accepted_idx) /\ Step(p, h, g)
    BY <2>4, FollowingStep
  <2>6. PICK idx \in Nat : idx = t.accepted_idx /\ idx <= g.acc[p][n]
    BY <2>4, <2>5 DEF AcceptsMore, Continues
  <2>7. PICK entries \in Entries : entries = buffered_proposals[p]
    BY <1>3
  <2>8. SendsOK(p, g, out) /\ \A y \in Peers(p) : out[y] \in Seq(Message)
    BY <1>9, <2>1, <2>6, <2>7, SyncReplies
  <2>9. Delivers(p, out) /\ outgoing' = [x \in Server |-> NoMessages]
    <3>1. EndCall(p, out, Consume(p, q))
      BY <1>12 DEF Handled
    <3> QED BY <1>3, <1>10, <2>8, <3>1, CallDelivers
  <2>10. ReceivesOK(p, g)
    <3>1. /\ m = Head(net[q][p]) /\ m.type = "AcceptSync" /\ m.type \in AcceptTypes /\ m.n = n
      BY <1>5 DEF SyncsWith, AcceptTypes
    <3>2. /\ storage'[p] = t /\ t.promise = n /\ t.accepted_round = n
      BY <1>3, <1>12, <2>4 DEF TypeOK, Following
    <3>3. t.accepted_idx + Len(t.batched_entries) = End(h, p, m)
      BY <2>4
    <3>4. Handled(p, q, out)
      BY <1>12
    <3> QED BY <1>10, <2>1, <2>4, <3>1, <3>2, <3>3, <3>4, ReceivesNext
  <2> QED BY <2>4, <2>5, <2>8, <2>9, <2>10, FollowingExplained
<1> QED BY <1>7, <1>11, <1>12
------------------------------------------------------------------------------
(* Compaction and recovery *)

\* t is s with less in memory, or without its batch.
Loses(s, t) ==
  /\ t \in Storage
  /\ t.promise = s.promise /\ t.accepted_round = s.accepted_round
  /\ t.decided_idx = s.decided_idx /\ t.accepted_idx = s.accepted_idx
  /\ t.snapshot = s.snapshot /\ t.stopsign = s.stopsign
  /\ t.batched_entries \in {s.batched_entries, << >>}

\* What a leader knows does not depend on the rest.
LEMMA LosesLeading ==
  ASSUME NEW h, NEW p, NEW s, NEW t, Loses(s, t), t.batched_entries = s.batched_entries, NEW l
  PROVE  /\ PrepareOK(h, p, s, l) => PrepareOK(h, p, t, l)
         /\ LeaderOK(h, p, s, l) => LeaderOK(h, p, t, l)
         /\ AcceptOK(h, p, s, l) => AcceptOK(h, p, t, l)
<1>1. Meta(t) = Meta(s)
  BY DEF Loses, Meta
<1>2. \A meta, sync : AdoptOK(h, s, meta, sync) => AdoptOK(h, t, meta, sync)
  BY <1>1 DEF Loses, AdoptOK
<1>3. MaxOK(h, s, l) => MaxOK(h, t, l)
  BY <1>2 DEF Loses, MaxOK
<1>4. PrepareOK(h, p, s, l) => PrepareOK(h, p, t, l)
  BY <1>1, <1>3 DEF Loses, PrepareOK
<1> QED BY <1>4 DEF Loses, LeaderOK, AcceptOK

\* Nor does what a follower knows.
LEMMA LosesFollowing ==
  ASSUME NEW h, NEW p, NEW s, NEW t, Loses(s, t), t.batched_entries = s.batched_entries, NEW f
  PROVE  FollowsOK(h, p, s, f) => FollowsOK(h, p, t, f)
BY DEF Loses, FollowsOK

\* The log is still that of the round, compacted or not.
LEMMA LosesLog ==
  ASSUME NEW h \in History, NEW p \in Server, NEW s \in Storage, NEW t, Loses(s, t), LogOK(h, p, s), BatchOK(h, p, s),
         t.accepted_idx = t.compacted_idx + Len(t.log),
         Segment(h.rlog[s.accepted_round], t.compacted_idx, t.log), HeldByAll(h, t.compacted_idx)
  PROVE  LogOK(h, p, t) /\ BatchOK(h, p, t)
<1>1. LogOK(h, p, t)
  BY Zenon DEF LogOK, Loses
<1>2. CASE t.batched_entries = s.batched_entries
  BY <1>1, <1>2 DEF BatchOK, Loses
<1>3. CASE t.batched_entries = << >>
  <2>1. PICK a : a = h.rlog[s.accepted_round]
    OBVIOUS
  <2>2. /\ a \in Entries /\ Len(a) \in Nat /\ s.accepted_idx \in Nat
        /\ t.compacted_idx \in Nat /\ Len(t.log) \in Nat
    BY <2>1, StorageFields, HistoryFields DEF Loses
  <2>3. s.accepted_idx <= Len(a)
    BY <2>1, <2>2 DEF Segment, Loses
  <2>4. Segment(a, s.accepted_idx, << >>)
    BY <2>2, <2>3 DEF Segment
  <2> QED BY <1>1, <1>3, <2>1, <2>4 DEF BatchOK, Loses
<1> QED BY <1>1, <1>2, <1>3 DEF Loses

\* What is still to come fits as before.
LEMMA LosesReceives ==
  ASSUME NEW p \in Server, NEW h, Step(p, h, h), NEW out, Delivers(p, out), Loses(storage[p], storage'[p])
  PROVE  ReceivesOK(p, h)
<1>1. PICK s \in Storage, t \in Storage : s = storage[p] /\ t = storage'[p]
  BY StepFacts
<1>2. /\ s.accepted_idx \in Nat /\ Len(s.batched_entries) \in Nat
  BY StorageFields
<1>3. t.accepted_round = s.accepted_round /\ t.accepted_idx = s.accepted_idx
  BY <1>1 DEF Loses
<1>4. Len(t.batched_entries) <= Len(s.batched_entries)
  BY <1>1, <1>2 DEF Loses
<1>5. Len(t.batched_entries) \in Nat
  BY StorageFields
<1>6. t.accepted_idx + Len(t.batched_entries) <= s.accepted_idx + Len(s.batched_entries)
  BY <1>2, <1>3, <1>4, <1>5
<1>7. s.accepted_idx <= t.accepted_idx
  BY <1>2, <1>3
<1> QED BY <1>1, <1>3, <1>6, <1>7, ReceivesKept

\* try_trim: what is left of the log is still that of the round.
LEMMA TrimLoses ==
  ASSUME NEW h \in History, NEW p \in Server, NEW s \in Storage, LogOK(h, p, s), BatchOK(h, p, s),
         NEW idx \in Nat, HeldByAll(h, idx), NEW t, t = try_trim(s, idx)
  PROVE  Loses(s, t) /\ t.batched_entries = s.batched_entries /\ LogOK(h, p, t) /\ BatchOK(h, p, t)
<1>1. /\ s.accepted_idx \in Nat /\ s.decided_idx \in Nat /\ s.compacted_idx \in Nat
      /\ s.log \in Entries /\ Len(s.log) \in Nat /\ s.accepted_round \in Ballot
  BY StorageFields
<1>2. PICK a : a = h.rlog[s.accepted_round]
  OBVIOUS
<1>3. a \in Entries
  BY <1>1, <1>2, HistoryFields
<1>4. /\ s.stopsign = None /\ s.accepted_idx = s.compacted_idx + Len(s.log)
      /\ Segment(a, s.compacted_idx, s.log) /\ s.decided_idx <= s.accepted_idx
  BY <1>2 DEF LogOK
<1>5. compaction_idx(s, idx) = idx
  BY <1>4 DEF compaction_idx, get_decided_idx_without_stopsign, stopsign_is_decided
<1>6. CASE ~ (idx <= s.decided_idx /\ idx > s.compacted_idx)
  <2>1. t = s
    BY <1>5, <1>6 DEF try_trim
  <2> QED BY <2>1 DEF Loses
<1>7. CASE idx <= s.decided_idx /\ idx > s.compacted_idx
  <2>1. PICK j : j = idx - s.compacted_idx
    OBVIOUS
  <2>2. j \in Nat /\ j <= Len(s.log) /\ s.compacted_idx + j = idx
    BY <1>1, <1>4, <1>7, <2>1
  <2>3. PICK log, k : log = s.log /\ k = s.compacted_idx
    OBVIOUS
  <2>4. log \in Entries /\ k \in Nat /\ j <= Len(log) /\ Segment(a, k, log)
    BY <1>1, <1>4, <2>2, <2>3
  <2>5. PICK new : new = drain(log, j)
    OBVIOUS
  <2>6. new \in Entries /\ Len(new) = Len(log) - j /\ Segment(a, k + j, new)
    BY <1>3, <2>2, <2>4, <2>5, SegmentDrain
  <2>7. t = [s EXCEPT !.log = new, !.compacted_idx = idx]
    BY <1>5, <1>7, <2>1, <2>3, <2>5 DEF try_trim, compact
  <2>8. Loses(s, t) /\ t.batched_entries = s.batched_entries /\ t.log = new /\ t.compacted_idx = idx
    BY <2>6, <2>7 DEF Loses, Storage
  <2>9. t.accepted_idx = t.compacted_idx + Len(t.log)
    BY <1>1, <1>4, <2>2, <2>3, <2>6, <2>8 DEF Loses
  <2>10. Segment(h.rlog[s.accepted_round], t.compacted_idx, t.log)
    BY <1>2, <2>2, <2>3, <2>6, <2>8
  <2>11. HeldByAll(h, t.compacted_idx)
    BY <2>8
  <2> QED BY <2>8, <2>9, <2>10, <2>11, LosesLog
<1> QED BY <1>6, <1>7

\* A server compacts its log.
LEMMA CompactsExplained ==
  ASSUME NEW p \in Server, NEW h, From(h), NEW idx \in Nat, HeldByAll(h, idx),
         storage' = [storage EXCEPT ![p] = try_trim(storage[p], idx)],
         UNCHANGED << state, leader_state, follower_state, panicked >>,
         NEW out, Fresh(p, h, out), Ended(p, out)
  PROVE  Succeeds(h, h)
<1>1. /\ TypeOK /\ Inv /\ Explains(h) /\ h \in History /\ storage[p] \in Storage
      /\ LogOK(h, p, storage[p]) /\ BatchOK(h, p, storage[p]) /\ KeptPromiseOK(h, p)
      /\ leader_state[p] \in LeaderStates /\ CountsOK(h, leader_state[p])
      /\ LeadingOK(h, p) /\ FollowingOK(h, p)
  BY FromFacts
<1>2. PICK s, t : s = storage[p] /\ t = try_trim(storage[p], idx)
  OBVIOUS
<1>3. /\ s \in Storage /\ Loses(s, t) /\ t.batched_entries = s.batched_entries
      /\ LogOK(h, p, t) /\ BatchOK(h, p, t)
  <2>1. s \in Storage /\ LogOK(h, p, s) /\ BatchOK(h, p, s) /\ t = try_trim(s, idx)
    BY <1>1, <1>2
  <2> QED BY <1>1, <2>1, TrimLoses
<1>4. Updates(p, t, state[p], leader_state[p], follower_state[p])
  BY <1>1, <1>2, Unchanged DEF Updates
<1>5. /\ \A q \in Peers(p) : Same(q)
      /\ storage'[p] = t /\ state'[p] = state[p] /\ leader_state'[p] = leader_state[p]
      /\ follower_state'[p] = follower_state[p]
  BY <1>1, <1>4, OthersSame
<1>6. Step(p, h, h)
  <2>1. Grows(p, h, h)
    BY <1>1, HistoryStays
  <2>2. /\ \A n \in Ballot : Leads(p, n)' => Leads(p, n)
        /\ \A n \in Ballot : Prepares(p, n)' => Prepares(p, n) /\ Meta(storage'[p]) = Meta(storage[p])
        /\ \A q \in Server : leader_state[p].follower_seq_nums[q] \in SequenceNumber
    BY <1>1, <1>2, <1>3, <1>5, LeaderFields, ServersHaveSlots DEF Loses, Leads, Prepares, Meta
  <2>3. Moves(p)
    BY <1>2, <1>3, <1>5, <2>2, SeqNumReflexive DEF Loses, Moves
  <2> QED BY <1>1, <2>1, <2>3 DEF Step, From
<1>7. Accepts(p, h, h) /\ Founds(h, h)
  BY <1>1, HistoryStays
<1>8. Delivers(p, out) /\ SendsOK(p, h, out) /\ outgoing' = [q \in Server |-> NoMessages]
  BY CallEnds
<1>9. ReceivesOK(p, h)
  <2>1. Loses(storage[p], storage'[p])
    BY <1>2, <1>3, <1>5
  <2> QED BY <1>6, <1>8, <2>1, LosesReceives
<1>10. KeptPromiseOK(h, p)'
  BY <1>5, <1>6, KeptPromiseKept
<1>11. CountsOK(h, leader_state[p])'
  <2>1. PICK l \in LeaderStates : l = leader_state[p]
    BY <1>1
  <2>2. CountsOK(h, l)'
    BY <1>1, <1>6, <2>1, CountsKept
  <2> QED BY <1>5, <2>1, <2>2
<1>12. LeadingOK(h, p)'
  <2>1. PICK l : l = leader_state[p]
    OBVIOUS
  <2>2. /\ PrepareOK(h, p, s, l) => PrepareOK(h, p, t, l)'
        /\ LeaderOK(h, p, s, l) => LeaderOK(h, p, t, l)'
        /\ AcceptOK(h, p, s, l) => AcceptOK(h, p, t, l)'
    <3>1. /\ PrepareOK(h, p, t, l) => PrepareOK(h, p, t, l)'
          /\ LeaderOK(h, p, t, l) => LeaderOK(h, p, t, l)'
          /\ AcceptOK(h, p, t, l) => AcceptOK(h, p, t, l)'
      BY DEF PrepareOK, MaxOK, AdoptOK, LeaderOK, AcceptOK
    <3> QED BY <1>3, <3>1, LosesLeading
  <2> QED BY <1>1, <1>2, <1>5, <2>1, <2>2 DEF LeadingOK
<1>13. FollowingOK(h, p)'
  <2>1. ASSUME p \notin panicked', state'[p] = << "Follower", "Accept" >>
        PROVE  /\ FollowsOK(h, p, storage'[p], follower_state'[p])
               /\ Sent(storage[p].promise.pid, storage[p].promise, p, follower_state[p].current_seq_num)'
    <3>1. p \notin panicked /\ state[p] = << "Follower", "Accept" >>
      BY <1>5, <2>1
    <3> DEFINE n == storage[p].promise
               sn == follower_state[p].current_seq_num
    <3>2. /\ n \in h.est /\ n.pid \in Server /\ sn \in SequenceNumber /\ Sent(n.pid, n, p, sn)
          /\ FollowsOK(h, p, storage[p], follower_state[p])
      BY <1>1, <3>1, FollowedRound
    <3>3. PICK k \in h.est, x \in Server, c \in SequenceNumber : k = n /\ x = n.pid /\ c = sn
      BY <3>2
    <3>4. Sent(x, k, p, c)'
      BY <1>6, <3>2, <3>3, SentKept
    <3>5. k = storage'[p].promise /\ x = storage'[p].promise.pid /\ c = follower_state'[p].current_seq_num
      BY <1>2, <1>3, <1>5, <3>3 DEF Loses
    <3>6. FollowsOK(h, p, t, follower_state[p])
      BY <1>2, <1>3, <3>2, LosesFollowing
    <3> QED BY <1>2, <1>3, <1>5, <3>4, <3>5, <3>6 DEF Loses
  <2>2. storage'[p].promise = storage[p].promise /\ storage'[p].batched_entries = storage[p].batched_entries
    BY <1>2, <1>3, <1>5 DEF Loses
  <2> QED BY <1>1, <1>5, <2>1, <2>2 DEF FollowingOK
<1>14. LogOK(h, p, storage'[p]) /\ BatchOK(h, p, storage'[p])
  BY <1>3, <1>5
<1> QED BY <1>6, <1>7, <1>8, <1>9, <1>10, <1>11, <1>12, <1>13, <1>14, StepExplained

\* trim.
LEMMA TrimExplained ==
  ASSUME NEW p \in Server, NEW h, From(h), NEW idx \in Nat, trim(p, idx)
  PROVE  Succeeds(h, h)
<1> DEFINE m0 == Compaction("Trim", idx)
           msgs0 == [q \in Peers(p) |-> m0]
           out0 == push(outgoing[p], msgs0)
<1>1. /\ storage' = [storage EXCEPT ![p] = try_trim(storage[p], idx)] /\ Called(p, out0)
      /\ UNCHANGED << state, leader_state, follower_state, panicked >>
      /\ within_min_all_accepted_idx(leader_state[p], idx)
  BY Zenon DEF trim
<1>2. PICK m, msgs, out : m = m0 /\ msgs = msgs0 /\ out = out0
  OBVIOUS
<1>3. m \in Message /\ m.type = "Compaction" /\ m.kind = "Trim" /\ m.idx = idx
  BY <1>2 DEF Compaction, Message
<1>4. msgs = [q \in Peers(p) |-> m] /\ out = push(outgoing[p], msgs) /\ Called(p, out)
  BY <1>1, <1>2
<1> HIDE DEF m0, msgs0, out0
<1>5. Explains(h) /\ outgoing[p] = NoMessages
  BY FromFacts
<1>6. \A y \in Peers(p) : out[y] = << m >>
  <2>1. \A y \in Peers(p) : y \in Server /\ y \in DOMAIN msgs /\ msgs[y] = m
    BY <1>4 DEF Peers
  <2> QED BY <1>4, <1>5, <2>1, NothingWaits
<1>10. HeldByAll(h, idx)
  <2>1. PICK l : l = leader_state[p]
    OBVIOUS
  <2>2. l \in LeaderStates /\ CountsOK(h, l) /\ \A r \in Slots : idx <= l.accepted_indexes[r]
    BY <1>1, <2>1, FromFacts DEF within_min_all_accepted_idx
  <2> SUFFICES ASSUME idx # 0 PROVE HeldByAll(h, idx)
    BY DEF HeldByAll
  <2>3. h \in History /\ l.n_leader \in Ballot
    BY <2>2, FromFacts, LeaderFields
  <2>4. ASSUME NEW q \in Server
        PROVE  h.acc[q][l.n_leader] >= idx
    <3>1. q \in Slots /\ h.acc[q][l.n_leader] \in Nat
      BY <2>3, ServersHaveSlots, HistoryFields
    <3>2. l.accepted_indexes[q] \in Nat /\ idx <= l.accepted_indexes[q]
      BY <2>2, <3>1, LeaderFields
    <3>3. l.accepted_indexes[q] > 0
      BY <3>2
    <3>4. l.accepted_indexes[q] <= h.acc[q][l.n_leader]
      BY <2>2, <3>1, <3>3 DEF CountsOK
    <3> QED BY <3>1, <3>2, <3>4
  <2> QED BY <2>3, <2>4 DEF HeldByAll
<1>7. \A y \in Peers(p) : FreshOK(p, h, y, m)
  <2>1. PICK i : i = m.idx
    OBVIOUS
  <2>2. HeldByAll(h, i)'
    BY <1>3, <1>10, <2>1 DEF HeldByAll
  <2>3. HeldByAll(h, m.idx)'
    BY <2>1, <2>2
  <2> QED BY <1>3, <2>3 DEF FreshOK, MsgOK, AcceptTypes
<1>8. Fresh(p, h, out)
  BY <1>3, <1>6, <1>7 DEF Fresh
<1>9. Ended(p, out)
  BY <1>4 DEF Ended, Called
<1> QED BY <1>1, <1>8, <1>9, <1>10, CompactsExplained

\* handle_compaction.
LEMMA HandleCompactionExplained ==
  ASSUME NEW p \in Server, NEW q \in Peers(p), NEW h, From(h), handle_compaction(p, q)
  PROVE  Succeeds(h, h)
<1>1. PICK m : m = Head(net[q][p])
  OBVIOUS
<1>2. /\ net[q][p] # << >> /\ m.type = "Compaction"
      /\ storage' = [storage EXCEPT ![p] = IF m.kind = "Trim" THEN try_trim(storage[p], m.idx)
                                                              ELSE try_snapshot(storage[p], m.idx)]
      /\ Handled(p, q, outgoing[p])
      /\ UNCHANGED << state, leader_state, follower_state, panicked >>
  BY <1>1, Zenon DEF handle_compaction, Incoming
<1>3. TypeOK /\ Explains(h) /\ outgoing[p] = NoMessages
  BY FromFacts
<1>4. m \in Message /\ m.kind = "Trim" /\ HeldByAll(h, m.idx)
  BY <1>1, <1>2, <1>3, HeadOK DEF MsgOK
<1>5. m.idx \in Nat
  BY <1>2, <1>4 DEF Message, PromiseMessage
<1>6. storage' = [storage EXCEPT ![p] = try_trim(storage[p], m.idx)]
  BY <1>2, <1>4
<1>7. Fresh(p, h, outgoing[p])
  BY <1>3, NothingWaits DEF Fresh, Peers
<1>8. Ended(p, outgoing[p])
  BY <1>2 DEF Ended, Handled
<1> QED BY <1>2, <1>4, <1>5, <1>6, <1>7, <1>8, CompactsExplained

\* load_cache: what was accepted was stored.
LEMMA LoadLoses ==
  ASSUME NEW h \in History, NEW p \in Server, NEW s \in Storage, LogOK(h, p, s), BatchOK(h, p, s),
         NEW t, t = load_cache(s)
  PROVE  Loses(s, t) /\ LogOK(h, p, t) /\ BatchOK(h, p, t)
<1>1. /\ s.accepted_idx \in Nat /\ s.compacted_idx \in Nat /\ Len(s.log) \in Nat /\ << >> \in Entries
  BY StorageFields, EmptySeq DEF Entries
<1>2. s.stopsign = None /\ s.accepted_idx = s.compacted_idx + Len(s.log)
  BY DEF LogOK
<1>3. Len(s.log) + s.compacted_idx + (IF s.stopsign = None THEN 0 ELSE 1) = s.accepted_idx
  BY <1>1, <1>2
<1>4. t = [s EXCEPT !.batched_entries = << >>, !.accepted_idx = s.accepted_idx]
  BY <1>3 DEF load_cache
<1>5. Loses(s, t) /\ t.log = s.log /\ t.compacted_idx = s.compacted_idx
  BY <1>1, <1>4 DEF Loses, Storage
<1>6. /\ t.accepted_idx = t.compacted_idx + Len(t.log) /\ Segment(h.rlog[s.accepted_round], t.compacted_idx, t.log)
      /\ HeldByAll(h, t.compacted_idx)
  BY <1>2, <1>5 DEF LogOK, Loses
<1> QED BY <1>5, <1>6, LosesLog

\* restart.
LEMMA RestartExplained ==
  ASSUME NEW p \in Server, NEW h, From(h), restart(p)
  PROVE  Succeeds(h, h)
<1> DEFINE s0 == load_cache(storage[p])
           l0 == LeaderState_with(s0.promise)
           m0 == PrepareReq(s0.promise)
           msgs0 == [q \in Peers(p) |-> m0]
           out0 == push(NoMessages, msgs0)
<1>1. /\ storage' = [storage EXCEPT ![p] = s0]
      /\ state' = [state EXCEPT ![p] = << "Follower", "Recover" >>]
      /\ leader_state' = [leader_state EXCEPT ![p] = l0]
      /\ follower_state' = [follower_state EXCEPT ![p] = DefaultFollowerState]
      /\ panicked' = panicked \ {p}
      /\ Called(p, out0)
  BY Zenon DEF restart
<1>2. PICK t, l, m, msgs, out : t = s0 /\ l = l0 /\ m = m0 /\ msgs = msgs0 /\ out = out0
  OBVIOUS
<1>3. /\ t = load_cache(storage[p]) /\ l = LeaderState_with(t.promise) /\ m = PrepareReq(t.promise)
      /\ msgs = [q \in Peers(p) |-> m] /\ out = push(NoMessages, msgs)
  BY <1>2
<1>4. Updates(p, t, << "Follower", "Recover" >>, l, DefaultFollowerState) /\ Called(p, out)
  BY <1>1, <1>2 DEF Updates
<1> HIDE DEF s0, l0, m0, msgs0, out0
<1>5. /\ TypeOK /\ Inv /\ Explains(h) /\ h \in History /\ storage[p] \in Storage /\ storage[p].promise \in Ballot
      /\ LogOK(h, p, storage[p]) /\ BatchOK(h, p, storage[p])
  BY FromFacts
<1>6. Loses(storage[p], t) /\ LogOK(h, p, t) /\ BatchOK(h, p, t)
  <2>1. PICK s : s = storage[p]
    OBVIOUS
  <2>2. s \in Storage /\ LogOK(h, p, s) /\ BatchOK(h, p, s) /\ t = load_cache(s)
    BY <1>3, <1>5, <2>1
  <2> QED BY <1>5, <2>1, <2>2, LoadLoses
<1>7. t.promise = storage[p].promise /\ t.promise \in Ballot
  BY <1>5, <1>6 DEF Loses
<1>8. /\ \A q \in Peers(p) : Same(q)
      /\ storage'[p] = t /\ state'[p] = << "Follower", "Recover" >> /\ leader_state'[p] = l
      /\ follower_state'[p] = DefaultFollowerState
  <2>1. panicked' \ {p} = panicked \ {p}
    BY <1>1
  <2> QED BY <1>4, <1>5, <2>1, OthersSame
<1>9. /\ << "Follower", "Recover" >>[1] # "Leader"
      /\ << "Follower", "Recover" >> # << "Leader", "Prepare" >>
      /\ << "Follower", "Recover" >> # << "Leader", "Accept" >>
      /\ << "Follower", "Recover" >> # << "Follower", "Prepare" >>
      /\ << "Follower", "Recover" >> # << "Follower", "Accept" >>
  OBVIOUS
<1>10. Step(p, h, h)
  <2>1. Grows(p, h, h)
    BY <1>5, HistoryStays
  <2>2. \A n \in Ballot : ~ Leads(p, n)' /\ ~ Prepares(p, n)'
    BY <1>8, <1>9 DEF Leads, Prepares
  <2>3. Moves(p)
    BY <1>6, <1>8, <2>2 DEF Loses, Moves
  <2> QED BY <1>5, <2>1, <2>3 DEF Step, From
<1>11. Accepts(p, h, h) /\ Founds(h, h)
  BY <1>5, HistoryStays
<1>12. Fresh(p, h, out)
  <2>1. m \in Message /\ m.type = "PrepareReq"
    BY <1>3, <1>7 DEF PrepareReq, Message
  <2>2. \A y \in Peers(p) : y \in Server /\ y \in DOMAIN msgs /\ msgs[y] = m
    BY <1>3 DEF Peers
  <2>3. \A y \in Peers(p) : out[y] = << m >>
    BY <1>3, <1>5, <2>2, NothingWaits
  <2> QED BY <2>1, <2>3, HarmlessFresh DEF Fresh
<1>13. Delivers(p, out) /\ SendsOK(p, h, out) /\ outgoing' = [q \in Server |-> NoMessages]
  <2>1. Ended(p, out)
    BY <1>4 DEF Ended, Called
  <2> QED BY <1>12, <2>1, CallEnds
<1>14. ReceivesOK(p, h)
  <2>1. Loses(storage[p], storage'[p])
    BY <1>6, <1>8
  <2> QED BY <1>10, <1>13, <2>1, LosesReceives
<1>15. KeptPromiseOK(h, p)'
  BY <1>8 DEF KeptPromiseOK, DefaultFollowerState
<1>16. CountsOK(h, leader_state[p])'
  <2>1. \A q \in Slots : l.latest_accept_meta[q] = 0 /\ l.accepted_indexes[q] = 0 /\ ~ is_promised(l, q)
    BY <1>3, <1>7, LeaderStateWithOK DEF LeaderState_with
  <2>2. CountsOK(h, l)'
    BY <2>1 DEF CountsOK
  <2> QED BY <1>8, <2>2
<1>17. LeadingOK(h, p)'
  BY <1>8, <1>9 DEF LeadingOK
<1>18. FollowingOK(h, p)'
  <2>1. DefaultFollowerState.latest_accepted_meta.idx = 0
    BY DEF DefaultFollowerState
  <2> QED BY <1>8, <1>9, <2>1 DEF FollowingOK
<1>19. LogOK(h, p, storage'[p]) /\ BatchOK(h, p, storage'[p])
  BY <1>6, <1>8
<1> QED BY <1>10, <1>11, <1>13, <1>14, <1>15, <1>16, <1>17, <1>18, <1>19, StepExplained

------------------------------------------------------------------------------
(* The induction *)

\* Some history explains the state.
Explained == \E h : Explains(h)

\* Before the first round nothing is in any log.
LEMMA InitExplains ==
  ASSUME Plain, Init
  PROVE  \E h : Explains(h) /\ \A r \in Ballot : h.rlog[r] = << >>
<1> DEFINE h0 == [rlog |-> [r \in Ballot |-> << >>], acc |-> [q \in Server |-> [r \in Ballot |-> 0]],
                  base |-> [r \in Ballot |-> 0], est |-> {},
                  start |-> [r \in Ballot |-> [q \in Server |-> [sn \in SequenceNumber |-> 0]]]]
<1>1. PICK h : h = h0
  OBVIOUS
<1>2. << >> \in Entries
  BY EmptySeq DEF Entries
<1>3. /\ h \in History /\ h.est = {}
      /\ \A r \in Ballot : h.rlog[r] = << >>
      /\ \A q \in Server, r \in Ballot : h.acc[q][r] = 0
  BY <1>1, <1>2 DEF History
<1> HIDE DEF h0
<1>4. DefaultBallot \in Ballot
  BY DefaultBallotType
<1>5. \A p \in Server : /\ storage[p] = EmptyStorage /\ state[p] = << "Follower", "None" >>
                        /\ leader_state[p] = LeaderState_with(DefaultBallot)
                        /\ follower_state[p] = DefaultFollowerState
  BY DEF Init
<1>6. outgoing = [p \in Server |-> NoMessages]
  BY DEF Init
<1>7. RoundInv(h) /\ VoteInv(h) /\ ChoiceInv(h)
  BY <1>3 DEF RoundInv, VoteInv, ChoiceInv, Unused
<1>8. LogInv(h)
  <2>1. PICK s, r : s = EmptyStorage /\ r = DefaultBallot
    OBVIOUS
  <2>2. /\ s.snapshot = None /\ s.stopsign = None /\ s.accepted_round = r
        /\ s.accepted_idx = 0 /\ s.compacted_idx = 0 /\ s.decided_idx = 0 /\ s.log = << >>
        /\ s.batched_entries = << >>
    BY <2>1 DEF EmptyStorage
  <2>3. Segment(<< >>, 0, << >>) /\ DecidedIn(h, r, 0) /\ HeldByAll(h, 0)
    BY DEF Segment, DecidedIn, HeldByAll
  <2>4. \A p \in Server : LogOK(h, p, s) /\ BatchOK(h, p, s)
    BY <1>3, <1>4, <2>1, <2>2, <2>3 DEF LogOK, BatchOK
  <2> QED BY <1>5, <2>1, <2>4 DEF LogInv
<1>9. KeptPromiseInv(h)
  BY <1>5 DEF KeptPromiseInv, KeptPromiseOK, DefaultFollowerState
<1>10. CountsInv(h)
  <2>1. PICK l : l = LeaderState_with(DefaultBallot)
    OBVIOUS
  <2>2. \A q \in Slots : l.latest_accept_meta[q] = 0 /\ l.accepted_indexes[q] = 0 /\ ~ is_promised(l, q)
    BY <1>4, <2>1, LeaderStateWithOK DEF LeaderState_with
  <2>3. CountsOK(h, l)
    BY <2>2 DEF CountsOK
  <2> QED BY <1>5, <2>1, <2>3 DEF CountsInv
<1>11. LeaderInv(h)
  BY <1>5 DEF LeaderInv, LeadingOK
<1>12. FollowerInv(h)
  BY <1>5 DEF FollowerInv, FollowingOK, DefaultFollowerState
<1>13. MessageInv(h) /\ OrderInv(h)
  <2>1. \A x \in Server : \A y \in Peers(x) : Len(net[x][y]) = 0
    BY DEF Init, NoMessages, Peers
  <2> QED BY <2>1 DEF MessageInv, OrderInv
<1>14. Explains(h)
  BY <1>3, <1>6, <1>7, <1>8, <1>9, <1>10, <1>11, <1>12, <1>13 DEF Explains
<1> QED BY <1>3, <1>14

\* So there is a history at first.
LEMMA InitExplained == Plain /\ Init => Explained
BY InitExplains DEF Explained

\* A stuttering step.
LEMMA StutterExplained ==
  ASSUME NEW h, Explains(h), UNCHANGED vars
  PROVE  Succeeds(h, h)
<1> USE DEF vars, serverVars
<1>1. RoundInv(h)' /\ VoteInv(h)' /\ ChoiceInv(h)'
  <2>1. RoundInv(h) /\ VoteInv(h) /\ ChoiceInv(h)
    BY DEF Explains
  <2>2. RoundInv(h)'
    BY <2>1 DEF RoundInv, RoundOK, Joined, Unused
  <2>3. VoteInv(h)'
    BY <2>1 DEF VoteInv
  <2>4. ChoiceInv(h)'
    BY <2>1 DEF ChoiceInv, Choosable, MayVote
  <2> QED BY <2>2, <2>3, <2>4
<1>2. LogInv(h)'
  BY DEF Explains, LogInv
<1>3. \A n : \A q : /\ Leads(q, n)' <=> Leads(q, n)
                    /\ Prepares(q, n)' <=> Prepares(q, n)
                    /\ \A meta : MetaOK(h, q, n, meta)' <=> MetaOK(h, q, n, meta)
  BY DEF Leads, Prepares, MetaOK
<1>4. \A x, y, m : PromiseOK(h, x, y, m) => PromiseOK(h, x, y, m)'
  BY <1>3 DEF PromiseOK
<1>5. KeptPromiseInv(h)'
  BY <1>4 DEF Explains, KeptPromiseInv, KeptPromiseOK
<1>6. CountsInv(h)'
  <2>1. \A l : CountsOK(h, l) => CountsOK(h, l)'
    BY <1>3 DEF CountsOK
  <2> QED BY <2>1 DEF Explains, CountsInv
<1>7. LeaderInv(h)'
  BY DEF Explains, LeaderInv, LeadingOK
<1>8. \A x, n, y, sn : Sent(x, n, y, sn) => Sent(x, n, y, sn)'
  BY <1>3 DEF Sent
<1>9. FollowerInv(h)'
  BY <1>8 DEF Explains, FollowerInv, FollowingOK
<1>10. MessageInv(h)'
  <2>1. \A x, y, m : /\ PrepareMsgOK(x, m) => PrepareMsgOK(x, m)'
                     /\ AcceptMsgOK(h, x, y, m) => AcceptMsgOK(h, x, y, m)'
    BY <1>3, <1>8 DEF PrepareMsgOK, AcceptMsgOK
  <2>2. \A x, y, m : MsgOK(h, x, y, m) => MsgOK(h, x, y, m)'
    BY <1>4, <2>1 DEF MsgOK
  <2>3. \A y, m : SyncTargetOK(h, y, m) => SyncTargetOK(h, y, m)'
    BY DEF SyncTargetOK
  <2> QED BY <2>2, <2>3 DEF Explains, MessageInv
<1>11. OrderInv(h)'
  <2>1. \A y, a, b : OrderOK(h, y, a, b) => OrderOK(h, y, a, b)'
    BY DEF OrderOK
  <2> QED BY <2>1 DEF Explains, OrderInv
<1>12. Later(h, h)
  BY LaterSelf DEF Explains
<1> QED BY <1>1, <1>2, <1>5, <1>6, <1>7, <1>9, <1>10, <1>11, <1>12 DEF Explains, Succeeds

\* Every handler of a message.
LEMMA HandleExplained ==
  ASSUME NEW h, From(h), NEW p \in Server, NEW q \in Peers(p), handle(p, q)
  PROVE  \E g : Succeeds(h, g)
<1> Plain /\ TypeOK /\ Explains(h)
  BY FromFacts
<1>1. CASE handle_preparereq(p, q) \/ handle_notaccepted(p, q)
  BY <1>1, ForgettingExplained
<1>2. CASE handle_prepare(p, q)
  BY <1>2, HandlePrepareExplained
<1>3. CASE handle_promise_prepare(p, q)
  BY <1>3, PromisePrepareExplained
<1>4. CASE handle_promise_accept(p, q)
  BY <1>4, PromiseAcceptExplained
<1>5. CASE handle_acceptsync(p, q)
  BY <1>5, HandleAcceptSyncExplained
<1>6. CASE handle_acceptdecide(p, q)
  BY <1>6, HandleAcceptDecideExplained
<1>7. CASE handle_accepted(p, q)
  BY <1>7, HandleAcceptedExplained
<1>8. CASE handle_decide(p, q)
  BY <1>8, HandleDecideExplained
<1>9. CASE handle_forwarded_proposal(p, q)
  <2>1. PICK entries : entries = Head(net[q][p]).entries
    OBVIOUS
  <2>2. /\ net[q][p] # << >> /\ Head(net[q][p]).type = "ProposalForward" /\ p \notin panicked
        /\ propose_entries(p, entries, Consume(p, q))
        /\ UNCHANGED << state, follower_state, panicked >>
    BY <1>9, <2>1, Zenon DEF handle_forwarded_proposal, Incoming
  <2>3. PICK m \in Message : m = Head(net[q][p])
    BY <2>2, HeadOK
  <2>4. entries \in Entries
    BY <2>1, <2>2, <2>3 DEF Message, PromiseMessage
  <2> QED BY <2>2, <2>4, ProposeExplained
<1>10. CASE handle_compaction(p, q)
  BY <1>10, HandleCompactionExplained
<1>11. CASE handle_accept_stopsign(p, q)
  <2>1. net[q][p] # << >> /\ Head(net[q][p]).type = "AcceptStopSign"
    BY <1>11 DEF handle_accept_stopsign, IncomingAccept, Incoming
  <2>2. PICK m \in Message : m = Head(net[q][p])
    BY <2>1, HeadOK
  <2>3. m.ss \in StopSign
    BY <2>1, <2>2 DEF Message, PromiseMessage
  <2> QED BY <2>3 DEF Plain
<1>12. CASE handle_forwarded_stopsign(p, q)
  <2>1. net[q][p] # << >> /\ Head(net[q][p]).type = "ForwardStopSign"
    BY <1>12 DEF handle_forwarded_stopsign, Incoming
  <2>2. PICK m \in Message : m = Head(net[q][p])
    BY <2>1, HeadOK
  <2>3. m.ss \in StopSign
    BY <2>1, <2>2 DEF Message, PromiseMessage
  <2> QED BY <2>3 DEF Plain
<1>13. CASE reject_ballot(p, q) \/ dropped_preceding(p, q)
  BY <1>13, RefusalsExplained
<1>14. CASE ignore(p, q)
  <2>1. /\ net[q][p] # << >> /\ net' = Consume(p, q)
        /\ UNCHANGED << storage, state, leader_state, follower_state, outgoing, panicked >>
    BY <1>14 DEF ignore, Discard, serverVars
  <2> QED BY <2>1, ConsumeExplained
<1> QED BY <1>1, <1>2, <1>3, <1>4, <1>5, <1>6, <1>7, <1>8, <1>9, <1>10, <1>11, <1>12, <1>13, <1>14 DEF handle

\* Every step leads to a state that a history explains.
LEMMA AnyStepSucceeds ==
  ASSUME Inv, [AnyStep]_vars, NEW h, Explains(h)
  PROVE  \E g : Succeeds(h, g)
<1>0. CASE UNCHANGED vars
  BY <1>0, StutterExplained
<1>1. CASE ~ UNCHANGED vars
  <2>1. From(h) /\ AnyStep /\ Ballots \subseteq Ballot
    BY <1>1, AnyStepOK, PaxosAssumption DEF From
  <2>2. Plain /\ TypeOK
    BY DEF Explains, Inv
  <2>3. ASSUME NEW p \in Server, NEW n \in Ballot, handle_leader(p, n) PROVE \E g : Succeeds(h, g)
    BY <2>1, <2>3, HandleLeaderExplained
  <2>4. ASSUME NEW p \in Server, NEW q \in Peers(p), handle(p, q) PROVE \E g : Succeeds(h, g)
    BY <2>1, <2>4, HandleExplained
  <2>5. ASSUME NEW p \in Server, NEW v \in Value, append(p, v) PROVE \E g : Succeeds(h, g)
    <3>1. PICK entries : entries = << v >>
      OBVIOUS
    <3>2. entries \in Entries
      BY <3>1 DEF Entries
    <3>3. /\ p \notin panicked /\ propose_entries(p, entries, net)
          /\ UNCHANGED << state, follower_state, panicked >>
      BY <2>5, <3>1, Zenon DEF append
    <3> QED BY <2>1, <3>2, <3>3, ProposeExplained
  <2>6. ASSUME NEW p \in Server, NEW idx \in 1 .. storage[p].decided_idx, trim(p, idx) PROVE \E g : Succeeds(h, g)
    <3>1. storage[p].decided_idx \in Nat
      BY <2>1, FromFacts, StorageFields
    <3>2. idx \in Nat
      BY <3>1
    <3> QED BY <2>1, <2>6, <3>2, TrimExplained
  <2>7. ASSUME NEW p \in Server, NEW local_only \in BOOLEAN, NEW idx, snapshot(p, idx, local_only) PROVE FALSE
    BY <2>2, <2>7 DEF snapshot, Plain
  <2>8. ASSUME NEW p \in Server, resend_message_timeout(p) PROVE \E g : Succeeds(h, g)
    <3>1. /\ p \notin panicked /\ (resend_messages_leader(p) \/ resend_messages_follower(p))
          /\ UNCHANGED << storage, leader_state, follower_state, panicked >>
      BY <2>8 DEF resend_message_timeout
    <3> QED BY <2>1, <3>1, ResendLeaderExplained, ResendFollowerExplained
  <2>9. ASSUME NEW p \in Server, flush_batch_timeout(p) PROVE \E g : Succeeds(h, g)
    <3>1. /\ p \notin panicked /\ (flush_batch_leader(p) \/ flush_batch_follower(p))
          /\ UNCHANGED << state, panicked >>
      BY <2>9 DEF flush_batch_timeout
    <3> QED BY <2>1, <3>1, FlushLeaderExplained, FlushFollowerExplained
  <2>10. ASSUME NEW p \in Server, NEW q \in Peers(p), user_reconnected(p, q) PROVE \E g : Succeeds(h, g)
    BY <2>1, <2>10, RefusalsExplained
  <2>11. ASSUME NEW p \in Server, take_outgoing_msgs(p) PROVE FALSE
    BY <2>2, <2>11 DEF take_outgoing_msgs, Plain
  <2>12. ASSUME NEW p \in Server, NEW q \in Peers(p), drop(p, q) PROVE \E g : Succeeds(h, g)
    <3>1. /\ net[q][p] # << >> /\ net' = Consume(p, q)
          /\ UNCHANGED << storage, state, leader_state, follower_state, outgoing, panicked >>
      BY <2>12 DEF drop, serverVars
    <3> QED BY <2>1, <3>1, ConsumeExplained
  <2>13. ASSUME NEW p \in Server, restart(p) PROVE \E g : Succeeds(h, g)
    BY <2>1, <2>13, RestartExplained
  <2>14. \A p \in Server, ss \in StopSign : FALSE
    BY <2>2 DEF Plain
  <2> QED BY <2>1, <2>3, <2>4, <2>5, <2>6, <2>7, <2>8, <2>9, <2>10, <2>11, <2>12, <2>13, <2>14 DEF AnyStep, Next
<1> QED BY <1>0, <1>1

\* In particular from a step of Next.
LEMMA NextSucceeds ==
  ASSUME Inv, [Next]_vars, NEW h, Explains(h)
  PROVE  \E g : Succeeds(h, g)
BY AnyStepSucceeds DEF AnyStep

\* So there always is one.
LEMMA NextExplained == Inv /\ Explained /\ [Next]_vars => Explained'
BY NextSucceeds DEF Explained, Succeeds

\* In every reachable state there is a history that explains it.
THEOREM HistoryInvariance == Plain /\ Spec => []Explained
BY InitExplained, NextExplained, Invariance, PTL DEF Spec

------------------------------------------------------------------------------
(* What the history tells of the logs *)

\* s holds the entries of a behind compacted_idx, up to accepted_idx.
Reads(s, a) ==
  /\ Held(s) = s.compacted_idx + 1 .. s.accepted_idx
  /\ s.snapshot = None
  /\ s.accepted_idx <= Len(a)
  /\ \A i \in s.compacted_idx + 1 .. s.accepted_idx : EntryAt(s, i) = a[i]

\* A server holds the log of the round it accepted in.
LEMMA ReadsLog ==
  ASSUME NEW h \in History, NEW p \in Server, NEW s \in Storage, LogOK(h, p, s)
  PROVE  Reads(s, h.rlog[s.accepted_round])
<1>1. PICK a : a = h.rlog[s.accepted_round]
  OBVIOUS
<1>2. /\ a \in Entries /\ Len(a) \in Nat /\ s.compacted_idx \in Nat /\ s.accepted_idx \in Nat
      /\ Len(s.log) \in Nat
  BY <1>1, StorageFields, HistoryFields
<1>3. /\ s.snapshot = None /\ s.stopsign = None /\ s.accepted_idx = s.compacted_idx + Len(s.log)
      /\ Segment(a, s.compacted_idx, s.log)
  BY <1>1 DEF LogOK
<1>4. LogWithStopSign(s) = s.log
  BY <1>3 DEF LogWithStopSign
<1>5. Held(s) = s.compacted_idx + 1 .. s.accepted_idx
  BY <1>2, <1>3, <1>4 DEF Held
<1>6. s.accepted_idx <= Len(a)
  BY <1>2, <1>3 DEF Segment
<1>7. ASSUME NEW i \in s.compacted_idx + 1 .. s.accepted_idx
      PROVE  EntryAt(s, i) = a[i]
  <2>1. PICK j : j = i - s.compacted_idx
    OBVIOUS
  <2>2. j \in 1 .. Len(s.log) /\ i > s.compacted_idx /\ s.compacted_idx + j = i
    BY <1>2, <1>3, <1>7, <2>1
  <2>3. s.log[j] = a[i]
    BY <1>3, <2>2 DEF Segment
  <2> QED BY <1>4, <2>1, <2>2, <2>3 DEF EntryAt
<1> QED BY <1>1, <1>3, <1>5, <1>6, <1>7 DEF Reads

\* Servers whose logs are those of rounds that agree up to i hold the same entry.
LEMMA ReadsSame ==
  ASSUME NEW s \in Storage, NEW t \in Storage, NEW a, NEW b, Reads(s, a), Reads(t, b),
         NEW k \in Nat, Agree(a, b, k), NEW i \in 1 .. k
  PROVE  SameEntry(s, t, i)
<1>1. s.compacted_idx \in Nat /\ t.compacted_idx \in Nat /\ s.accepted_idx \in Nat /\ t.accepted_idx \in Nat
  BY StorageFields
<1>2. a[i] = b[i]
  BY DEF Agree
<1> QED BY <1>1, <1>2 DEF Reads, SameEntry

\* What a server accepted it keeps.
LEMMA ReadsKeeps ==
  ASSUME NEW s \in Storage, NEW a, Reads(s, a), NEW i \in Nat, i > 0, i <= s.accepted_idx
  PROVE  Keeps(s, i)
<1>1. s.compacted_idx \in Nat /\ s.accepted_idx \in Nat
  BY StorageFields
<1> QED BY <1>1 DEF Reads, Keeps

\* The first i entries of round r are chosen, and the log of p begins with them.
ChosenBy(h, p, r, i) ==
  /\ r \in Ballot /\ Chosen(h, r, i) /\ r \preceq storage[p].accepted_round
  /\ i <= storage[p].accepted_idx
  /\ Agree(h.rlog[r], h.rlog[storage[p].accepted_round], i)

\* What was chosen in a round is in the log of every storage that accepted it, or
\* accepted in a later round.
LEMMA ChosenIsLogged ==
  ASSUME NEW h \in History, ChosenInv(h), NEW q \in Server, NEW s \in Storage, LogOK(h, q, s),
         NEW r \in Ballot, NEW i \in Nat, i > 0,
         Chosen(h, r, i), r \preceq s.accepted_round, s.accepted_round = r => i <= s.accepted_idx
  PROVE  i <= s.accepted_idx /\ Agree(h.rlog[r], h.rlog[s.accepted_round], i)
<1>2. PICK k, n : k = s.accepted_round /\ n = s.accepted_idx
  OBVIOUS
<1>3. /\ k \in Ballot /\ n \in Nat /\ h.rlog[r] \in Entries /\ h.rlog[k] \in Entries /\ h.base[k] \in Nat
      /\ Len(h.rlog[k]) \in Nat
  BY <1>2, StorageFields, HistoryFields
<1>4. CASE r = k
  <2>1. n <= Len(h.rlog[k])
    BY <1>2, ReadsLog DEF Reads
  <2>2. i <= Len(h.rlog[k])
    BY <1>2, <1>3, <1>4, <2>1
  <2>3. Agree(h.rlog[r], h.rlog[k], i)
    BY <1>3, <1>4, <2>2, AgreeSelf
  <2> QED BY <1>2, <1>4, <2>3
<1>5. CASE r \prec k
  <2>1. k \in h.est
    <3>1. k # DefaultBallot
      BY <1>3, <1>5, DefaultBallotSmallest, DefaultBallotType, BallotAsymmetric
    <3> QED BY <1>2, <3>1 DEF LogOK
  <2>2. i <= h.base[k] /\ Agree(h.rlog[r], h.rlog[k], i)
    BY <1>5, <2>1 DEF ChosenInv
  <2>3. h.base[k] <= n
    BY <1>2, <2>1 DEF LogOK
  <2>4. i <= n
    BY <1>3, <2>2, <2>3
  <2> QED BY <1>2, <2>2, <2>4
<1> QED BY <1>2, <1>4, <1>5 DEF \preceq

\* The same of a server.
LEMMA ChosenIsHeld ==
  ASSUME TypeOK, NEW h, Explains(h), NEW q \in Server, NEW r \in Ballot, NEW i \in Nat, i > 0,
         Chosen(h, r, i), r \preceq storage[q].accepted_round,
         storage[q].accepted_round = r => i <= storage[q].accepted_idx
  PROVE  ChosenBy(h, q, r, i)
<1>1. /\ h \in History /\ ChosenInv(h) /\ LogOK(h, q, storage[q]) /\ storage[q] \in Storage
  BY ChosenFirst DEF Explains, LogInv, TypeOK
<1>2. i <= storage[q].accepted_idx /\ Agree(h.rlog[r], h.rlog[storage[q].accepted_round], i)
  BY <1>1, ChosenIsLogged
<1> QED BY <1>2 DEF ChosenBy

\* What a server decided was chosen.
LEMMA DecidedIsChosen ==
  ASSUME TypeOK, NEW h, Explains(h), NEW p \in Server, NEW i \in 1 .. storage[p].decided_idx
  PROVE  \E r : ChosenBy(h, p, r, i)
<1>1. /\ h \in History /\ LogOK(h, p, storage[p]) /\ storage[p] \in Storage
  BY DEF Explains, LogInv, TypeOK
<1>2. PICK k, n, d : k = storage[p].accepted_round /\ n = storage[p].accepted_idx /\ d = storage[p].decided_idx
  OBVIOUS
<1>3. k \in Ballot /\ n \in Nat /\ d \in Nat /\ d <= n /\ DecidedIn(h, k, d)
  BY <1>1, <1>2, StorageFields DEF LogOK
<1>4. i \in Nat /\ i > 0 /\ i <= d /\ i <= n
  BY <1>2, <1>3
<1>5. DecidedIn(h, k, i)
  BY <1>1, <1>3, <1>4, BallotReflexive, DecidedBefore
<1>6. PICK r \in Ballot : r \preceq k /\ Chosen(h, r, i)
  BY <1>4, <1>5 DEF DecidedIn
<1>7. ChosenBy(h, p, r, i)
  BY <1>2, <1>4, <1>6, ChosenIsHeld
<1> QED BY <1>7

\* A server that has what was chosen holds it.
LEMMA ChosenSame ==
  ASSUME TypeOK, NEW h, Explains(h), NEW p \in Server, NEW q \in Server, NEW r, NEW i \in Nat, i > 0,
         ChosenBy(h, p, r, i), ChosenBy(h, q, r, i)
  PROVE  SameEntry(storage[p], storage[q], i) /\ Keeps(storage[q], i)
<1>1. /\ h \in History /\ LogOK(h, p, storage[p]) /\ LogOK(h, q, storage[q])
      /\ storage[p] \in Storage /\ storage[q] \in Storage
  BY DEF Explains, LogInv, TypeOK
<1>2. PICK s, t : s = storage[p] /\ t = storage[q]
  OBVIOUS
<1>3. PICK a, b, c : a = h.rlog[s.accepted_round] /\ b = h.rlog[t.accepted_round] /\ c = h.rlog[r]
  OBVIOUS
<1>4. Reads(s, a) /\ Reads(t, b)
  BY <1>1, <1>2, <1>3, ReadsLog
<1>5. Agree(c, a, i) /\ Agree(c, b, i) /\ i <= t.accepted_idx
  BY <1>2, <1>3 DEF ChosenBy
<1>6. Agree(a, b, i)
  BY <1>5, AgreeSymmetric, AgreeTransitive
<1>7. i \in 1 .. i
  OBVIOUS
<1>8. SameEntry(s, t, i)
  BY <1>1, <1>2, <1>4, <1>6, <1>7, ReadsSame
<1>9. Keeps(t, i)
  BY <1>1, <1>2, <1>4, <1>5, ReadsKeeps
<1> QED BY <1>2, <1>8, <1>9

------------------------------------------------------------------------------
(* The theorems *)

\* decided_idx is at most accepted_idx, with or without a restart.
LEMMA StoredHolds == Inv /\ Explained => DecidedIsAccepted /\ AcceptedIdxIsLogLength
<1> SUFFICES ASSUME Inv, NEW h, Explains(h), NEW p \in Server
             PROVE  /\ storage[p].decided_idx <= storage[p].accepted_idx
                    /\ storage[p].accepted_idx = load_cache(storage[p]).accepted_idx
  BY DEF Explained, DecidedIsAccepted, AcceptedIdxIsLogLength
<1>1. PICK s : s = storage[p]
  OBVIOUS
<1>2. h \in History /\ s \in Storage /\ LogOK(h, p, s) /\ BatchOK(h, p, s)
  BY <1>1 DEF Explains, LogInv, Inv, TypeOK
<1>3. PICK t : t = load_cache(s)
  OBVIOUS
<1>4. Loses(s, t)
  BY <1>2, <1>3, LoadLoses
<1> QED BY <1>1, <1>2, <1>3, <1>4 DEF LogOK, Loses

\* No server decides more than it has accepted, and none forgets by a crash
\* that it has accepted what it decided.
THEOREM StoredTheorem == Plain /\ Spec => []DecidedIsAccepted
<1> QED BY StoredHolds, Invariance, HistoryInvariance, PTL

\* The cached accepted_idx, which every handler keeps in step by itself, is the
\* one that a restart computes from the log.
THEOREM LengthTheorem == Plain /\ Spec => []AcceptedIdxIsLogLength
<1> QED BY StoredHolds, Invariance, HistoryInvariance, PTL

\* Entries decided by two servers were chosen, in rounds of which the later one
\* began with what was chosen in the other.
LEMMA AgreementHolds == Inv /\ Explained => Agreement
<1> SUFFICES ASSUME Inv, NEW h, Explains(h), NEW p \in Server, NEW q \in Server,
                    NEW i \in 1 .. minimum(storage[p].decided_idx, storage[q].decided_idx)
             PROVE  SameEntry(storage[p], storage[q], i)
  BY DEF Explained, Agreement
<1>1. TypeOK /\ storage[p].decided_idx \in Nat /\ storage[q].decided_idx \in Nat
  BY StorageFields DEF Inv, TypeOK
<1>2. i \in 1 .. storage[p].decided_idx /\ i \in 1 .. storage[q].decided_idx /\ i \in Nat /\ i > 0
  BY <1>1 DEF minimum
<1>3. PICK r : ChosenBy(h, p, r, i)
  BY <1>1, <1>2, DecidedIsChosen
<1>4. PICK k : ChosenBy(h, q, k, i)
  BY <1>1, <1>2, DecidedIsChosen
<1>5. /\ r \in Ballot /\ k \in Ballot
      /\ storage[p].accepted_round \in Ballot /\ storage[q].accepted_round \in Ballot
  BY <1>1, <1>3, <1>4, StorageFields DEF ChosenBy, TypeOK
<1>6. r \preceq k \/ k \preceq r
  BY <1>5, BallotTotal DEF \preceq
<1>7. CASE r \preceq k
  <2>1. r \preceq storage[q].accepted_round
    BY <1>4, <1>5, <1>7, BallotTransitive DEF ChosenBy
  <2>2. ChosenBy(h, q, r, i)
    BY <1>1, <1>2, <1>3, <1>4, <2>1, ChosenIsHeld DEF ChosenBy
  <2> QED BY <1>1, <1>2, <1>3, <2>2, ChosenSame
<1>8. CASE k \preceq r
  <2>1. k \preceq storage[p].accepted_round
    BY <1>3, <1>5, <1>8, BallotTransitive DEF ChosenBy
  <2>2. ChosenBy(h, p, k, i)
    BY <1>1, <1>2, <1>3, <1>4, <2>1, ChosenIsHeld DEF ChosenBy
  <2> QED BY <1>1, <1>2, <1>4, <2>2, ChosenSame
<1> QED BY <1>6, <1>7, <1>8

\* No two servers decide different entries at an index, whatever the elections,
\* losses, crashes, reconnections and compactions.
THEOREM AgreementTheorem == Plain /\ Spec => []Agreement
BY AgreementHolds, Invariance, HistoryInvariance, PTL

\* What a server decided, the write quorum that chose it still holds.
LEMMA DurabilityHolds == Inv /\ Explained => DecidedIsDurable
<1> SUFFICES ASSUME Inv, NEW h, Explains(h), NEW p \in Server, NEW i \in 1 .. storage[p].decided_idx
             PROVE  Cardinality({q \in Server : Keeps(storage[q], i) /\ SameEntry(storage[p], storage[q], i)})
                      >= WriteQuorum
  BY DEF Explained, DecidedIsDurable
<1>1. TypeOK /\ storage[p].decided_idx \in Nat /\ h \in History /\ VoteInv(h)
  BY StorageFields DEF Inv, TypeOK, Explains
<1>2. i \in Nat /\ i > 0
  BY <1>1
<1>3. PICK r : ChosenBy(h, p, r, i)
  BY <1>1, DecidedIsChosen
<1>4. r \in Ballot /\ Chosen(h, r, i)
  BY <1>3 DEF ChosenBy
<1>5. ASSUME NEW q \in Server, h.acc[q][r] >= i
      PROVE  Keeps(storage[q], i) /\ SameEntry(storage[p], storage[q], i)
  <2>1. /\ storage[q].accepted_round \in Ballot /\ h.acc[q][r] \in Nat /\ LogOK(h, q, storage[q])
    BY <1>1, <1>4, StorageFields, HistoryFields DEF TypeOK, Explains, LogInv
  <2>2. r \preceq storage[q].accepted_round
    <3>1. h.acc[q][r] # 0
      BY <1>2, <1>5, <2>1
    <3> QED BY <1>1, <1>4, <2>1, <3>1, BallotTotal DEF VoteInv
  <2>3. storage[q].accepted_round = r => i <= storage[q].accepted_idx
    BY <1>2, <1>5, <2>1 DEF LogOK
  <2>4. ChosenBy(h, q, r, i)
    BY <1>1, <1>2, <1>4, <2>2, <2>3, ChosenIsHeld
  <2> QED BY <1>1, <1>2, <1>3, <2>4, ChosenSame
<1> DEFINE A == {q \in Server : Keeps(storage[q], i) /\ SameEntry(storage[p], storage[q], i)}
<1>6. Voters(h, r, i) \subseteq A /\ A \subseteq Server
  BY <1>5 DEF Voters
<1>7. Cardinality(Voters(h, r, i)) >= WriteQuorum
  BY <1>4 DEF Chosen
<1> HIDE DEF A
<1>8. Cardinality(A) >= WriteQuorum
  BY <1>6, <1>7, QuorumGrows, QuorumSizes
<1> QED BY <1>8 DEF A

\* Every decided entry is kept by a write quorum, so it survives crashes.
THEOREM DurabilityTheorem == Plain /\ Spec => []DecidedIsDurable
BY DurabilityHolds, Invariance, HistoryInvariance, PTL

\* Servers that accepted in the same round have logs of which one is a prefix of
\* the other.
THEOREM LogMatchingTheorem == Plain /\ Spec => []LogMatching
<1>1. Inv /\ Explained => LogMatching
  <2> SUFFICES ASSUME Inv, NEW h, Explains(h), NEW p \in Server, NEW q \in Server,
                      storage[p].accepted_round = storage[q].accepted_round,
                      NEW i \in 1 .. minimum(storage[p].accepted_idx, storage[q].accepted_idx)
               PROVE  SameEntry(storage[p], storage[q], i)
    BY DEF Explained, LogMatching
  <2>1. /\ h \in History /\ LogOK(h, p, storage[p]) /\ LogOK(h, q, storage[q])
        /\ storage[p] \in Storage /\ storage[q] \in Storage
    BY DEF Explains, LogInv, Inv, TypeOK
  <2>2. PICK s, t : s = storage[p] /\ t = storage[q]
    OBVIOUS
  <2>3. PICK a : a = h.rlog[s.accepted_round]
    OBVIOUS
  <2>4. Reads(s, a) /\ Reads(t, a)
    BY <2>1, <2>2, <2>3, ReadsLog
  <2>5. /\ s.accepted_idx \in Nat /\ t.accepted_idx \in Nat /\ s.accepted_round \in Ballot
    BY <2>1, <2>2, StorageFields
  <2>6. a \in Entries /\ i \in Nat /\ i \in 1 .. i /\ i <= s.accepted_idx
    BY <2>1, <2>2, <2>3, <2>5, HistoryFields DEF minimum
  <2>7. i <= Len(a)
    <3>1. Len(a) \in Nat /\ s.accepted_idx <= Len(a)
      BY <2>4, <2>6, LenProperties DEF Reads, Entries
    <3> QED BY <2>5, <2>6, <3>1
  <2>8. Agree(a, a, i)
    BY <2>6, <2>7, AgreeSelf
  <2>9. SameEntry(s, t, i)
    BY <2>1, <2>2, <2>4, <2>6, <2>8, ReadsSame
  <2> QED BY <2>2, <2>9
<1> QED BY <1>1, Invariance, HistoryInvariance, PTL

\* A leader that has left the Prepare phase has every entry decided in its round
\* or before.
THEOREM LeaderCompletenessTheorem == Plain /\ Spec => []LeaderCompleteness
<1>1. Inv /\ Explained => LeaderCompleteness
  <2> SUFFICES ASSUME Inv, NEW h, Explains(h), NEW p \in Server, NEW q \in Server,
                      state[p] = << "Leader", "Accept" >>,
                      storage[q].accepted_round \preceq leader_state[p].n_leader,
                      NEW i \in 1 .. storage[q].decided_idx
               PROVE  i <= storage[p].accepted_idx /\ SameEntry(storage[p], storage[q], i)
    BY DEF Explained, LeaderCompleteness
  <2>1. /\ TypeOK /\ h \in History /\ storage[q].decided_idx \in Nat
        /\ LeaderOK(h, p, storage[p], leader_state[p]) /\ BatchOK(h, p, storage[p])
        /\ ChosenInv(h) /\ RoundInv(h) /\ VoteInv(h)
    BY StorageFields, ChosenFirst DEF Inv, TypeOK, Explains, LeaderInv, LeadingOK, LogInv
  <2>2. PICK n : n = leader_state[p].n_leader
    OBVIOUS
  <2>3. /\ n \in h.est /\ storage[p].accepted_round = n /\ n.pid = p /\ n \in Ballot
        /\ Len(h.rlog[n]) = storage[p].accepted_idx
        /\ h.base[n] <= Len(h.rlog[n])
    BY <2>1, <2>2, HistoryFields DEF LeaderOK, BatchOK, RoundInv, RoundOK
  <2>4. i \in Nat /\ i > 0
    BY <2>1
  <2>5. PICK r : ChosenBy(h, q, r, i)
    BY <2>1, DecidedIsChosen
  <2>6. /\ r \in Ballot /\ Chosen(h, r, i) /\ storage[q].accepted_round \in Ballot
        /\ r \preceq storage[q].accepted_round
    BY <2>1, <2>5, StorageFields DEF ChosenBy, TypeOK
  <2>7. r \preceq n
    BY <2>2, <2>3, <2>6, BallotTransitive
  <2>8. i <= Len(h.rlog[n])
    <3>1. DecidedIn(h, n, i)
      BY <2>6, <2>7 DEF DecidedIn
    <3>2. \A x \in Server, k \in Ballot : h.acc[x][k] <= Len(h.rlog[k])
      BY <2>1 DEF VoteInv
    <3> QED BY <2>1, <2>3, <2>4, <3>1, <3>2, DecidedIsLogged
  <2>9. ChosenBy(h, p, r, i)
    BY <2>1, <2>3, <2>4, <2>6, <2>7, <2>8, ChosenIsHeld
  <2>10. SameEntry(storage[p], storage[q], i)
    BY <2>1, <2>4, <2>5, <2>9, ChosenSame
  <2> QED BY <2>3, <2>8, <2>10
<1> QED BY <1>1, Invariance, HistoryInvariance, PTL

\* What the leader counts as accepted by a server, that server has stored in its
\* round.
THEOREM AckedTheorem == Plain /\ Spec => []AckedIsStored
<1>1. Inv /\ Explained => AckedIsStored
  <2> SUFFICES ASSUME Inv, NEW h, Explains(h), NEW p \in Server, NEW q \in Server,
                      leader_state[p].accepted_indexes[q] > 0,
                      storage[q].accepted_round \preceq leader_state[p].n_leader
               PROVE  /\ storage[q].accepted_round = leader_state[p].n_leader
                      /\ leader_state[p].accepted_indexes[q] <= storage[q].accepted_idx
    BY DEF Explained, AckedIsStored
  <2>1. PICK l, s, n, k : /\ l = leader_state[p] /\ s = storage[q] /\ n = leader_state[p].n_leader
                          /\ k = leader_state[p].accepted_indexes[q]
    OBVIOUS
  <2>2. /\ h \in History /\ l \in LeaderStates /\ s \in Storage /\ q \in Slots
        /\ CountsOK(h, l) /\ LogOK(h, q, s) /\ VoteInv(h)
    BY <2>1, ServersHaveSlots DEF Inv, TypeOK, Explains, CountsInv, LogInv
  <2>3. n \in Ballot /\ k \in Nat /\ s.accepted_round \in Ballot /\ h.acc[q][n] \in Nat
    BY <2>1, <2>2, LeaderFields, StorageFields, HistoryFields
  <2>4. k <= h.acc[q][n]
    BY <2>1, <2>2 DEF CountsOK
  <2>5. ~ (s.accepted_round \prec n)
    <3>1. h.acc[q][n] # 0
      BY <2>1, <2>3, <2>4
    <3> QED BY <2>1, <2>2, <2>3, <3>1 DEF VoteInv
  <2>6. s.accepted_round = n
    BY <2>1, <2>5 DEF \preceq
  <2>7. h.acc[q][n] = s.accepted_idx
    BY <2>2, <2>6 DEF LogOK
  <2> QED BY <2>1, <2>4, <2>6, <2>7
<1> QED BY <1>1, Invariance, HistoryInvariance, PTL

\* What a server trimmed every server has accepted.
THEOREM TrimmedTheorem == Plain /\ Spec => []TrimmedIsAcceptedByAll
<1>1. Inv /\ Explained => TrimmedIsAcceptedByAll
  <2> SUFFICES ASSUME Inv, NEW h, Explains(h), NEW p \in Server, NEW q \in Server
               PROVE  storage[p].compacted_idx <= storage[q].accepted_idx
    BY DEF Explained, TrimmedIsAcceptedByAll
  <2>1. PICK i : i = storage[p].compacted_idx
    OBVIOUS
  <2>2. /\ TypeOK /\ h \in History /\ VoteInv(h) /\ LogOK(h, p, storage[p]) /\ LogOK(h, q, storage[q])
        /\ storage[p] \in Storage /\ storage[q] \in Storage
    BY DEF Explains, LogInv, Inv, TypeOK
  <2>3. /\ i \in Nat /\ HeldByAll(h, i) /\ storage[q].accepted_idx \in Nat
        /\ storage[q].accepted_round \in Ballot
    BY <2>1, <2>2, StorageFields DEF LogOK
  <2>4. CASE i = 0
    BY <2>1, <2>3, <2>4
  <2>5. CASE i > 0
    <3>1. PICK r \in Ballot : \A x \in Server : h.acc[x][r] >= i
      BY <2>3, <2>5 DEF HeldByAll
    <3>2. Chosen(h, r, i)
      <4>1. Voters(h, r, i) = Server
        BY <3>1 DEF Voters
      <4>2. Cardinality(Server) \in Nat
        BY ServerAssumption, FS_CardinalityType
      <4> QED BY <4>1, <4>2, QuorumAssumption, QuorumSizes DEF Chosen
    <3>3. h.acc[q][r] \in Nat /\ h.acc[q][r] >= i
      BY <2>2, <3>1, HistoryFields
    <3>4. ~ (storage[q].accepted_round \prec r)
      BY <2>2, <2>3, <2>5, <3>3 DEF VoteInv
    <3>5. r \preceq storage[q].accepted_round
      BY <2>3, <3>4, BallotTotal DEF \preceq
    <3>6. storage[q].accepted_round = r => i <= storage[q].accepted_idx
      BY <2>2, <3>3 DEF LogOK
    <3>7. ChosenBy(h, q, r, i)
      BY <2>2, <2>3, <2>5, <3>2, <3>5, <3>6, ChosenIsHeld
    <3> QED BY <2>1, <3>7 DEF ChosenBy
  <2> QED BY <2>3, <2>4, <2>5
<1> QED BY <1>1, Invariance, HistoryInvariance, PTL

\* No step replaces or takes away what a server decided.
LEMMA StabilityHolds ==
  Inv /\ Explained /\ [AnyStep]_vars =>
    [\A p \in Server : \A i \in 1 .. storage[p].decided_idx :
       i \in Held(storage[p]) =>
         /\ Keeps(storage'[p], i)
         /\ SameEntry(storage[p], storage'[p], i)]_vars
<1>1. ASSUME Inv, Inv', NEW h, Explains(h), NEW g, Succeeds(h, g), NEW p \in Server,
             storage[p].accepted_round \preceq storage'[p].accepted_round,
             NEW i \in 1 .. storage[p].decided_idx
      PROVE  Keeps(storage'[p], i) /\ SameEntry(storage[p], storage'[p], i)
  <2>1. PICK s, t : s = storage[p] /\ t = storage'[p]
    OBVIOUS
  <2>2. /\ TypeOK /\ h \in History /\ LogOK(h, p, s) /\ s \in Storage
        /\ g \in History /\ LogOK(g, p, t) /\ t \in Storage /\ ChosenInv(g) /\ Later(h, g)
    BY <1>1, <2>1, ChosenFirst DEF Explains, LogInv, Inv, TypeOK, Succeeds
  <2>3. PICK k, n : k = s.accepted_round /\ n = t.accepted_round
    OBVIOUS
  <2>4. k \in Ballot /\ n \in Ballot /\ k \preceq n /\ s.accepted_idx \in Nat /\ t.accepted_idx \in Nat
        /\ s.decided_idx \in Nat
    BY <1>1, <2>1, <2>2, <2>3, StorageFields
  <2>5. i \in Nat /\ i > 0 /\ i \in 1 .. i
    BY <1>1, <2>1, <2>4
  <2>6. PICK r : ChosenBy(h, p, r, i)
    BY <1>1, <2>2, DecidedIsChosen
  <2>7. /\ r \in Ballot /\ Chosen(h, r, i) /\ r \preceq k /\ i <= s.accepted_idx
        /\ Agree(h.rlog[r], h.rlog[k], i)
    BY <2>1, <2>3, <2>6 DEF ChosenBy
  <2>8. /\ h.rlog[r] \in Entries /\ h.rlog[k] \in Entries /\ g.rlog[r] \in Entries
        /\ g.rlog[k] \in Entries /\ g.rlog[n] \in Entries
        /\ Extends(h.rlog[r], g.rlog[r]) /\ Extends(h.rlog[k], g.rlog[k])
        /\ \A q \in Server : h.acc[q][r] \in Nat /\ g.acc[q][r] \in Nat /\ h.acc[q][r] <= g.acc[q][r]
    BY <2>2, <2>4, <2>7, HistoryFields DEF Later
  <2>9. Chosen(g, r, i)
    <3>1. Voters(h, r, i) \subseteq Voters(g, r, i) /\ Voters(g, r, i) \subseteq Server
      BY <2>5, <2>8 DEF Voters
    <3> QED BY <2>7, <3>1, QuorumGrows, QuorumSizes DEF Chosen
  <2>10. r \preceq n
    BY <2>4, <2>7, BallotTransitive
  <2>11. n = r => i <= t.accepted_idx
    <3> SUFFICES ASSUME n = r PROVE i <= t.accepted_idx
      OBVIOUS
    <3>1. k = r
      BY <2>4, <2>7, BallotAsymmetric DEF \preceq
    <3>2. h.acc[p][r] = s.accepted_idx /\ g.acc[p][r] = t.accepted_idx
      BY <2>2, <2>3, <3>1 DEF LogOK
    <3> QED BY <2>4, <2>5, <2>7, <2>8, <3>2
  <2>12. i <= t.accepted_idx /\ Agree(g.rlog[r], g.rlog[n], i)
    BY <2>2, <2>3, <2>5, <2>7, <2>9, <2>10, <2>11, ChosenIsLogged
  <2>13. Agree(h.rlog[k], g.rlog[n], i)
    <3>1. Agree(h.rlog[k], h.rlog[r], i)
      BY <2>7, AgreeSymmetric
    <3>2. Extends(h.rlog[k], h.rlog[k])
      BY <2>8, ExtendsSelf
    <3>3. Agree(h.rlog[k], g.rlog[r], i)
      BY <2>5, <2>8, <3>1, <3>2, AgreeExtends
    <3> QED BY <2>12, <3>3, AgreeTransitive
  <2>14. Reads(s, h.rlog[k]) /\ Reads(t, g.rlog[n])
    BY <2>2, <2>3, ReadsLog
  <2>15. SameEntry(s, t, i)
    BY <2>2, <2>5, <2>13, <2>14, ReadsSame
  <2>16. Keeps(t, i)
    BY <2>2, <2>5, <2>12, <2>14, ReadsKeeps
  <2> QED BY <2>1, <2>15, <2>16
<1> SUFFICES ASSUME Inv, Explained, [AnyStep]_vars, NEW p \in Server, NEW i \in 1 .. storage[p].decided_idx
             PROVE  Keeps(storage'[p], i) /\ SameEntry(storage[p], storage'[p], i)
  OBVIOUS
<1>2. PICK h : Explains(h)
  BY DEF Explained
<1>3. PICK g : Succeeds(h, g)
  BY <1>2, AnyStepSucceeds
<1>4. storage[p].accepted_round \preceq storage'[p].accepted_round
  <2>1. CASE RoundsStep
    BY <2>1 DEF RoundsStep
  <2>2. CASE UNCHANGED vars
    <3>1. storage' = storage
      BY <2>2 DEF vars, serverVars
    <3>2. storage[p].accepted_round \in Ballot
      BY StorageFields DEF Inv, TypeOK
    <3> QED BY <3>1, <3>2, BallotReflexive
  <2> QED BY <2>1, <2>2, AnyStepOK
<1> QED BY <1>1, <1>2, <1>3, <1>4, AnyStepOK

\* A decided entry is never replaced or taken away, by no synchronisation and
\* through no crash.
THEOREM StabilityTheorem == Plain /\ Spec => DecidedIsStable
<1>1. [Next]_vars => [AnyStep]_vars
  BY DEF AnyStep
<1> QED BY <1>1, StabilityHolds, Invariance, HistoryInvariance, PTL DEF Spec, DecidedIsStable

------------------------------------------------------------------------------
(* Reads of the user *)

\* The indices of a storage agree with each other: the log ends in the stop sign,
\* if there is one, and no more is decided than accepted.
WellFormed(s) ==
  /\ s \in Storage
  /\ s.accepted_idx = s.compacted_idx + Len(s.log) + (IF s.stopsign = None THEN 0 ELSE 1)
  /\ s.decided_idx <= s.accepted_idx

\* What create_read_log_entries returns of a range that is in the log.
LEMMA ReadEntries ==
  ASSUME NEW s, WellFormed(s), NEW from \in s.compacted_idx .. s.compacted_idx + Len(s.log),
         NEW to \in from .. s.compacted_idx + Len(s.log)
  PROVE  create_read_log_entries(s, from, to) = [i \in 1 .. to - from |-> MarkedEntry(s, from + i)]
<1>1. s.log \in Seq(Value) /\ s.compacted_idx \in Nat /\ Len(s.log) \in Nat
  BY LenProperties DEF WellFormed, Storage, Entries
<1>2. PICK c \in Nat, n \in Nat : c = s.compacted_idx /\ n = Len(s.log)
  BY <1>1
<1>3. from \in Nat /\ to \in Nat /\ c <= from /\ from <= to /\ to <= c + n
  BY <1>2
<1>4. PICK a \in Nat, b \in Nat : a = from - c /\ b = to - c /\ a <= b /\ b <= n /\ b - a = to - from
  <2>1. from - c \in Nat /\ to - c \in Nat /\ from - c <= to - c /\ to - c <= n
    BY <1>3
  <2> QED BY <1>3, <2>1
<1> DEFINE entries == SubSeq(s.log, a + 1, b)
<1>5. get_entries(s, from, to) = entries
  BY <1>2, <1>3, <1>4 DEF get_entries
<1>6. \A i \in a + 1 .. b : s.log[i] \in Value
  <2> SUFFICES ASSUME NEW i \in a + 1 .. b PROVE s.log[i] \in Value
    OBVIOUS
  <2>1. i \in 1 .. n
    BY <1>4
  <2> QED BY <1>1, <1>2, <2>1, ElementOfSeq
<1>7. /\ entries \in Seq(Value)
      /\ Len(entries) = IF a + 1 <= b THEN b - (a + 1) + 1 ELSE 0
      /\ \A i \in 1 .. b - (a + 1) + 1 : entries[i] = s.log[a + 1 + i - 1]
  BY <1>4, <1>6, SubSeqProperties
<1> HIDE DEF entries
<1>8. DOMAIN entries = 1 .. to - from
  BY <1>4, <1>7, LenProperties
<1>9. \A i \in 1 .. to - from : entries[i] = s.log[a + i]
  BY <1>4, <1>7
<1>10. ASSUME NEW i \in 1 .. to - from
       PROVE  (IF from + i <= s.decided_idx THEN Decided(entries[i]) ELSE Undecided(entries[i]))
                = MarkedEntry(s, from + i)
  <2>1. a + i \in 1 .. n /\ from + i > c /\ from + i - c = a + i
    BY <1>3, <1>4, <1>10
  <2>2. s.log[a + i] \in Value
    BY <1>1, <1>2, <2>1, ElementOfSeq
  <2>3. LogWithStopSign(s)[a + i] = s.log[a + i]
    BY <1>1, <1>2, <2>1, AppendProperties DEF LogWithStopSign
  <2>4. EntryAt(s, from + i) = s.log[a + i]
    BY <1>2, <2>1, <2>3 DEF EntryAt
  <2>5. s.log[a + i] \notin StopSign
    BY <2>2, StorageAssumption
  <2> QED BY <1>9, <1>10, <2>4, <2>5 DEF MarkedEntry
<1>11. create_read_log_entries(s, from, to) =
         [i \in 1 .. to - from |-> IF from + i <= s.decided_idx THEN Decided(entries[i]) ELSE Undecided(entries[i])]
  BY <1>5, <1>8 DEF create_read_log_entries
<1> QED BY <1>10, <1>11

\* The stop sign is what is read at the last index.
LEMMA ReadLast ==
  ASSUME NEW s, WellFormed(s), s.stopsign # None
  PROVE  MarkedEntry(s, s.accepted_idx) = ReadStopSign(s.stopsign, stopsign_is_decided(s))
<1>1. /\ s.compacted_idx \in Nat /\ s.log \in Seq(Value) /\ Len(s.log) \in Nat /\ s.decided_idx \in Nat
      /\ s.accepted_idx \in Nat /\ s.stopsign \in StopSign
      /\ s.accepted_idx = s.compacted_idx + Len(s.log) + 1 /\ s.decided_idx <= s.accepted_idx
  BY LenProperties DEF WellFormed, Storage, Entries
<1>2. EntryAt(s, s.accepted_idx) = Append(s.log, s.stopsign)[Len(s.log) + 1]
  BY <1>1 DEF EntryAt, LogWithStopSign
<1>3. EntryAt(s, s.accepted_idx) = s.stopsign
  BY <1>1, <1>2, AppendProperties
<1>4. (s.accepted_idx <= s.decided_idx) = stopsign_is_decided(s)
  BY <1>1 DEF stopsign_is_decided
<1> QED BY <1>1, <1>3, <1>4 DEF MarkedEntry

\* Three sequences are joined in either order.
LEMMA ConcatJoins ==
  ASSUME NEW S, NEW T, NEW U, NEW a \in Seq(S), NEW b \in Seq(T), NEW d \in Seq(U)
  PROVE  (a \o b) \o d = a \o (b \o d)
<1> DEFINE V == S \cup T \cup U
<1>1. a \in Seq(V) /\ b \in Seq(V) /\ d \in Seq(V)
  OBVIOUS
<1> HIDE DEF V
<1> QED BY <1>1, ConcatAssociative

\* The positions from .. from + n - 1, marked.
Marked(s, from, n) == [i \in 1 .. n |-> MarkedEntry(s, from + i)]

\* They are a sequence of that length, and one more is one more entry at its end.
LEMMA MarkedFacts ==
  ASSUME NEW s, NEW from, NEW n \in Nat
  PROVE  /\ \E S : Marked(s, from, n) \in Seq(S)
         /\ Marked(s, from, n) \o << MarkedEntry(s, from + (n + 1)) >> = Marked(s, from, n + 1)
         /\ Marked(s, from, 0) = << >>
<1> DEFINE S == {MarkedEntry(s, from + i) : i \in 1 .. n + 1}
           one == << MarkedEntry(s, from + (n + 1)) >>
<1>1. \A i \in 1 .. n + 1 : MarkedEntry(s, from + i) \in S
  OBVIOUS
<1>2. n + 1 \in 1 .. n + 1 /\ n + 1 \in Nat /\ \A i \in 1 .. n : i \in 1 .. n + 1
  OBVIOUS
<1> HIDE DEF S
<1>3. /\ Marked(s, from, n) \in Seq(S) /\ Len(Marked(s, from, n)) = n
      /\ \A i \in 1 .. n : Marked(s, from, n)[i] = MarkedEntry(s, from + i)
  BY <1>1, <1>2 DEF Marked
<1>4. /\ Marked(s, from, n + 1) \in Seq(S) /\ Len(Marked(s, from, n + 1)) = n + 1
      /\ \A i \in 1 .. n + 1 : Marked(s, from, n + 1)[i] = MarkedEntry(s, from + i)
  BY <1>1, <1>2 DEF Marked
<1>5. one \in Seq(S) /\ Len(one) = 1 /\ one[1] = MarkedEntry(s, from + (n + 1))
  BY <1>1, <1>2
<1> HIDE DEF one
<1>6. /\ Marked(s, from, n) \o one \in Seq(S)
      /\ Len(Marked(s, from, n) \o one) = n + 1
      /\ \A i \in 1 .. n + 1 : (Marked(s, from, n) \o one)[i] =
                                  IF i <= n THEN Marked(s, from, n)[i] ELSE one[i - n]
  <2>1. PICK m : m = Marked(s, from, n)
    OBVIOUS
  <2>2. m \in Seq(S) /\ Len(m) = n
    BY <1>3, <2>1
  <2>3. /\ m \o one \in Seq(S) /\ Len(m \o one) = Len(m) + Len(one)
        /\ \A i \in 1 .. Len(m) + Len(one) : (m \o one)[i] = IF i <= Len(m) THEN m[i] ELSE one[i - Len(m)]
    BY <1>5, <2>2, ConcatProperties
  <2>4. Len(m) + Len(one) = n + 1
    BY <1>5, <2>2
  <2> QED BY <2>1, <2>2, <2>3, <2>4
<1>7. \A i \in 1 .. n + 1 : (Marked(s, from, n) \o one)[i] = Marked(s, from, n + 1)[i]
  <2> SUFFICES ASSUME NEW i \in 1 .. n + 1
               PROVE  (Marked(s, from, n) \o one)[i] = Marked(s, from, n + 1)[i]
    OBVIOUS
  <2>1. CASE i <= n
    <3>1. i \in 1 .. n
      BY <2>1
    <3> QED BY <1>3, <1>4, <1>6, <2>1, <3>1
  <2>2. CASE i = n + 1
    <3>1. ~ (i <= n) /\ i - n = 1
      BY <2>2
    <3> QED BY <1>4, <1>5, <1>6, <2>2, <3>1
  <2>3. i <= n \/ i = n + 1
    OBVIOUS
  <2> QED BY <2>1, <2>2, <2>3
<1>8. Marked(s, from, n) \o one = Marked(s, from, n + 1)
  BY <1>4, <1>6, <1>7, SeqEqual
<1>9. Marked(s, from, 0) = << >>
  BY DEF Marked
<1> QED BY <1>3, <1>8, <1>9 DEF one

\* What a read returns is what is at the indices of the range: the entries in
\* order, each marked as decided or not, the stop sign at its place, and one
\* compacted entry for what is not in the log any more.
THEOREM ReadTheorem ==
  ASSUME NEW s, WellFormed(s), NEW to \in 1 .. s.accepted_idx, NEW from \in 0 .. to - 1
  PROVE  read(s, from, to) = ExactRead(s, from, to)
<1>1. /\ s.compacted_idx \in Nat /\ s.accepted_idx \in Nat /\ Len(s.log) \in Nat
      /\ s.accepted_idx = s.compacted_idx + Len(s.log) + (IF s.stopsign = None THEN 0 ELSE 1)
  BY LenProperties DEF WellFormed, Storage, Entries
<1>2. PICK c \in Nat, n \in Nat, k \in Nat : c = s.compacted_idx /\ n = Len(s.log) /\ k = s.accepted_idx
  BY <1>1
<1>3. to \in Nat /\ from \in Nat /\ 1 <= to /\ to <= k /\ from <= to - 1 /\ to - 1 \in Nat
  BY <1>2
<1>4. (s.stopsign = None => k = c + n) /\ (s.stopsign # None => k = c + n + 1)
  BY <1>1, <1>2
<1>5. PICK first \in Nat : first = IF from < c THEN c ELSE from
  BY <1>2, <1>3
<1> DEFINE compacted == << create_compacted_entry(s) >>
           stopsign == << ReadStopSign(s.stopsign, stopsign_is_decided(s)) >>
           rest == Marked(s, first, to - first)
<1> HIDE DEF compacted, stopsign
<1>6. ExactRead(s, from, to) = IF from < c THEN compacted \o rest ELSE rest
  BY <1>2, <1>5 DEF ExactRead, Marked, compacted
<1>7. \E S : compacted \in Seq(S)
  <2>1. compacted \in Seq({create_compacted_entry(s)})
    BY DEF compacted
  <2> QED BY <2>1
<1>8. compacted \o << >> = compacted
  BY <1>7
<1>9. CASE to - 1 < c
  <2>1. read(s, from, to) = compacted
    BY <1>2, <1>3, <1>9 DEF read, get_entry_type, compacted
  <2>2. from < c /\ first = c /\ to - first <= 0 /\ to - first \in Int
    BY <1>3, <1>5, <1>9
  <2>3. rest = << >>
    BY <2>2 DEF Marked
  <2> QED BY <1>6, <1>8, <2>1, <2>2, <2>3
<1>10. CASE c <= to - 1 /\ ~ (to = k /\ s.stopsign # None)
  <2>1. /\ get_entry_type(s, to - 1) = "Entry"
        /\ get_entry_type(s, from) = IF from < c THEN "Compacted" ELSE "Entry"
    BY <1>2, <1>3, <1>4, <1>10 DEF get_entry_type
  <2>2. first \in c .. c + n /\ to \in first .. c + n /\ to - first \in Nat
    BY <1>3, <1>4, <1>5, <1>10
  <2>3. create_read_log_entries(s, first, to) = rest
    BY <1>2, <2>2, ReadEntries DEF Marked
  <2>4. \E S : rest \in Seq(S)
    BY <2>2, MarkedFacts
  <2> HIDE DEF rest
  <2>5. to # 0 /\ (IF get_entry_type(s, from) = "Compacted" THEN s.compacted_idx ELSE from) = first
    BY <1>2, <1>3, <1>5, <2>1
  <2>6. read(s, from, to) = (IF from < c THEN compacted ELSE << >>) \o rest \o << >>
    BY <2>1, <2>3, <2>5 DEF read, compacted
  <2>7. rest \o << >> = rest /\ << >> \o rest = rest
    BY <2>4
  <2>8. (compacted \o rest) \o << >> = compacted \o rest
    <3>1. PICK S : compacted \in Seq(S)
      BY <1>7
    <3>2. PICK T : rest \in Seq(T)
      BY <2>4
    <3>3. compacted \in Seq(S \cup T) /\ rest \in Seq(S \cup T)
      BY <3>1, <3>2
    <3>4. compacted \o rest \in Seq(S \cup T)
      BY <3>3, ConcatProperties
    <3> QED BY <3>4
  <2> QED BY <1>6, <2>6, <2>7, <2>8
<1>11. CASE c <= to - 1 /\ to = k /\ s.stopsign # None
  <2>1. /\ get_entry_type(s, to - 1) = "StopSign"
        /\ get_entry_type(s, from) = IF from < c THEN "Compacted" ELSE
                                       IF from + 1 < k THEN "Entry" ELSE "StopSign"
    BY <1>2, <1>3, <1>4, <1>11 DEF get_entry_type
  <2>2. PICK l \in Nat : l = to - 1
    BY <1>3
  <2>3. /\ first \in c .. c + n /\ l \in first .. c + n /\ l - first \in Nat
        /\ to - first = (l - first) + 1 /\ first + ((l - first) + 1) = k
    BY <1>3, <1>4, <1>5, <1>11, <2>2
  <2>4. create_read_log_entries(s, first, l) = Marked(s, first, l - first)
    BY <1>2, <2>3, ReadEntries DEF Marked
  <2>5. stopsign = << MarkedEntry(s, k) >>
    BY <1>2, <1>11, ReadLast DEF stopsign
  <2>6. Marked(s, first, l - first) \o stopsign = rest
    BY <2>3, <2>5, MarkedFacts
  <2>7. to # 0 /\ (IF get_entry_type(s, from) = "Compacted" THEN s.compacted_idx ELSE from) = first
    BY <1>2, <1>3, <1>5, <2>1
  <2>8. CASE from + 1 < k \/ from < c
    <3> DEFINE entries == Marked(s, first, l - first)
    <3>1. read(s, from, to) = (IF from < c THEN compacted ELSE << >>) \o entries \o stopsign
      BY <2>1, <2>2, <2>4, <2>7, <2>8 DEF read, compacted, stopsign
    <3>2. PICK S : compacted \in Seq(S)
      BY <1>7
    <3>3. PICK T : entries \in Seq(T)
      BY <2>3, MarkedFacts
    <3>4. PICK U : stopsign \in Seq(U)
      <4>1. stopsign \in Seq({MarkedEntry(s, k)})
        BY <2>5
      <4> QED BY <4>1
    <3> HIDE DEF entries
    <3>5. << >> \o entries = entries
      BY <3>3
    <3>6. (compacted \o entries) \o stopsign = compacted \o (entries \o stopsign)
      BY <3>2, <3>3, <3>4, ConcatJoins
    <3> QED BY <1>6, <2>6, <3>1, <3>5, <3>6 DEF entries
  <2>9. CASE ~ (from + 1 < k) /\ ~ (from < c)
    <3>1. read(s, from, to) = stopsign
      BY <2>1, <2>7, <2>9 DEF read, stopsign
    <3>2. l - first = 0
      BY <1>3, <1>5, <1>11, <2>2, <2>9
    <3>3. Marked(s, first, l - first) \o stopsign = stopsign
      <4>1. stopsign \in Seq({MarkedEntry(s, k)})
        BY <2>5
      <4>2. Marked(s, first, l - first) = << >>
        BY <3>2, MarkedFacts
      <4> QED BY <4>1, <4>2
    <3> QED BY <1>6, <2>6, <2>9, <3>1, <3>3
  <2> QED BY <2>8, <2>9
<1> QED BY <1>3, <1>9, <1>10, <1>11

\* Whatever range a user of any server reads at any time, what it gets is what
\* is at those indices of the log of the server.
THEOREM ReadsTheorem == Plain /\ Spec => []ReadsAreExact
<1>1. Inv /\ Explained => ReadsAreExact
  <2> SUFFICES ASSUME Inv, NEW h, Explains(h), NEW p \in Server,
                      NEW to \in 1 .. storage[p].accepted_idx, NEW from \in 0 .. to - 1
               PROVE  read(storage[p], from, to) = ExactRead(storage[p], from, to)
    BY DEF Explained, ReadsAreExact
  <2>1. PICK s : s = storage[p]
    OBVIOUS
  <2>2. s \in Storage /\ LogOK(h, p, s)
    BY <2>1 DEF Explains, LogInv, Inv, TypeOK
  <2>3. WellFormed(s)
    <3>1. s.compacted_idx \in Nat /\ Len(s.log) \in Nat
      BY <2>2, LenProperties DEF Storage, Entries
    <3> QED BY <2>2, <3>1 DEF WellFormed, LogOK
  <2> QED BY <2>1, <2>3, ReadTheorem
<1> QED BY <1>1, Invariance, HistoryInvariance, PTL

\* What a user reads of the decided part of a log that is neither compacted
\* there nor stopped: its entries.
LEMMA DecidedReads ==
  ASSUME NEW s, WellFormed(s), s.stopsign = None, s.snapshot = None, StopSign = {},
         NEW from \in Nat, s.compacted_idx <= from, from < s.decided_idx
  PROVE  LET mine == DecidedEntries(s, from)
         IN  /\ Len(mine) = s.decided_idx - from
             /\ \A i \in 1 .. s.decided_idx - from :
                  /\ from + i \in Held(s) /\ mine[i] = EntryAt(s, from + i) /\ mine[i] # None
<1>1. /\ s.compacted_idx \in Nat /\ s.accepted_idx \in Nat /\ s.decided_idx \in Nat /\ Len(s.log) \in Nat
      /\ s.log \in Seq(Value) /\ s.accepted_idx = s.compacted_idx + Len(s.log) /\ s.decided_idx <= s.accepted_idx
  BY LenProperties DEF WellFormed, Storage, Entries
<1>2. PICK c \in Nat, n \in Nat, d \in Nat :
        c = s.compacted_idx /\ n = Len(s.log) /\ d = s.decided_idx /\ c <= from /\ from < d /\ d <= c + n
  BY <1>1
<1>3. PICK k \in Nat : k = d - from /\ k >= 1 /\ k - 1 \in Nat
  <2>1. d - from \in Nat /\ d - from >= 1 /\ (d - from) - 1 \in Nat
    BY <1>2
  <2> QED BY <2>1
<1>4. read(s, from, d) = Marked(s, from, k)
  <2>1. d \in 1 .. s.accepted_idx /\ from \in 0 .. d - 1
    BY <1>1, <1>2
  <2>2. read(s, from, d) = ExactRead(s, from, d)
    BY <2>1, ReadTheorem
  <2>3. ~ (from < s.compacted_idx) /\ d - from = k
    BY <1>2, <1>3
  <2> QED BY <2>2, <2>3 DEF ExactRead, Marked
<1>5. ASSUME NEW i \in 1 .. k
      PROVE  /\ from + i \in Held(s) /\ EntryAt(s, from + i) \in Value
             /\ MarkedEntry(s, from + i) = Decided(EntryAt(s, from + i))
  <2>1. /\ from + i - c \in 1 .. n /\ from + i > c /\ from + i <= d /\ from + i \in c + 1 .. c + n
    <3>1. c <= from /\ d <= c + n /\ k = d - from
      BY <1>2, <1>3
    <3>2. i \in Nat /\ i >= 1 /\ i <= d - from
      BY <3>1
    <3> QED BY <3>1, <3>2
  <2>2. EntryAt(s, from + i) = s.log[from + i - c]
    BY <1>2, <2>1 DEF EntryAt, LogWithStopSign
  <2>3. EntryAt(s, from + i) \in Value
    BY <1>1, <1>2, <2>1, <2>2, ElementOfSeq
  <2>4. from + i \in Held(s)
    BY <1>2, <2>1 DEF Held, LogWithStopSign
  <2>5. MarkedEntry(s, from + i) = Decided(EntryAt(s, from + i))
    BY <1>2, <2>1, <2>3 DEF MarkedEntry
  <2> QED BY <2>3, <2>4, <2>5
<1> DEFINE suffix == Marked(s, from, k)
           one == << EntryAt(s, from + 1) >>
           rest == [i \in 1 .. k - 1 |-> EntryAt(s, from + (i + 1))]
<1>6. /\ Len(suffix) = k
      /\ \A i \in 1 .. k : suffix[i] = Decided(EntryAt(s, from + i))
  BY <1>5, <1>3 DEF Marked
<1>7. read_decided_suffix(s, from) = suffix
  BY <1>2, <1>4 DEF read_decided_suffix
<1> HIDE DEF suffix
<1>8. DecidedEntries(s, from) = one \o rest
  <2>1. suffix[1] = Decided(EntryAt(s, from + 1))
    BY <1>3, <1>6
  <2>2. suffix[1].kind # "Snapshotted" /\ DecidedEntry(suffix[1]) = EntryAt(s, from + 1)
    BY <2>1 DEF Decided, DecidedEntry
  <2>3. ASSUME NEW i \in 1 .. k - 1
        PROVE  DecidedEntry(suffix[i + 1]) = EntryAt(s, from + (i + 1))
    <3>1. i + 1 \in 1 .. k
      BY <1>3
    <3>2. suffix[i + 1] = Decided(EntryAt(s, from + (i + 1)))
      BY <1>6, <3>1
    <3> QED BY <3>2 DEF Decided, DecidedEntry
  <2>4. [i \in 1 .. Len(suffix) - 1 |-> DecidedEntry(suffix[i + 1])] = rest
    BY <1>6, <2>3
  <2> HIDE DEF rest
  <2> QED BY <1>7, <2>2, <2>4 DEF DecidedEntries
<1>9. one \in Seq(Value) /\ Len(one) = 1 /\ one[1] = EntryAt(s, from + 1)
  <2>1. EntryAt(s, from + 1) \in Value
    BY <1>3, <1>5
  <2> QED BY <2>1
<1>10. /\ rest \in Seq(Value) /\ Len(rest) = k - 1
       /\ \A i \in 1 .. k - 1 : rest[i] = EntryAt(s, from + (i + 1))
  <2>1. \A i \in 1 .. k - 1 : EntryAt(s, from + (i + 1)) \in Value
    <3> SUFFICES ASSUME NEW i \in 1 .. k - 1 PROVE EntryAt(s, from + (i + 1)) \in Value
      OBVIOUS
    <3>1. i + 1 \in 1 .. k
      BY <1>3
    <3> QED BY <1>5, <3>1
  <2> QED BY <1>3, <2>1
<1> HIDE DEF one, rest
<1>11. /\ Len(one \o rest) = k
       /\ \A i \in 1 .. k : (one \o rest)[i] = EntryAt(s, from + i)
  <2>1. /\ Len(one \o rest) = Len(one) + Len(rest)
        /\ \A i \in 1 .. Len(one) + Len(rest) : (one \o rest)[i] =
             IF i <= Len(one) THEN one[i] ELSE rest[i - Len(one)]
    BY <1>9, <1>10, ConcatProperties
  <2>2. Len(one) + Len(rest) = k
    BY <1>3, <1>9, <1>10
  <2>3. ASSUME NEW i \in 1 .. k PROVE (one \o rest)[i] = EntryAt(s, from + i)
    <3>1. CASE i = 1
      BY <1>9, <2>1, <2>2, <3>1
    <3>2. CASE i > 1
      <4>1. i - 1 \in 1 .. k - 1 /\ ~ (i <= 1) /\ (i - 1) + 1 = i
        BY <1>3, <3>2
      <4> QED BY <1>9, <1>10, <2>1, <2>2, <4>1
    <3>3. i = 1 \/ i > 1
      OBVIOUS
    <3> QED BY <3>1, <3>2, <3>3
  <2> QED BY <2>1, <2>2, <2>3
<1>12. ASSUME NEW i \in 1 .. k PROVE EntryAt(s, from + i) # None
  BY <1>5, StorageAssumption
<1>13. s.decided_idx - from = k
  BY <1>2, <1>3
<1> QED BY <1>5, <1>8, <1>11, <1>12, <1>13

\* Two users who read the decided entries from an index on, at whatever server
\* and time, read the same entries and miss none.
THEOREM ReadersTheorem == Plain /\ Spec => []ReadersAgree
<1>1. ASSUME Inv, NEW h, Explains(h), NEW p \in Server
      PROVE  /\ WellFormed(storage[p]) /\ storage[p].stopsign = None /\ storage[p].snapshot = None
             /\ StopSign = {} /\ storage[p].decided_idx \in Nat /\ storage[p].compacted_idx \in Nat
             /\ Len(storage[p].log) \in Nat
  <2>1. PICK s : s = storage[p]
    OBVIOUS
  <2>2. s \in Storage /\ LogOK(h, p, s) /\ Plain
    BY <1>1, <2>1 DEF Explains, LogInv, Inv, TypeOK
  <2>3. s.compacted_idx \in Nat /\ Len(s.log) \in Nat /\ s.decided_idx \in Nat
    BY <2>2, LenProperties DEF Storage, Entries
  <2>4. WellFormed(s)
    BY <2>2, <2>3 DEF WellFormed, LogOK
  <2> QED BY <2>1, <2>2, <2>3, <2>4 DEF LogOK, Plain
<1>2. Inv /\ Explained => ReadersAgree
  <2> SUFFICES ASSUME Inv, NEW h, Explains(h), NEW p \in Server, NEW q \in Server,
                      NEW from \in 0 .. minimum(storage[p].decided_idx, storage[q].decided_idx) - 1,
                      from + 1 \in Held(storage[p]) \cap Held(storage[q])
               PROVE  /\ Len(DecidedEntries(storage[p], from)) = storage[p].decided_idx - from
                      /\ \A i \in 1 .. minimum(Len(DecidedEntries(storage[p], from)),
                                               Len(DecidedEntries(storage[q], from))) :
                           /\ DecidedEntries(storage[p], from)[i] = DecidedEntries(storage[q], from)[i]
                           /\ DecidedEntries(storage[p], from)[i] # None
    BY DEF Explained, ReadersAgree
  <2>1. PICK s, t : s = storage[p] /\ t = storage[q]
    OBVIOUS
  <2>2. /\ WellFormed(s) /\ s.stopsign = None /\ s.snapshot = None /\ StopSign = {}
        /\ s.decided_idx \in Nat /\ s.compacted_idx \in Nat /\ Len(s.log) \in Nat
        /\ WellFormed(t) /\ t.stopsign = None /\ t.snapshot = None
        /\ t.decided_idx \in Nat /\ t.compacted_idx \in Nat /\ Len(t.log) \in Nat
    BY <1>1, <2>1
  <2>3. PICK d, e : d = s.decided_idx /\ e = t.decided_idx
    OBVIOUS
  <2>4. from \in Nat /\ from < d /\ from < e /\ d \in Nat /\ e \in Nat
    BY <2>1, <2>2, <2>3 DEF minimum
  <2>5. s.compacted_idx <= from /\ t.compacted_idx <= from
    <3>1. from + 1 \in s.compacted_idx + 1 .. s.compacted_idx + Len(s.log)
      BY <2>1, <2>2 DEF Held, LogWithStopSign
    <3>2. from + 1 \in t.compacted_idx + 1 .. t.compacted_idx + Len(t.log)
      BY <2>1, <2>2 DEF Held, LogWithStopSign
    <3> QED BY <2>2, <2>4, <3>1, <3>2
  <2>6. PICK mine, theirs : mine = DecidedEntries(s, from) /\ theirs = DecidedEntries(t, from)
    OBVIOUS
  <2>7. /\ Len(mine) = d - from
        /\ \A i \in 1 .. d - from : from + i \in Held(s) /\ mine[i] = EntryAt(s, from + i) /\ mine[i] # None
    BY <2>2, <2>3, <2>4, <2>5, <2>6, DecidedReads
  <2>8. /\ Len(theirs) = e - from
        /\ \A i \in 1 .. e - from : from + i \in Held(t) /\ theirs[i] = EntryAt(t, from + i)
    BY <2>2, <2>3, <2>4, <2>5, <2>6, DecidedReads
  <2>9. ASSUME NEW i \in 1 .. minimum(d - from, e - from)
        PROVE  mine[i] = theirs[i] /\ mine[i] # None
    <3>1. i \in 1 .. d - from /\ i \in 1 .. e - from /\ from + i \in 1 .. minimum(d, e)
      BY <2>4 DEF minimum
    <3>2. SameEntry(s, t, from + i)
      BY <2>1, <2>3, <3>1, AgreementHolds DEF Explained, Agreement
    <3>3. EntryAt(s, from + i) = EntryAt(t, from + i)
      BY <2>7, <2>8, <3>1, <3>2 DEF SameEntry
    <3> QED BY <2>7, <2>8, <3>1, <3>3
  <2> QED BY <2>1, <2>3, <2>6, <2>7, <2>8, <2>9
<1> QED BY <1>2, Invariance, HistoryInvariance, PTL
==============================================================================
