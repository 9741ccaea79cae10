---------------------------- MODULE HistoryProofs ----------------------------
(***************************************************************************)
(* Why the servers of SequencePaxos agree on their logs, first part: the   *)
(* invariant, what every step of a server keeps of it, and for every       *)
(* action of a leader the history that explains the state it leads to.     *)
(*                                                                         *)
(* The state does not tell what a server accepted in rounds it has left,   *)
(* nor the log of a leader that is gone.  The invariant therefore says     *)
(* that there is a history of the rounds, with the log of every round and  *)
(* how far every server accepted it, that explains the state.              *)
(***************************************************************************)
EXTENDS SequencePaxosProofs, FiniteSetTheorems

\* a and b have the same first k entries.
Agree(a, b, k) ==
  /\ k <= Len(a) /\ k <= Len(b)
  /\ \A i \in 1 .. k : a[i] = b[i]

\* b is the part of a behind its first k entries, or the beginning of it.
Segment(a, k, b) ==
  /\ k + Len(b) <= Len(a)
  /\ \A i \in 1 .. Len(b) : a[k + i] = b[i]

\* b is a, or longer.
Extends(a, b) == Agree(a, b, Len(a))

\* Agreement of logs is symmetric.
LEMMA AgreeSymmetric ==
  ASSUME NEW a, NEW b, NEW k, Agree(a, b, k)
  PROVE  Agree(b, a, k)
BY DEF Agree

\* Agreement is transitive.
LEMMA AgreeTransitive ==
  ASSUME NEW a, NEW b, NEW c, NEW k, Agree(a, b, k), Agree(b, c, k)
  PROVE  Agree(a, c, k)
BY DEF Agree

\* Logs that agree agree on every shorter prefix.
LEMMA AgreeShorter ==
  ASSUME NEW a \in Entries, NEW b \in Entries, NEW k \in Nat, NEW j \in Nat, j <= k, Agree(a, b, k)
  PROVE  Agree(a, b, j)
BY LenProperties DEF Agree, Entries

\* A log agrees with itself.
LEMMA AgreeSelf ==
  ASSUME NEW a \in Entries, NEW k \in Nat, k <= Len(a)
  PROVE  Agree(a, a, k)
BY DEF Agree

\* A log extends itself.
LEMMA ExtendsSelf ==
  ASSUME NEW a \in Entries
  PROVE  Extends(a, a)
BY LenProperties DEF Agree, Extends, Entries

\* What agrees with a log agrees with its extensions.
LEMMA AgreeExtends ==
  ASSUME NEW a \in Entries, NEW b \in Entries, NEW c \in Entries, NEW d \in Entries, NEW k \in Nat,
         Agree(a, b, k), Extends(a, c), Extends(b, d)
  PROVE  Agree(c, d, k)
<1>1. Len(a) \in Nat /\ Len(b) \in Nat /\ Len(c) \in Nat /\ Len(d) \in Nat
  BY LenProperties DEF Entries
<1>2. \A i \in 1 .. k : a[i] = c[i] /\ b[i] = d[i] /\ a[i] = b[i]
  BY <1>1 DEF Agree, Extends
<1> QED BY <1>1, <1>2 DEF Agree, Extends

\* A segment of a log is one of its extensions.
LEMMA SegmentExtends ==
  ASSUME NEW a \in Entries, NEW b \in Entries, NEW c \in Entries, NEW k \in Nat,
         Segment(a, k, b), Extends(a, c)
  PROVE  Segment(c, k, b)
<1>1. Len(a) \in Nat /\ Len(b) \in Nat /\ Len(c) \in Nat
  BY LenProperties DEF Entries
<1>2. \A i \in 1 .. Len(b) : k + i \in 1 .. Len(a)
  BY <1>1 DEF Segment
<1> QED BY <1>1, <1>2 DEF Segment, Extends, Agree

\* An extension is no shorter.
LEMMA ExtendsLonger ==
  ASSUME NEW a \in Entries, NEW b \in Entries, Extends(a, b)
  PROVE  Len(a) \in Nat /\ Len(b) \in Nat /\ Len(a) <= Len(b)
BY LenProperties DEF Extends, Agree, Entries

\* Appending extends a log.
LEMMA AppendExtends ==
  ASSUME NEW a \in Entries, NEW b \in Entries
  PROVE  /\ a \o b \in Entries /\ Len(a \o b) = Len(a) + Len(b)
         /\ Extends(a, a \o b)
         /\ Segment(a \o b, Len(a), b)
<1>1. /\ a \o b \in Seq(Value) /\ Len(a \o b) = Len(a) + Len(b)
      /\ \A i \in 1 .. Len(a) + Len(b) : (a \o b)[i] = IF i <= Len(a) THEN a[i] ELSE b[i - Len(a)]
  BY ConcatProperties DEF Entries
<1>2. Len(a) \in Nat /\ Len(b) \in Nat
  BY LenProperties DEF Entries
<1>3. Extends(a, a \o b)
  BY <1>1, <1>2 DEF Extends, Agree
<1>4. \A i \in 1 .. Len(b) : (a \o b)[Len(a) + i] = b[i]
  <2> TAKE i \in 1 .. Len(b)
  <2>1. Len(a) + i \in 1 .. Len(a) + Len(b) /\ ~ (Len(a) + i <= Len(a)) /\ Len(a) + i - Len(a) = i
    BY <1>2
  <2> QED BY <1>1, <2>1
<1> QED BY <1>1, <1>2, <1>3, <1>4 DEF Segment, Entries

\* Two segments, one after the other.
LEMMA SegmentConcat ==
  ASSUME NEW a \in Entries, NEW k \in Nat, NEW b \in Entries, NEW c \in Entries,
         Segment(a, k, b), Segment(a, k + Len(b), c)
  PROVE  b \o c \in Entries /\ Len(b \o c) = Len(b) + Len(c) /\ Segment(a, k, b \o c)
<1>1. /\ b \o c \in Seq(Value) /\ Len(b \o c) = Len(b) + Len(c)
      /\ \A i \in 1 .. Len(b) + Len(c) : (b \o c)[i] = IF i <= Len(b) THEN b[i] ELSE c[i - Len(b)]
  BY ConcatProperties DEF Entries
<1>2. Len(a) \in Nat /\ Len(b) \in Nat /\ Len(c) \in Nat
  BY LenProperties DEF Entries
<1>3. \A i \in 1 .. Len(b) + Len(c) : a[k + i] = (b \o c)[i]
  <2> TAKE i \in 1 .. Len(b) + Len(c)
  <2>1. CASE i <= Len(b)
    BY <2>1, <1>1, <1>2 DEF Segment
  <2>2. CASE ~ (i <= Len(b))
    <3>1. i - Len(b) \in 1 .. Len(c) /\ k + Len(b) + (i - Len(b)) = k + i
      BY <2>2, <1>2
    <3> QED BY <3>1, <2>2, <1>1 DEF Segment
  <2> QED BY <2>1, <2>2
<1> QED BY <1>1, <1>2, <1>3 DEF Segment, Entries

\* Compaction leaves the rest of a segment, and a suffix of the log is one.
LEMMA SegmentDrain ==
  ASSUME NEW a \in Entries, NEW k \in Nat, NEW b \in Entries, NEW j \in Nat, j <= Len(b),
         Segment(a, k, b)
  PROVE  drain(b, j) \in Entries /\ Len(drain(b, j)) = Len(b) - j /\ Segment(a, k + j, drain(b, j))
<1>1. Len(a) \in Nat /\ Len(b) \in Nat
  BY LenProperties DEF Entries
<1>2. drain(b, j) = SubSeq(b, j + 1, Len(b))
  BY <1>1 DEF drain, minimum
<1>3. /\ SubSeq(b, j + 1, Len(b)) \in Seq(Value)
      /\ Len(SubSeq(b, j + 1, Len(b))) = Len(b) - j
      /\ \A i \in 1 .. Len(b) - j : SubSeq(b, j + 1, Len(b))[i] = b[j + i]
  <2>1. \A i \in j + 1 .. Len(b) : b[i] \in Value
    BY <1>1, ElementOfSeq DEF Entries
  <2>2. /\ SubSeq(b, j + 1, Len(b)) \in Seq(Value)
        /\ Len(SubSeq(b, j + 1, Len(b))) = IF j + 1 <= Len(b) THEN Len(b) - (j + 1) + 1 ELSE 0
        /\ \A i \in 1 .. Len(b) - (j + 1) + 1 : SubSeq(b, j + 1, Len(b))[i] = b[j + 1 + i - 1]
    BY <1>1, <2>1, SubSeqProperties
  <2> QED BY <1>1, <2>2
<1>4. \A i \in 1 .. Len(b) - j : a[k + j + i] = b[j + i]
  <2> TAKE i \in 1 .. Len(b) - j
  <2>1. j + i \in 1 .. Len(b) /\ k + (j + i) = k + j + i
    BY <1>1
  <2> QED BY <2>1 DEF Segment
<1> HIDE DEF Entries
<1> QED BY <1>1, <1>2, <1>3, <1>4 DEF Segment, Entries

\* sync_log: a segment of a is cut where a and b part, and goes on as b does.
LEMMA SegmentSync ==
  ASSUME NEW a \in Entries, NEW b \in Entries, NEW k \in Nat, NEW log \in Entries, Segment(a, k, log),
         NEW idx \in Nat, k <= idx, idx <= k + Len(log), Agree(a, b, idx),
         NEW suffix \in Entries, Segment(b, idx, suffix)
  PROVE  LET new == truncate(log, idx - k) \o suffix
         IN  new \in Entries /\ k + Len(new) = idx + Len(suffix) /\ Segment(b, k, new)
<1> DEFINE t == truncate(log, idx - k)
<1>1. Len(a) \in Nat /\ Len(b) \in Nat /\ Len(log) \in Nat
  BY LenProperties DEF Entries
<1>2. t = SubSeq(log, 1, idx - k)
  BY <1>1 DEF truncate, minimum
<1>3. /\ SubSeq(log, 1, idx - k) \in Seq(Value)
      /\ Len(SubSeq(log, 1, idx - k)) = idx - k
      /\ \A i \in 1 .. idx - k : SubSeq(log, 1, idx - k)[i] = log[i]
  <2>1. \A i \in 1 .. idx - k : log[i] \in Value
    BY <1>1, ElementOfSeq DEF Entries
  <2>2. /\ SubSeq(log, 1, idx - k) \in Seq(Value)
        /\ Len(SubSeq(log, 1, idx - k)) = IF 1 <= idx - k THEN idx - k - 1 + 1 ELSE 0
        /\ \A i \in 1 .. idx - k - 1 + 1 : SubSeq(log, 1, idx - k)[i] = log[1 + i - 1]
    BY <1>1, <2>1, SubSeqProperties
  <2> QED BY <1>1, <2>2
<1>4. t \in Entries /\ Len(t) = idx - k /\ \A i \in 1 .. idx - k : t[i] = log[i]
  BY <1>2, <1>3 DEF Entries
<1> HIDE DEF t
<1>5. \A i \in 1 .. Len(t) : b[k + i] = t[i]
  <2> TAKE i \in 1 .. Len(t)
  <2>1. i \in 1 .. idx - k /\ i \in 1 .. Len(log) /\ k + i \in 1 .. idx
    BY <1>1, <1>4
  <2> QED BY <2>1, <1>4 DEF Segment, Agree
<1>6. Segment(b, k, t) /\ k + Len(t) = idx
  BY <1>1, <1>4, <1>5 DEF Segment, Agree
<1>7. t \o suffix \in Entries /\ Len(t \o suffix) = Len(t) + Len(suffix) /\ Segment(b, k, t \o suffix)
  BY <1>4, <1>6, SegmentConcat
<1>8. Len(suffix) \in Nat
  BY LenProperties DEF Entries
<1> QED BY <1>4, <1>6, <1>7, <1>8 DEF t

------------------------------------------------------------------------------
(* The history of the rounds *)

\* rlog[n] is the log of round n as far as its leader had it, and acc[q][n] how
\* much of it q accepted.  est has the rounds whose leader left the Prepare
\* phase, with base[n] entries in its log.  The accept message of round n to q
\* that has the sequence number sn goes on behind index start[n][q][sn].
History ==
  [rlog : [Ballot -> Entries], acc : [Server -> [Ballot -> Nat]], base : [Ballot -> Nat],
   est : SUBSET Ballot, start : [Ballot -> [Server -> [SequenceNumber -> Nat]]]]

\* What the theorem is about: the user takes the messages after every call,
\* there are neither snapshots nor stop signs, and entries are not coded.
Plain == EagerTake = TRUE /\ UseSnapshots = FALSE /\ StopSign = {} /\ ~ Coded

\* A write quorum accepted the first i entries of round r.
Voters(h, r, i) == {q \in Server : h.acc[q][r] >= i}
Chosen(h, r, i) == Cardinality(Voters(h, r, i)) >= WriteQuorum

\* It may still come to that.
MayVote(h, r, i) == {q \in Server : h.acc[q][r] >= i \/ storage[q].promise \preceq r}
Choosable(h, r, i) == Cardinality(MayVote(h, r, i)) >= WriteQuorum

\* The first d entries were chosen in round r or before.
DecidedIn(h, r, d) == d = 0 \/ \E r0 \in Ballot : r0 \preceq r /\ Chosen(h, r0, d)

\* Every server accepted the first i entries of some round.
HeldByAll(h, i) == i = 0 \/ \E r \in Ballot : \A q \in Server : h.acc[q][r] >= i

Joined(r) == {q \in Server : r \preceq storage[q].promise}

\* A round that was established has a read quorum of promises behind it.
RoundOK(h, r) ==
  /\ r.pid \in Server
  /\ r \preceq storage[r.pid].promise
  /\ Cardinality(Joined(r)) >= ReadQuorum
  /\ h.base[r] <= Len(h.rlog[r])

Unused(h, r) == h.rlog[r] = << >> /\ \A q \in Server : h.acc[q][r] = 0

RoundInv(h) ==
  \A r \in Ballot : /\ r \in h.est => RoundOK(h, r)
                    /\ r \notin h.est => Unused(h, r)

VoteInv(h) ==
  \A q \in Server, r \in Ballot :
    /\ h.acc[q][r] <= Len(h.rlog[r])
    /\ storage[q].accepted_round \prec r => h.acc[q][r] = 0

\* The heart of the matter: a later round began with all that was, or may yet
\* be, chosen in an earlier one.
ChoiceInv(h) ==
  \A r \in Ballot, n \in h.est, i \in Nat \ {0} :
    r \prec n /\ Choosable(h, r, i) =>
      /\ i <= h.base[n]
      /\ Agree(h.rlog[r], h.rlog[n], i)

\* The log of p is the beginning of the log of the round it accepted in.
LogOK(h, p, s) ==
  /\ s.snapshot = None /\ s.stopsign = None
  /\ s.accepted_idx = s.compacted_idx + Len(s.log)
  /\ Segment(h.rlog[s.accepted_round], s.compacted_idx, s.log)
  /\ s.accepted_round \in h.est \cup {DefaultBallot}
  /\ s.accepted_round \in h.est => h.base[s.accepted_round] <= s.accepted_idx
  /\ h.acc[p][s.accepted_round] = s.accepted_idx
  /\ s.decided_idx <= s.accepted_idx
  /\ DecidedIn(h, s.accepted_round, s.decided_idx)
  /\ HeldByAll(h, s.compacted_idx)

\* A leader batches what is not yet in the log of its round, a follower what is.
BatchOK(h, p, s) ==
  /\ s.batched_entries # << >> => s.promise = s.accepted_round
  /\ s.accepted_round.pid = p => Len(h.rlog[s.accepted_round]) = s.accepted_idx
  /\ s.accepted_round.pid # p => Segment(h.rlog[s.accepted_round], s.accepted_idx, s.batched_entries)

LogInv(h) == \A p \in Server : LogOK(h, p, storage[p]) /\ BatchOK(h, p, storage[p])

------------------------------------------------------------------------------
(* Promises *)

Meta(s) ==
  [n_accepted |-> s.accepted_round, accepted_idx |-> s.accepted_idx, decided_idx |-> s.decided_idx]

\* The metadata says what q had accepted before it joined round n, or an index
\* that it has accepted in n.
MetaOK(h, q, n, meta) ==
  /\ n \preceq storage[q].promise
  /\ meta.n_accepted \preceq n
  /\ meta.n_accepted \prec n =>
       /\ h.acc[q][meta.n_accepted] = meta.accepted_idx
       /\ \A r \in Ballot : meta.n_accepted \prec r /\ r \prec n => h.acc[q][r] = 0
  /\ meta.n_accepted \in h.est \cup {DefaultBallot}
  /\ meta.n_accepted \in h.est => h.base[meta.n_accepted] <= meta.accepted_idx
  /\ meta.n_accepted = n => meta.accepted_idx <= h.acc[q][n]
  /\ meta.decided_idx <= meta.accepted_idx
  /\ DecidedIn(h, meta.n_accepted, meta.decided_idx)
  /\ storage[q].promise = n => storage[q].accepted_round \in {meta.n_accepted, n}

\* With sync, a leader whose storage is s gets the log that the metadata tells of.
AdoptOK(h, s, meta, sync) ==
  /\ greater_meta(meta, Meta(s))
  /\ sync.decided_snapshot.kind = "None"
  /\ sync.sync_idx + Len(sync.suffix) = meta.accepted_idx
  /\ sync.sync_idx <= s.accepted_idx
  /\ Agree(h.rlog[s.accepted_round], h.rlog[meta.n_accepted], sync.sync_idx)
  /\ Segment(h.rlog[meta.n_accepted], sync.sync_idx, sync.suffix)

\* p leads round n, or is in its Prepare phase.
Leads(p, n) == p \notin panicked /\ state[p][1] = "Leader" /\ storage[p].promise = n
Prepares(p, n) == p \notin panicked /\ state[p] = << "Leader", "Prepare" >> /\ storage[p].promise = n

PromiseOK(h, x, y, m) ==
  /\ m.n.pid = y
  /\ m.n \preceq storage[y].promise
  /\ MetaOK(h, x, m.n, PromiseMeta(m))
  /\ Prepares(y, m.n) =>
       /\ m.log_sync = None => ~ greater_meta(PromiseMeta(m), Meta(storage[y]))
       /\ m.log_sync # None => AdoptOK(h, storage[y], PromiseMeta(m), m.log_sync)

\* The promise that p keeps to send it again.
KeptPromiseOK(h, p) ==
  LET m == follower_state[p].cached_promise_message
  IN  m # None => m.n.pid \in Server /\ PromiseOK(h, p, m.n.pid, m)

KeptPromiseInv(h) == \A p \in Server : KeptPromiseOK(h, p)

------------------------------------------------------------------------------
(* Leaders and followers *)

\* What the leader counts.
CountsOK(h, l) ==
  \A q \in Slots :
    /\ l.latest_accept_meta[q] = 0
    /\ l.accepted_indexes[q] > 0 => q \in Server /\ l.accepted_indexes[q] <= h.acc[q][l.n_leader]
    /\ is_promised(l, q) => q \in Server /\ MetaOK(h, q, l.n_leader, l.promises_meta[q].meta)

CountsInv(h) == \A p \in Server : CountsOK(h, leader_state[p])

\* max_promise_meta, and max_promise_sync if it is not the leader's own log.
MaxOK(h, s, l) ==
  LET max == l.max_promise_meta
  IN  /\ l.max_promise_sync = None =>
           max.n_accepted = s.accepted_round /\ max.accepted_idx = s.accepted_idx
      /\ l.max_promise_sync # None => AdoptOK(h, s, max, l.max_promise_sync)
      /\ max.n_accepted \in h.est \cup {DefaultBallot}
      /\ max.n_accepted \prec l.n_leader
      /\ max.accepted_idx <= Len(h.rlog[max.n_accepted])
      /\ max.n_accepted \in h.est => h.base[max.n_accepted] <= max.accepted_idx
      /\ \A q \in Slots : is_promised(l, q) => ~ greater_meta(l.promises_meta[q].meta, max)

PrepareOK(h, p, s, l) ==
  /\ l.n_leader = s.promise /\ s.promise.pid = p
  /\ s.promise \notin h.est
  /\ s.batched_entries = << >>
  /\ is_promised(l, p) /\ l.promises_meta[p].meta = Meta(s)
  /\ MaxOK(h, s, l)

\* The round that p led or leads.
LeaderOK(h, p, s, l) ==
  l.n_leader \in h.est /\ s.accepted_round = l.n_leader /\ l.n_leader.pid = p

AcceptOK(h, p, s, l) ==
  LET max == l.max_promise_meta
      n == l.n_leader
  IN  /\ n = s.promise
      /\ max.n_accepted \prec n
      /\ max.accepted_idx <= h.base[n]
      /\ Agree(h.rlog[max.n_accepted], h.rlog[n], max.accepted_idx)
      /\ \A q \in Peers(p) : is_promised(l, q) =>
           h.start[n][q][next_seq_num(l.follower_seq_nums[q])] = s.accepted_idx

LeadingOK(h, p) ==
  /\ state[p][1] = "Leader" => state[p] = << "Leader", "Prepare" >> \/ state[p] = << "Leader", "Accept" >>
  /\ state[p] = << "Leader", "Accept" >> => LeaderOK(h, p, storage[p], leader_state[p])
  /\ p \notin panicked /\ state[p] = << "Leader", "Prepare" >> =>
       PrepareOK(h, p, storage[p], leader_state[p])
  /\ p \notin panicked /\ state[p] = << "Leader", "Accept" >> =>
       AcceptOK(h, p, storage[p], leader_state[p])

LeaderInv(h) == \A p \in Server : LeadingOK(h, p)

FollowsOK(h, p, s, f) ==
  /\ s.accepted_round = s.promise /\ s.promise.pid # p
  /\ h.start[s.promise][p][next_seq_num(f.current_seq_num)] = s.accepted_idx + Len(s.batched_entries)

\* No accept message is ahead of what the leader has sent.
Sent(x, n, y, sn) == Leads(x, n) => seq_num_leq(sn, leader_state[x].follower_seq_nums[y])

FollowingOK(h, p) ==
  /\ follower_state[p].latest_accepted_meta.idx = 0
  /\ p \notin panicked /\ state[p] = << "Follower", "Prepare" >> =>
       storage[p].batched_entries = << >>
  /\ p \notin panicked /\ state[p] = << "Follower", "Accept" >> =>
       /\ FollowsOK(h, p, storage[p], follower_state[p])
       /\ Sent(storage[p].promise.pid, storage[p].promise, p, follower_state[p].current_seq_num)

FollowerInv(h) == \A p \in Server : FollowingOK(h, p)

------------------------------------------------------------------------------
(* Messages of x to y *)

\* The length of the log that the message brings.
End(h, y, m) == h.start[m.n][y][next_seq_num(m.seq_num)]

PrepareMsgOK(x, m) ==
  /\ m.n.pid = x
  /\ m.n \preceq storage[x].promise
  /\ Prepares(x, m.n) =>
       /\ m.n_accepted = storage[x].accepted_round
       /\ m.accepted_idx = storage[x].accepted_idx
       /\ m.decided_idx = storage[x].decided_idx

AcceptMsgOK(h, x, y, m) ==
  /\ m.n.pid = x
  /\ m.n \in h.est
  /\ Sent(x, m.n, y, m.seq_num)
  /\ End(h, y, m) <= Len(h.rlog[m.n])
  /\ DecidedIn(h, m.n, m.decided_idx)

\* The log of y may be cut at sync_idx and go on with the suffix.
TargetOK(h, s, m) ==
  /\ m.log_sync.sync_idx <= s.accepted_idx
  /\ s.accepted_round = m.n =>
       s.accepted_idx + Len(s.batched_entries) <= m.log_sync.sync_idx + Len(m.log_sync.suffix)
  /\ s.accepted_round # m.n => Agree(h.rlog[s.accepted_round], h.rlog[m.n], m.log_sync.sync_idx)

SyncMsgOK(h, y, m) ==
  LET sync == m.log_sync
  IN  /\ sync.decided_snapshot.kind = "None"
      /\ End(h, y, m) = sync.sync_idx + Len(sync.suffix)
      /\ h.base[m.n] <= End(h, y, m)
      /\ m.decided_idx <= End(h, y, m)
      /\ Segment(h.rlog[m.n], sync.sync_idx, sync.suffix)

DecideMsgOK(h, y, m) ==
  /\ Segment(h.rlog[m.n], h.start[m.n][y][m.seq_num], m.entries)
  /\ End(h, y, m) = h.start[m.n][y][m.seq_num] + Len(m.entries)

MsgOK(h, x, y, m) ==
  /\ m.type = "Prepare" => PrepareMsgOK(x, m)
  /\ m.type = "Promise" => PromiseOK(h, x, y, m)
  /\ m.type \in AcceptTypes => AcceptMsgOK(h, x, y, m)
  /\ m.type = "AcceptSync" => SyncMsgOK(h, y, m)
  /\ m.type = "AcceptDecide" => DecideMsgOK(h, y, m)
  /\ m.type = "Decide" => End(h, y, m) = h.start[m.n][y][m.seq_num]
  /\ m.type = "Accepted" => m.accepted_idx <= h.acc[x][m.n]
  /\ m.type = "Compaction" => m.kind = "Trim" /\ HeldByAll(h, m.idx)

\* An AcceptSync that comes after another accept message brings no less.
OrderOK(h, y, a, b) ==
  a.type \in AcceptTypes /\ b.type = "AcceptSync" /\ a.n = b.n /\ storage[y].promise = b.n =>
    /\ End(h, y, a) <= End(h, y, b)
    /\ a.type = "AcceptSync" => b.log_sync.sync_idx <= End(h, y, a)

SyncTargetOK(h, y, m) ==
  m.type = "AcceptSync" /\ m.n = storage[y].promise => TargetOK(h, storage[y], m)

MessageInv(h) ==
  \A x \in Server : \A y \in Peers(x) : \A i \in 1 .. Len(net[x][y]) :
    MsgOK(h, x, y, net[x][y][i]) /\ SyncTargetOK(h, y, net[x][y][i])

OrderInv(h) ==
  \A x \in Server : \A y \in Peers(x) : \A i, j \in 1 .. Len(net[x][y]) :
    i < j => OrderOK(h, y, net[x][y][i], net[x][y][j])

\* The history h explains the state.
Explains(h) ==
  /\ h \in History
  /\ Plain
  /\ outgoing = [p \in Server |-> NoMessages]
  /\ RoundInv(h) /\ VoteInv(h) /\ ChoiceInv(h)
  /\ LogInv(h)
  /\ KeptPromiseInv(h) /\ CountsInv(h) /\ LeaderInv(h) /\ FollowerInv(h)
  /\ MessageInv(h) /\ OrderInv(h)

\* The log of a round grows only while its leader accepts in that round.
Written(h, g, r) ==
  g.rlog[r] # h.rlog[r] =>
    /\ storage'[r.pid].accepted_round = r
    /\ r \in h.est => storage[r.pid].accepted_round = r

\* A new round begins with entries of an earlier one, and behind them comes what
\* its leader has buffered.
Begun(h, g, n) ==
  \E m \in Ballot, k \in Nat :
    /\ Agree(h.rlog[m], g.rlog[n], k)
    /\ Segment(g.rlog[n], k, buffered_proposals[n.pid])
    /\ Len(g.rlog[n]) = k + Len(buffered_proposals[n.pid])

\* g is the history h or goes on from there: no log of a round, and nothing that
\* a server accepted, is taken back.
Later(h, g) ==
  /\ \A r \in Ballot : Extends(h.rlog[r], g.rlog[r]) /\ Written(h, g, r)
  /\ \A q \in Server, r \in Ballot : h.acc[q][r] <= g.acc[q][r]
  /\ \A n \in g.est \ h.est : Begun(h, g, n)

\* The history goes on as g, which explains the state that the step leads to.
Succeeds(h, g) == Explains(g)' /\ Later(h, g)

------------------------------------------------------------------------------
(* Types, sequence numbers and quorums *)

\* The fields of a storage.
LEMMA StorageFields ==
  ASSUME NEW s \in Storage
  PROVE  /\ s.promise \in Ballot /\ s.accepted_round \in Ballot
         /\ s.decided_idx \in Nat /\ s.accepted_idx \in Nat /\ s.compacted_idx \in Nat
         /\ s.log \in Entries /\ s.batched_entries \in Entries
         /\ Len(s.log) \in Nat /\ Len(s.batched_entries) \in Nat
         /\ Meta(s) \in PromiseMetaData
<1>1. /\ s.promise \in Ballot /\ s.accepted_round \in Ballot
      /\ s.decided_idx \in Nat /\ s.accepted_idx \in Nat /\ s.compacted_idx \in Nat
      /\ s.log \in Entries /\ s.batched_entries \in Entries
  BY DEF Storage
<1>2. Len(s.log) \in Nat /\ Len(s.batched_entries) \in Nat
  BY <1>1, LenProperties DEF Entries
<1> QED BY <1>1, <1>2 DEF Meta, PromiseMetaData

\* The fields of the bookkeeping of a leader.
LEMMA LeaderFields ==
  ASSUME NEW l \in LeaderStates
  PROVE  /\ l.n_leader \in Ballot
         /\ l.max_promise_meta \in PromiseMetaData /\ l.max_promise_sync \in LogSync \cup {None}
         /\ \A q \in Slots : /\ l.promises_meta[q].meta \in PromiseMetaData
                             /\ l.follower_seq_nums[q] \in SequenceNumber
                             /\ next_seq_num(l.follower_seq_nums[q]) \in SequenceNumber
                             /\ l.accepted_indexes[q] \in Nat
BY SequenceNumberType DEF LeaderStates, PromiseState

\* The fields of a history.
LEMMA HistoryFields ==
  ASSUME NEW h \in History
  PROVE  /\ h.est \subseteq Ballot
         /\ \A r \in Ballot : h.rlog[r] \in Entries /\ Len(h.rlog[r]) \in Nat /\ h.base[r] \in Nat
         /\ \A q \in Server, r \in Ballot : h.acc[q][r] \in Nat
         /\ \A r \in Ballot, q \in Server, sn \in SequenceNumber : h.start[r][q][sn] \in Nat
<1>1. /\ h.rlog \in [Ballot -> Entries] /\ h.acc \in [Server -> [Ballot -> Nat]]
      /\ h.base \in [Ballot -> Nat] /\ h.est \in SUBSET Ballot
      /\ h.start \in [Ballot -> [Server -> [SequenceNumber -> Nat]]]
  BY DEF History
<1>2. \A r \in Ballot : h.rlog[r] \in Entries
  BY <1>1
<1>3. \A r \in Ballot : Len(h.rlog[r]) \in Nat
  BY <1>2, LenProperties DEF Entries
<1> QED BY <1>1, <1>2, <1>3

\* A history goes on from itself.
LEMMA LaterSelf ==
  ASSUME NEW h, h \in History
  PROVE  Later(h, h)
BY HistoryFields, ExtendsSelf DEF Later, Written

\* PartialOrd for SequenceNumber is transitive.
LEMMA SeqNumTransitive ==
  ASSUME NEW a \in SequenceNumber, NEW b \in SequenceNumber, NEW c \in SequenceNumber,
         seq_num_leq(a, b), seq_num_leq(b, c)
  PROVE  seq_num_leq(a, c)
BY DEF seq_num_leq, SequenceNumber

\* next_seq_num keeps the order and moves on.
LEMMA SeqNumNext ==
  ASSUME NEW a \in SequenceNumber, NEW b \in SequenceNumber, seq_num_leq(a, b)
  PROVE  /\ seq_num_leq(next_seq_num(a), next_seq_num(b))
         /\ seq_num_leq(a, next_seq_num(b))
         /\ ~ seq_num_leq(next_seq_num(b), a)
BY DEF seq_num_leq, SequenceNumber, next_seq_num

\* So does increment_seq_num_session.
LEMMA SeqNumSession ==
  ASSUME NEW a \in SequenceNumber
  PROVE  LET b == next_seq_num(increment_seq_num_session(a))
         IN  b \in SequenceNumber /\ seq_num_leq(a, b) /\ seq_num_leq(next_seq_num(a), b)
BY DEF seq_num_leq, SequenceNumber, next_seq_num, increment_seq_num_session

\* The order on sequence numbers is reflexive.
LEMMA SeqNumReflexive == \A a \in SequenceNumber : seq_num_leq(a, a)
BY DEF seq_num_leq, SequenceNumber

\* What contains a quorum is one.
LEMMA QuorumGrows ==
  ASSUME NEW A \in SUBSET Server, NEW B \in SUBSET A, NEW k \in Nat, Cardinality(B) >= k
  PROVE  Cardinality(A) >= k
<1>1. IsFiniteSet(A)
  BY ServerAssumption, FS_Subset
<1>2. Cardinality(B) <= Cardinality(A) /\ IsFiniteSet(B)
  BY <1>1, FS_Subset
<1>3. Cardinality(A) \in Nat /\ Cardinality(B) \in Nat
  BY <1>1, <1>2, FS_CardinalityType
<1> QED BY <1>2, <1>3

\* The quorum sizes are numbers.
LEMMA QuorumSizes == ReadQuorum \in Nat /\ WriteQuorum \in Nat /\ WriteQuorum > 0
<1>1. Cardinality(Server) \in Nat
  BY ServerAssumption, FS_CardinalityType
<1> QED BY <1>1, QuorumAssumption

\* A read quorum and a write quorum have a server in common.
LEMMA QuorumsIntersect ==
  ASSUME NEW A \in SUBSET Server, NEW B \in SUBSET Server,
         Cardinality(A) >= ReadQuorum, Cardinality(B) >= WriteQuorum
  PROVE  \E q \in A : q \in B
<1>1. IsFiniteSet(A) /\ IsFiniteSet(B)
  BY ServerAssumption, FS_Subset
<1>2. Cardinality(A \cup B) <= Cardinality(Server)
  BY ServerAssumption, FS_Subset
<1>3. Cardinality(A \cup B) = Cardinality(A) + Cardinality(B) - Cardinality(A \cap B)
  BY <1>1, FS_Union
<1>4. /\ Cardinality(A) \in Nat /\ Cardinality(B) \in Nat /\ Cardinality(Server) \in Nat
      /\ Cardinality(A \cap B) \in Nat
  <2>1. IsFiniteSet(A \cap B)
    BY <1>1, FS_Subset
  <2> QED BY <1>1, <2>1, ServerAssumption, FS_CardinalityType
<1>5. A \cap B # {}
  <2> SUFFICES ASSUME A \cap B = {} PROVE FALSE
    OBVIOUS
  <2>1. Cardinality(A \cap B) = 0
    BY FS_EmptySet
  <2> QED BY <2>1, <1>2, <1>3, <1>4, QuorumAssumption
<1> QED BY <1>5

------------------------------------------------------------------------------
(* A step of p, and how the history goes on *)

\* From h to g the history goes on with what p does in the round it promised.
Grows(p, h, g) ==
  LET n == storage[p].promise
  IN  /\ g \in History
      /\ h.est \subseteq g.est /\ g.est \subseteq h.est \cup {n}
      /\ \A r \in Ballot : r # n => g.rlog[r] = h.rlog[r] /\ g.start[r] = h.start[r]
      /\ \A r \in Ballot : r \in h.est \/ r # n => g.base[r] = h.base[r]
      /\ Extends(h.rlog[n], g.rlog[n])
      /\ \A q \in Server, r \in Ballot : q # p \/ r # n => g.acc[q][r] = h.acc[q][r]
      /\ h.acc[p][n] <= g.acc[p][n]
      /\ n \notin g.est => g.rlog[n] = h.rlog[n] /\ g.acc[p][n] = h.acc[p][n]
      /\ n.pid # p => g.rlog[n] = h.rlog[n] /\ g.est = h.est /\ g.start[n] = h.start[n]
      /\ \A q \in Server, sn \in SequenceNumber :
           g.start[n][q][sn] # h.start[n][q][sn] =>
             Leads(p, n) /\ ~ seq_num_leq(sn, next_seq_num(leader_state[p].follower_seq_nums[q]))

\* p accepts no more than its round has, and moves to the round it accepts in.
Accepts(p, h, g) ==
  LET n == storage[p].promise
  IN  /\ g.acc[p][n] <= Len(g.rlog[n])
      /\ g.acc[p][n] # h.acc[p][n] => storage'[p].accepted_round = n
      /\ n.pid = p => Written(h, g, n)

\* A round that is established begins with all that may have been chosen.
Founds(h, g) ==
  \A n \in g.est \ h.est :
    /\ Begun(h, g, n)
    /\ RoundOK(g, n)'
    /\ \A r \in Ballot, i \in Nat \ {0} :
         r \prec n /\ Choosable(h, r, i) => i <= g.base[n] /\ Agree(h.rlog[r], g.rlog[n], i)

\* q has no part in the step.
Same(q) ==
  /\ storage'[q] = storage[q] /\ state'[q] = state[q]
  /\ leader_state'[q] = leader_state[q] /\ follower_state'[q] = follower_state[q]
  /\ q \in panicked' <=> q \in panicked

\* What a step of p may do to the role of p.
Moves(p) ==
  /\ \A q \in Peers(p) : Same(q)
  /\ storage'[p].promise = storage[p].promise =>
       storage'[p].accepted_round \in {storage[p].accepted_round, storage[p].promise}
  /\ \A n \in Ballot : Leads(p, n)' =>
       \/ storage[p].promise \prec n
       \/ /\ Leads(p, n)
          /\ \A q \in Server : seq_num_leq(leader_state[p].follower_seq_nums[q],
                                           leader_state'[p].follower_seq_nums[q])
  /\ \A n \in Ballot : Prepares(p, n)' =>
       \/ storage[p].promise \prec n
       \/ Prepares(p, n) /\ Meta(storage'[p]) = Meta(storage[p])

\* What a growing history keeps.
LEMMA GrowsKeeps ==
  ASSUME TypeOK, NEW p \in Server, NEW h \in History, NEW g, Grows(p, h, g)
  PROVE  /\ g \in History
         /\ \A r \in Ballot : Extends(h.rlog[r], g.rlog[r])
         /\ \A q \in Server, r \in Ballot : h.acc[q][r] <= g.acc[q][r]
         /\ \A r \in h.est : r \in g.est /\ g.base[r] = h.base[r]
         /\ \A r \in h.est \cup {DefaultBallot} :
              r \in g.est \cup {DefaultBallot} /\ (r \in g.est => r \in h.est)
<1>1. storage[p].promise \in Ballot
  BY StorageFields DEF TypeOK
<1>2. \A r \in Ballot : h.rlog[r] \in Entries /\ g.rlog[r] \in Entries
  BY HistoryFields DEF Grows
<1>3. \A r \in Ballot : Extends(h.rlog[r], g.rlog[r])
  BY <1>1, <1>2, ExtendsSelf DEF Grows
<1>4. \A q \in Server, r \in Ballot : h.acc[q][r] <= g.acc[q][r]
  <2> TAKE q \in Server, r \in Ballot
  <2>1. h.acc[q][r] \in Nat
    BY HistoryFields
  <2>2. CASE q = p /\ r = storage[p].promise
    BY <2>2 DEF Grows
  <2>3. CASE ~ (q = p /\ r = storage[p].promise)
    BY <2>1, <2>3 DEF Grows
  <2> QED BY <2>2, <2>3
<1>5. DefaultBallot \in g.est => DefaultBallot \in h.est
  <2>1. DefaultBallot.pid # p
    BY ServerAssumption DEF DefaultBallot
  <2> QED BY <2>1 DEF Grows
<1>6. \A r \in h.est : r \in g.est /\ g.base[r] = h.base[r]
  BY HistoryFields DEF Grows
<1> QED BY <1>3, <1>4, <1>5, <1>6 DEF Grows

\* What was chosen stays chosen.
LEMMA ChosenGrows ==
  ASSUME TypeOK, NEW p \in Server, NEW h \in History, NEW g, Grows(p, h, g),
         NEW r \in Ballot, NEW d \in Nat, DecidedIn(h, r, d)
  PROVE  DecidedIn(g, r, d)
<1>1. ASSUME NEW r0 \in Ballot, Chosen(h, r0, d)
      PROVE  Chosen(g, r0, d)
  <2>1. Voters(h, r0, d) \subseteq Voters(g, r0, d)
    <3> SUFFICES ASSUME NEW q \in Server, h.acc[q][r0] >= d PROVE g.acc[q][r0] >= d
      BY DEF Voters
    <3>1. h.acc[q][r0] \in Nat /\ g.acc[q][r0] \in Nat /\ h.acc[q][r0] <= g.acc[q][r0]
      BY HistoryFields, GrowsKeeps DEF Grows
    <3> QED BY <3>1
  <2>2. Voters(g, r0, d) \subseteq Server
    BY DEF Voters
  <2> QED BY <2>1, <2>2, <1>1, QuorumGrows, QuorumSizes DEF Chosen
<1> QED BY <1>1 DEF DecidedIn

\* What every server accepted in a round they keep.
LEMMA HeldGrows ==
  ASSUME TypeOK, NEW p \in Server, NEW h \in History, NEW g, Grows(p, h, g),
         NEW i \in Nat, HeldByAll(h, i)
  PROVE  HeldByAll(g, i)
<1> SUFFICES ASSUME NEW r \in Ballot, \A q \in Server : h.acc[q][r] >= i
             PROVE  \A q \in Server : g.acc[q][r] >= i
  BY DEF HeldByAll
<1> TAKE q \in Server
<1>1. /\ h.acc[q][r] >= i /\ h.acc[q][r] \in Nat /\ g.acc[q][r] \in Nat /\ h.acc[q][r] <= g.acc[q][r]
  BY HistoryFields, GrowsKeeps DEF Grows
<1> QED BY <1>1

\* What was chosen in a round can be chosen in it.
LEMMA ChosenIsChoosable ==
  ASSUME NEW h, NEW r, NEW i, Chosen(h, r, i)
  PROVE  Choosable(h, r, i)
<1>1. Voters(h, r, i) \subseteq MayVote(h, r, i) /\ MayVote(h, r, i) \subseteq Server
  BY DEF Voters, MayVote
<1> QED BY <1>1, QuorumGrows, QuorumSizes DEF Chosen, Choosable

\* A step makes nothing choosable that was not.
LEMMA ChoosableShrinks ==
  ASSUME TypeOK, TypeOK', RoundsStep, NEW p \in Server, NEW h \in History, NEW g, Grows(p, h, g),
         NEW r \in Ballot, NEW i \in Nat, Choosable(g, r, i)'
  PROVE  Choosable(h, r, i)
<1>1. MayVote(g, r, i)' \subseteq MayVote(h, r, i)
  <2> SUFFICES ASSUME NEW q \in Server, g.acc[q][r] >= i \/ storage'[q].promise \preceq r
               PROVE  h.acc[q][r] >= i \/ storage[q].promise \preceq r
    BY DEF MayVote
  <2>1. storage[q].promise \in Ballot /\ storage'[q].promise \in Ballot
    BY StorageFields DEF TypeOK
  <2>2. storage'[q].promise \preceq r => storage[q].promise \preceq r
    BY <2>1, BallotTransitive DEF RoundsStep
  <2>3. g.acc[q][r] # h.acc[q][r] => storage[q].promise \preceq r
    BY BallotReflexive DEF Grows
  <2> QED BY <2>2, <2>3
<1>2. MayVote(h, r, i) \subseteq Server
  BY DEF MayVote
<1>3. Cardinality(MayVote(g, r, i)') >= WriteQuorum
  BY DEF Choosable
<1> QED BY <1>1, <1>2, <1>3, QuorumGrows, QuorumSizes DEF Choosable

\* p takes a step, and the history goes on from h to g.
Step(p, h, g) ==
  /\ Inv /\ Inv' /\ RoundsStep
  /\ Explains(h) /\ Grows(p, h, g) /\ Moves(p)

\* What is known of every step.
LEMMA StepFacts ==
  ASSUME NEW p \in Server, NEW h, NEW g, Step(p, h, g)
  PROVE  /\ TypeOK /\ TypeOK' /\ RoundsStep /\ h \in History /\ g \in History
         /\ Grows(p, h, g) /\ Moves(p)
         /\ \A q \in Server : storage[q] \in Storage /\ storage'[q] \in Storage
         /\ \A q \in Server : /\ storage[q].promise \in Ballot /\ storage'[q].promise \in Ballot
                              /\ storage[q].promise \preceq storage'[q].promise
BY StorageFields DEF Step, Inv, TypeOK, Explains, Grows, RoundsStep

\* The rounds stay as the history tells, and every established round holds
\* what was or may be chosen before it.
LEMMA RoundsKept ==
  ASSUME NEW p \in Server, NEW h, NEW g, Step(p, h, g), Accepts(p, h, g), Founds(h, g)
  PROVE  RoundInv(g)' /\ VoteInv(g)' /\ ChoiceInv(g)'
<1>1. /\ TypeOK /\ TypeOK' /\ RoundsStep /\ h \in History /\ g \in History /\ Grows(p, h, g)
      /\ RoundInv(h) /\ VoteInv(h) /\ ChoiceInv(h)
      /\ \A q \in Server : /\ storage[q].promise \in Ballot /\ storage'[q].promise \in Ballot
                           /\ storage[q].promise \preceq storage'[q].promise
  BY StepFacts DEF Step, Explains
<1>2. /\ \A r \in Ballot : Extends(h.rlog[r], g.rlog[r])
      /\ \A q \in Server, r \in Ballot : h.acc[q][r] <= g.acc[q][r]
      /\ \A r \in h.est : r \in g.est /\ g.base[r] = h.base[r]
  BY <1>1, GrowsKeeps
<1>3. /\ h.est \subseteq Ballot /\ g.est \subseteq Ballot
      /\ \A r \in Ballot : /\ h.rlog[r] \in Entries /\ g.rlog[r] \in Entries
                           /\ Len(h.rlog[r]) \in Nat /\ Len(g.rlog[r]) \in Nat
                           /\ Len(h.rlog[r]) <= Len(g.rlog[r])
                           /\ h.base[r] \in Nat /\ g.base[r] \in Nat
      /\ \A q \in Server, r \in Ballot : h.acc[q][r] \in Nat /\ g.acc[q][r] \in Nat
  BY <1>1, <1>2, HistoryFields, ExtendsLonger
<1>4. RoundInv(g)'
  <2> SUFFICES ASSUME NEW r \in Ballot
               PROVE  (r \in g.est => RoundOK(g, r)') /\ (r \notin g.est => Unused(g, r))
    BY DEF RoundInv, Unused
  <2>1. ASSUME r \in h.est PROVE RoundOK(g, r)'
    <3>1. RoundOK(h, r)
      BY <2>1, <1>1 DEF RoundInv
    <3>2. \A q \in Server : r \preceq storage[q].promise => r \preceq storage'[q].promise
      BY <1>1, BallotTransitive
    <3>3. Joined(r) \subseteq Joined(r)' /\ Joined(r)' \subseteq Server
      BY <3>2 DEF Joined
    <3>4. Cardinality(Joined(r)') >= ReadQuorum
      BY <3>1, <3>3, QuorumGrows, QuorumSizes DEF RoundOK
    <3>5. g.base[r] <= Len(g.rlog[r])
      BY <3>1, <2>1, <1>2, <1>3 DEF RoundOK
    <3> QED BY <3>1, <3>2, <3>4, <3>5 DEF RoundOK
  <2>2. ASSUME r \in g.est, r \notin h.est PROVE RoundOK(g, r)'
    BY <2>2 DEF Founds
  <2>3. ASSUME r \notin g.est PROVE Unused(g, r)
    <3>1. Unused(h, r)
      BY <2>3, <1>1, <1>2 DEF RoundInv
    <3>2. g.rlog[r] = h.rlog[r] /\ \A q \in Server : g.acc[q][r] = h.acc[q][r]
      BY <2>3, <1>1 DEF Grows
    <3> QED BY <3>1, <3>2 DEF Unused
  <2> QED BY <2>1, <2>2, <2>3
<1>5. VoteInv(g)'
  <2> SUFFICES ASSUME NEW q \in Server, NEW r \in Ballot
               PROVE  /\ g.acc[q][r] <= Len(g.rlog[r])
                      /\ storage'[q].accepted_round \prec r => g.acc[q][r] = 0
    BY DEF VoteInv
  <2>1. /\ storage[q].accepted_round \in Ballot /\ storage'[q].accepted_round \in Ballot
        /\ storage[q].accepted_round \preceq storage'[q].accepted_round
    BY <1>1, StepFacts, StorageFields DEF RoundsStep
  <2>2. CASE g.acc[q][r] = h.acc[q][r]
    <3>1. storage'[q].accepted_round \prec r => storage[q].accepted_round \prec r
      BY <2>1, BallotStrictlyTransitive
    <3> QED BY <2>2, <3>1, <1>1, <1>3 DEF VoteInv
  <2>3. CASE g.acc[q][r] # h.acc[q][r]
    <3>1. q = p /\ r = storage[p].promise
      BY <2>3, <1>1 DEF Grows
    <3> QED BY <3>1, <2>1, <2>3, BallotIrreflexive DEF Accepts
  <2> QED BY <2>2, <2>3
<1>6. ChoiceInv(g)'
  <2> SUFFICES ASSUME NEW r \in Ballot, NEW n \in g.est, NEW i \in Nat \ {0},
                      r \prec n, Choosable(g, r, i)'
               PROVE  i <= g.base[n] /\ Agree(g.rlog[r], g.rlog[n], i)
    BY DEF ChoiceInv
  <2>1. Choosable(h, r, i)
    BY <1>1, ChoosableShrinks
  <2>2. n \in Ballot
    BY <1>3
  <2>3. CASE n \in h.est
    <3>1. i <= h.base[n] /\ Agree(h.rlog[r], h.rlog[n], i)
      BY <2>1, <2>3, <1>1 DEF ChoiceInv
    <3> QED BY <3>1, <2>2, <2>3, <1>2, <1>3, AgreeExtends
  <2>4. CASE n \notin h.est
    <3>1. i <= g.base[n] /\ Agree(h.rlog[r], g.rlog[n], i)
      BY <2>1, <2>4 DEF Founds
    <3> QED BY <3>1, <2>2, <1>2, <1>3, AgreeExtends, ExtendsSelf
  <2> QED BY <2>3, <2>4
<1> QED BY <1>4, <1>5, <1>6

------------------------------------------------------------------------------
(* What a step keeps of the servers *)

\* What a growing history keeps, once more, of a step.
LEMMA StepGrows ==
  ASSUME NEW p \in Server, NEW h, NEW g, Step(p, h, g)
  PROVE  /\ \A r \in Ballot : /\ h.rlog[r] \in Entries /\ g.rlog[r] \in Entries
                              /\ Extends(h.rlog[r], g.rlog[r])
                              /\ Len(h.rlog[r]) \in Nat /\ Len(g.rlog[r]) \in Nat
                              /\ Len(h.rlog[r]) <= Len(g.rlog[r])
                              /\ h.base[r] \in Nat /\ g.base[r] \in Nat
         /\ \A q \in Server, r \in Ballot :
              h.acc[q][r] \in Nat /\ g.acc[q][r] \in Nat /\ h.acc[q][r] <= g.acc[q][r]
         /\ h.est \subseteq Ballot
         /\ \A r \in h.est : r \in g.est /\ g.base[r] = h.base[r]
         /\ \A r \in h.est \cup {DefaultBallot} :
              r \in g.est \cup {DefaultBallot} /\ (r \in g.est => r \in h.est)
         /\ \A r \in Ballot, d \in Nat : DecidedIn(h, r, d) => DecidedIn(g, r, d)
         /\ \A i \in Nat : HeldByAll(h, i) => HeldByAll(g, i)
<1>1. TypeOK /\ h \in History /\ g \in History /\ Grows(p, h, g)
  BY StepFacts
<1>2. \A r \in Ballot : h.rlog[r] \in Entries /\ g.rlog[r] \in Entries /\ Extends(h.rlog[r], g.rlog[r])
  BY <1>1, GrowsKeeps, HistoryFields
<1>3. \A r \in Ballot, d \in Nat : DecidedIn(h, r, d) => DecidedIn(g, r, d)
  BY <1>1, ChosenGrows
<1>4. \A i \in Nat : HeldByAll(h, i) => HeldByAll(g, i)
  BY <1>1, HeldGrows
<1> QED BY <1>1, <1>2, <1>3, <1>4, GrowsKeeps, HistoryFields, ExtendsLonger

\* The log of a server that accepts nothing.
LEMMA LogKept ==
  ASSUME NEW p \in Server, NEW h, NEW g, Step(p, h, g), NEW q \in Server, NEW s \in Storage,
         LogOK(h, q, s), BatchOK(h, q, s),
         g.acc[q][s.accepted_round] = h.acc[q][s.accepted_round],
         s.accepted_round.pid = q => g.rlog[s.accepted_round] = h.rlog[s.accepted_round]
  PROVE  LogOK(g, q, s) /\ BatchOK(g, q, s)
<1> DEFINE r == s.accepted_round
<1>1. /\ r \in Ballot /\ s.decided_idx \in Nat /\ s.accepted_idx \in Nat /\ s.compacted_idx \in Nat
      /\ s.log \in Entries /\ s.batched_entries \in Entries
  BY StorageFields
<1>2. /\ h.rlog[r] \in Entries /\ g.rlog[r] \in Entries /\ Extends(h.rlog[r], g.rlog[r])
      /\ r \in h.est => g.base[r] = h.base[r]
      /\ r \in h.est \cup {DefaultBallot} => r \in g.est \cup {DefaultBallot} /\ (r \in g.est => r \in h.est)
      /\ DecidedIn(h, r, s.decided_idx) => DecidedIn(g, r, s.decided_idx)
      /\ HeldByAll(h, s.compacted_idx) => HeldByAll(g, s.compacted_idx)
  BY <1>1, StepGrows
<1>3. Segment(g.rlog[r], s.compacted_idx, s.log) /\ HeldByAll(g, s.compacted_idx)
  BY <1>1, <1>2, SegmentExtends DEF LogOK
<1>4. r.pid # q => Segment(g.rlog[r], s.accepted_idx, s.batched_entries)
  BY <1>1, <1>2, SegmentExtends DEF BatchOK
<1>5. LogOK(g, q, s)
  BY <1>1, <1>2, <1>3 DEF LogOK
<1>6. BatchOK(g, q, s)
  BY <1>4 DEF BatchOK
<1> QED BY <1>5, <1>6

\* What a promise tells stays true: the server accepts in no round before the
\* one it promised.
LEMMA MetaKept ==
  ASSUME NEW p \in Server, NEW h, NEW g, Step(p, h, g), NEW q \in Server, NEW n \in Ballot,
         NEW meta \in PromiseMetaData, MetaOK(h, q, n, meta)
  PROVE  MetaOK(g, q, n, meta)'
<1>1. /\ meta.n_accepted \in Ballot /\ meta.accepted_idx \in Nat /\ meta.decided_idx \in Nat
  BY DEF PromiseMetaData
<1>2. /\ storage[q].promise \in Ballot /\ storage'[q].promise \in Ballot
      /\ storage[q].promise \preceq storage'[q].promise
      /\ Grows(p, h, g) /\ Moves(p)
  BY StepFacts
<1>3. n \preceq storage[q].promise /\ n \preceq storage'[q].promise
  BY <1>2, BallotTransitive DEF MetaOK
<1>4. \A r \in Ballot : r \prec n => g.acc[q][r] = h.acc[q][r]
  <2> SUFFICES ASSUME NEW r \in Ballot, r \prec n, q = p, r = storage[p].promise PROVE FALSE
    BY <1>2 DEF Grows
  <2> QED BY <1>2, <1>3, BallotAsymmetric
<1>5. storage'[q].promise = n => storage'[q].accepted_round \in {meta.n_accepted, n}
  <2> SUFFICES ASSUME storage'[q].promise = n PROVE storage'[q].accepted_round \in {meta.n_accepted, n}
    OBVIOUS
  <2>1. storage[q].promise = n
    BY <1>2, <1>3, BallotAsymmetric DEF \preceq
  <2>2. storage[q].accepted_round \in {meta.n_accepted, n}
    BY <2>1 DEF MetaOK
  <2>3. CASE q = p
    BY <2>1, <2>2, <2>3, <1>2 DEF Moves
  <2>4. CASE q # p
    BY <2>2, <2>4, <1>2 DEF Moves, Same, Peers
  <2> QED BY <2>3, <2>4
<1>6. /\ h.acc[q][n] \in Nat /\ g.acc[q][n] \in Nat /\ h.acc[q][n] <= g.acc[q][n]
      /\ \A r \in h.est \cup {DefaultBallot} :
           r \in g.est \cup {DefaultBallot} /\ (r \in g.est => r \in h.est /\ g.base[r] = h.base[r])
      /\ DecidedIn(h, meta.n_accepted, meta.decided_idx) => DecidedIn(g, meta.n_accepted, meta.decided_idx)
  BY <1>1, StepGrows
<1>7. meta.n_accepted = n => meta.accepted_idx <= g.acc[q][n]
  BY <1>1, <1>6 DEF MetaOK
<1>8. meta.n_accepted \prec n =>
       /\ g.acc[q][meta.n_accepted] = meta.accepted_idx
       /\ \A r \in Ballot : meta.n_accepted \prec r /\ r \prec n => g.acc[q][r] = 0
  BY <1>1, <1>4, <1>6 DEF MetaOK
<1>11. /\ meta.n_accepted \in g.est \cup {DefaultBallot}
       /\ meta.n_accepted \in g.est => g.base[meta.n_accepted] <= meta.accepted_idx
  BY <1>6 DEF MetaOK
<1>9. meta.n_accepted \preceq n /\ meta.decided_idx <= meta.accepted_idx
      /\ DecidedIn(g, meta.n_accepted, meta.decided_idx)
  BY <1>6 DEF MetaOK
<1>10. DecidedIn(g, meta.n_accepted, meta.decided_idx)'
  BY <1>9 DEF DecidedIn, Chosen, Voters
<1> QED BY <1>3, <1>5, <1>7, <1>8, <1>9, <1>10, <1>11 DEF MetaOK

\* A log that can be adopted still can.
LEMMA AdoptKept ==
  ASSUME NEW p \in Server, NEW h, NEW g, Step(p, h, g), NEW s \in Storage, NEW t \in Storage,
         Meta(t) = Meta(s), NEW meta \in PromiseMetaData, NEW sync \in LogSync,
         AdoptOK(h, s, meta, sync)
  PROVE  AdoptOK(g, t, meta, sync)
<1>1. /\ meta.n_accepted \in Ballot /\ sync.suffix \in Entries /\ sync.sync_idx \in Nat
      /\ s.accepted_round \in Ballot
      /\ t.accepted_round = s.accepted_round /\ t.accepted_idx = s.accepted_idx
  BY StorageFields DEF PromiseMetaData, LogSync, Meta
<1>2. \A r \in Ballot : h.rlog[r] \in Entries /\ g.rlog[r] \in Entries /\ Extends(h.rlog[r], g.rlog[r])
  BY StepGrows
<1>3. Agree(g.rlog[s.accepted_round], g.rlog[meta.n_accepted], sync.sync_idx)
  BY <1>1, <1>2, AgreeExtends DEF AdoptOK
<1>4. Segment(g.rlog[meta.n_accepted], sync.sync_idx, sync.suffix)
  BY <1>1, <1>2, SegmentExtends DEF AdoptOK
<1> QED BY <1>1, <1>3, <1>4 DEF AdoptOK

\* A promise on its way stays good.
LEMMA PromiseKept ==
  ASSUME NEW p \in Server, NEW h, NEW g, Step(p, h, g), NEW x \in Server, NEW y \in Server,
         NEW m \in PromiseMessage, PromiseOK(h, x, y, m)
  PROVE  PromiseOK(g, x, y, m)'
<1>1. m.n \in Ballot /\ PromiseMeta(m) \in PromiseMetaData /\ m.log_sync \in LogSync \cup {None}
  BY DEF PromiseMessage, PromiseMeta, PromiseMetaData
<1>2. /\ storage[y].promise \in Ballot /\ storage'[y].promise \in Ballot
      /\ storage[y].promise \preceq storage'[y].promise
      /\ storage[y] \in Storage /\ storage'[y] \in Storage
      /\ Moves(p)
  BY StepFacts
<1>3. m.n \preceq storage[y].promise /\ m.n \preceq storage'[y].promise
  BY <1>1, <1>2, BallotTransitive DEF PromiseOK
<1>4. MetaOK(g, x, m.n, PromiseMeta(m))'
  <2>1. MetaOK(h, x, m.n, PromiseMeta(m))
    BY DEF PromiseOK
  <2> QED BY <2>1, <1>1, MetaKept
<1>5. ASSUME Prepares(y, m.n)'
      PROVE  /\ m.log_sync = None => ~ greater_meta(PromiseMeta(m), Meta(storage'[y]))
             /\ m.log_sync # None => AdoptOK(g, storage'[y], PromiseMeta(m), m.log_sync)
  <2>1. Prepares(y, m.n) /\ Meta(storage'[y]) = Meta(storage[y])
    <3>1. CASE y = p
      <4>1. ~ (storage[p].promise \prec m.n)
        BY <3>1, <1>1, <1>2, <1>3, BallotAsymmetric
      <4> QED BY <3>1, <4>1, <1>1, <1>2, <1>5 DEF Moves
    <3>2. CASE y # p
      BY <3>2, <1>2, <1>5 DEF Moves, Same, Peers, Prepares
    <3> QED BY <3>1, <3>2
  <2>2. m.log_sync # None => AdoptOK(g, storage'[y], PromiseMeta(m), m.log_sync)
    BY <2>1, <1>1, <1>2, AdoptKept DEF PromiseOK
  <2> QED BY <2>1, <2>2 DEF PromiseOK
<1> QED BY <1>3, <1>4, <1>5 DEF PromiseOK

\* What a leader counts stays true.
LEMMA CountsKept ==
  ASSUME NEW p \in Server, NEW h, NEW g, Step(p, h, g), NEW l \in LeaderStates, CountsOK(h, l)
  PROVE  CountsOK(g, l)'
<1> SUFFICES ASSUME NEW q \in Slots
             PROVE  /\ l.latest_accept_meta[q] = 0
                    /\ l.accepted_indexes[q] > 0 => q \in Server /\ l.accepted_indexes[q] <= g.acc[q][l.n_leader]
                    /\ is_promised(l, q) => q \in Server /\ MetaOK(g, q, l.n_leader, l.promises_meta[q].meta)'
  BY DEF CountsOK
<1>1. /\ l.n_leader \in Ballot /\ l.promises_meta[q].meta \in PromiseMetaData
      /\ l.accepted_indexes[q] \in Nat
  BY LeaderFields
<1>2. is_promised(l, q) => q \in Server /\ MetaOK(g, q, l.n_leader, l.promises_meta[q].meta)'
  BY <1>1, MetaKept DEF CountsOK
<1>3. l.accepted_indexes[q] > 0 => q \in Server /\ l.accepted_indexes[q] <= g.acc[q][l.n_leader]
  BY <1>1, StepGrows DEF CountsOK
<1> QED BY <1>2, <1>3 DEF CountsOK

\* The largest promise a leader has seen, with a storage that has the same metadata.
LEMMA MaxKept ==
  ASSUME NEW p \in Server, NEW h, NEW g, Step(p, h, g), NEW s \in Storage, NEW t \in Storage,
         Meta(t) = Meta(s), NEW l \in LeaderStates, MaxOK(h, s, l)
  PROVE  MaxOK(g, t, l)
<1> DEFINE max == l.max_promise_meta
<1>1. /\ max \in PromiseMetaData /\ l.max_promise_sync \in LogSync \cup {None}
      /\ max.n_accepted \in Ballot /\ max.accepted_idx \in Nat
      /\ t.accepted_round = s.accepted_round /\ t.accepted_idx = s.accepted_idx
  BY LeaderFields DEF PromiseMetaData, Meta
<1>2. l.max_promise_sync # None => AdoptOK(g, t, max, l.max_promise_sync)
  BY <1>1, AdoptKept DEF MaxOK
<1>3. /\ max.n_accepted \in g.est \cup {DefaultBallot}
      /\ max.accepted_idx <= Len(g.rlog[max.n_accepted])
      /\ max.n_accepted \in g.est => g.base[max.n_accepted] <= max.accepted_idx
  <2>1. /\ Len(h.rlog[max.n_accepted]) \in Nat /\ Len(g.rlog[max.n_accepted]) \in Nat
        /\ Len(h.rlog[max.n_accepted]) <= Len(g.rlog[max.n_accepted])
    BY <1>1, StepGrows
  <2>2. max.accepted_idx <= Len(h.rlog[max.n_accepted])
    BY DEF MaxOK
  <2> QED BY SMTT(30), <1>1, <2>1, <2>2, StepGrows DEF MaxOK
<1> QED BY <1>1, <1>2, <1>3 DEF MaxOK

\* A round is established by its leader only.
LEMMA EstablishedKept ==
  ASSUME NEW p \in Server, NEW h, NEW g, Step(p, h, g), NEW n \in Ballot, n.pid # p
  PROVE  (n \in g.est => n \in h.est) /\ g.start[n] = h.start[n] /\ g.rlog[n] = h.rlog[n]
BY StepFacts DEF Grows

\* A leader that takes no part.
LEMMA LeadingKept ==
  ASSUME NEW p \in Server, NEW h, NEW g, Step(p, h, g), NEW q \in Peers(p), LeadingOK(h, q)
  PROVE  LeadingOK(g, q)'
<1> DEFINE s == storage[q]
           l == leader_state[q]
<1>1. /\ q \in Server /\ q # p /\ Same(q)
      /\ s \in Storage /\ l \in LeaderStates
  BY StepFacts DEF Peers, Moves, TypeOK
<1>2. l.n_leader \in Ballot /\ s.promise \in Ballot /\ l.max_promise_meta \in PromiseMetaData
      /\ l.max_promise_meta.n_accepted \in Ballot /\ l.max_promise_meta.accepted_idx \in Nat
  BY <1>1, StorageFields, LeaderFields DEF PromiseMetaData
<1>3. LeaderOK(h, q, s, l) => LeaderOK(g, q, s, l)
  BY StepGrows DEF LeaderOK
<1>4. PrepareOK(h, q, s, l) => PrepareOK(g, q, s, l)
  <2> SUFFICES ASSUME PrepareOK(h, q, s, l) PROVE PrepareOK(g, q, s, l)
    OBVIOUS
  <2>1. s.promise \notin g.est
    BY <1>1, <1>2, EstablishedKept DEF PrepareOK
  <2>2. MaxOK(g, s, l)
    BY <1>1, MaxKept DEF PrepareOK
  <2> QED BY <2>1, <2>2 DEF PrepareOK
<1>5. LeaderOK(h, q, s, l) /\ AcceptOK(h, q, s, l) => AcceptOK(g, q, s, l)
  <2> SUFFICES ASSUME LeaderOK(h, q, s, l), AcceptOK(h, q, s, l) PROVE AcceptOK(g, q, s, l)
    OBVIOUS
  <2>1. l.n_leader \in h.est /\ l.n_leader.pid = q
    BY DEF LeaderOK
  <2>2. g.start[l.n_leader] = h.start[l.n_leader] /\ g.base[l.n_leader] = h.base[l.n_leader]
    BY <1>1, <1>2, <2>1, EstablishedKept, StepGrows
  <2>3. Agree(g.rlog[l.max_promise_meta.n_accepted], g.rlog[l.n_leader], l.max_promise_meta.accepted_idx)
    <3> DEFINE m == l.max_promise_meta.n_accepted
               n == l.n_leader
    <3>1. Agree(h.rlog[m], h.rlog[n], l.max_promise_meta.accepted_idx)
      BY DEF AcceptOK
    <3>2. /\ h.rlog[m] \in Entries /\ g.rlog[m] \in Entries /\ Extends(h.rlog[m], g.rlog[m])
          /\ h.rlog[n] \in Entries /\ g.rlog[n] \in Entries /\ Extends(h.rlog[n], g.rlog[n])
      BY <1>2, StepGrows
    <3> HIDE DEF m, n
    <3>3. Agree(g.rlog[m], g.rlog[n], l.max_promise_meta.accepted_idx)
      BY <1>2, <3>1, <3>2, AgreeExtends
    <3> QED BY <3>3 DEF m, n
  <2> QED BY <2>2, <2>3 DEF AcceptOK
<1>6. /\ storage'[q] = s /\ leader_state'[q] = l /\ state'[q] = state[q]
      /\ q \in panicked' <=> q \in panicked
  BY <1>1 DEF Same
<1> HIDE DEF s, l
<1>7. LeadingOK(h, q) => /\ state[q][1] = "Leader" => \/ state[q] = << "Leader", "Prepare" >>
                                                       \/ state[q] = << "Leader", "Accept" >>
                         /\ state[q] = << "Leader", "Accept" >> => LeaderOK(h, q, s, l)
                         /\ q \notin panicked /\ state[q] = << "Leader", "Prepare" >> => PrepareOK(h, q, s, l)
                         /\ q \notin panicked /\ state[q] = << "Leader", "Accept" >> => AcceptOK(h, q, s, l)
  BY DEF LeadingOK, s, l
<1> QED BY <1>3, <1>4, <1>5, <1>6, <1>7 DEF LeadingOK

\* A leader moves on in its sequence numbers.
LEMMA SentKept ==
  ASSUME NEW p \in Server, NEW h, NEW g, Step(p, h, g), NEW x \in Server, NEW n \in h.est, n.pid = x,
         NEW y \in Server, NEW sn \in SequenceNumber, Sent(x, n, y, sn)
  PROVE  Sent(x, n, y, sn)'
<1> SUFFICES ASSUME Leads(x, n)' PROVE seq_num_leq(sn, leader_state'[x].follower_seq_nums[y])
  BY DEF Sent
<1>1. /\ n \in Ballot /\ Moves(p) /\ TypeOK /\ TypeOK' /\ storage[x].promise \in Ballot
      /\ n \preceq storage[x].promise
  BY StepFacts, StepGrows DEF Step, Explains, RoundInv, RoundOK
<1>2. /\ leader_state[x].follower_seq_nums[y] \in SequenceNumber
      /\ leader_state'[x].follower_seq_nums[y] \in SequenceNumber
  BY <1>1, LeaderFields, ServersHaveSlots DEF TypeOK
<1>3. CASE x = p
  <2>1. ~ (storage[p].promise \prec n)
    BY <1>1, <1>3, BallotAsymmetric
  <2>2. Leads(p, n) /\ seq_num_leq(leader_state[p].follower_seq_nums[y], leader_state'[p].follower_seq_nums[y])
    BY <2>1, <1>1, <1>3 DEF Moves
  <2> QED BY <2>2, <1>2, <1>3, SeqNumTransitive DEF Sent
<1>4. CASE x # p
  BY <1>1, <1>4 DEF Moves, Same, Peers, Leads, Sent
<1> QED BY <1>3, <1>4

\* Where a message that was sent goes on does not change.
LEMMA StartKept ==
  ASSUME NEW p \in Server, NEW h, NEW g, Step(p, h, g), NEW n \in Ballot,
         NEW y \in Server, NEW sn \in SequenceNumber, Sent(n.pid, n, y, sn)
  PROVE  /\ g.start[n][y][sn] = h.start[n][y][sn]
         /\ g.start[n][y][next_seq_num(sn)] = h.start[n][y][next_seq_num(sn)]
<1> DEFINE sent == leader_state[p].follower_seq_nums[y]
<1>1. Grows(p, h, g) /\ TypeOK
  BY StepFacts
<1>2. sent \in SequenceNumber /\ next_seq_num(sn) \in SequenceNumber
  BY <1>1, LeaderFields, ServersHaveSlots, SequenceNumberType DEF TypeOK
<1>3. CASE n # storage[p].promise \/ n.pid # p
  BY <1>1, <1>3 DEF Grows
<1>4. CASE n = storage[p].promise /\ n.pid = p
  <2>1. Leads(p, n) => seq_num_leq(sn, next_seq_num(sent)) /\ seq_num_leq(next_seq_num(sn), next_seq_num(sent))
    BY <1>2, <1>4, SeqNumNext DEF Sent
  <2> QED BY <1>1, <1>2, <1>4, <2>1 DEF Grows
<1> QED BY <1>3, <1>4

\* A follower that takes no part.
LEMMA FollowingKept ==
  ASSUME NEW p \in Server, NEW h, NEW g, Step(p, h, g), NEW q \in Peers(p), FollowingOK(h, q)
  PROVE  FollowingOK(g, q)'
<1> DEFINE s == storage[q]
           f == follower_state[q]
           n == s.promise
<1>1. /\ q \in Server /\ q # p /\ Same(q) /\ Inv
      /\ s \in Storage /\ f \in FollowerState /\ n \in Ballot
  BY StepFacts DEF Step, Peers, Moves, TypeOK
<1>2. storage'[q] = s /\ follower_state'[q] = f /\ state'[q] = state[q] /\ (q \in panicked' <=> q \in panicked)
  BY <1>1 DEF Same
<1>3. ASSUME q \notin panicked, state[q] = << "Follower", "Accept" >>
      PROVE  FollowsOK(g, q, s, f) /\ Sent(n.pid, n, q, f.current_seq_num)'
  <2>1. /\ FollowsOK(h, q, s, f) /\ Sent(n.pid, n, q, f.current_seq_num)
        /\ f.current_seq_num \in SequenceNumber
    BY <1>1, <1>3 DEF FollowingOK, FollowerState
  <2>2. n.pid \in Server
    BY <1>1, <1>3 DEF Inv, RoleInv, RoleOK
  <2>3. n \in h.est
    <3>1. n \in h.est \cup {DefaultBallot}
      BY <2>1, <1>1 DEF FollowsOK, Step, Explains, LogInv, LogOK
    <3>2. DefaultBallot.pid \notin Server
      BY ServerAssumption DEF DefaultBallot
    <3> QED BY <3>1, <3>2, <2>2
  <2>4. g.start[n][q][next_seq_num(f.current_seq_num)] = h.start[n][q][next_seq_num(f.current_seq_num)]
    BY <2>1, <1>1, StartKept
  <2>5. Sent(n.pid, n, q, f.current_seq_num)'
    <3> HIDE DEF n, f
    <3> DEFINE x == n.pid
               sn == f.current_seq_num
    <3>1. x \in Server /\ n \in h.est /\ n.pid = x /\ sn \in SequenceNumber /\ Sent(x, n, q, sn)
      BY <2>1, <2>2, <2>3
    <3> QED BY <3>1, <1>1, <1>2, SentKept DEF n, f, Sent, Leads
  <2> QED BY <2>1, <2>4, <2>5 DEF FollowsOK
<1> QED BY <1>2, <1>3 DEF FollowingOK, Sent, Leads

------------------------------------------------------------------------------
(* What a step keeps of the messages *)

\* The accept messages, without stop signs, have what the invariant speaks of.
LEMMA AcceptFields ==
  ASSUME Plain, NEW m \in Message, m.type \in AcceptTypes
  PROVE  /\ m.n \in Ballot /\ m.seq_num \in SequenceNumber /\ next_seq_num(m.seq_num) \in SequenceNumber
         /\ m.decided_idx \in Nat
         /\ m.type = "AcceptSync" => /\ m.log_sync \in LogSync /\ m.log_sync.suffix \in Entries
                                     /\ m.log_sync.sync_idx \in Nat /\ Len(m.log_sync.suffix) \in Nat
         /\ m.type = "AcceptDecide" => m.entries \in Entries /\ Len(m.entries) \in Nat
<1>1. m.type # "AcceptStopSign"
  BY MessageFields DEF Plain
<1>2. m.n \in Ballot /\ m.seq_num \in SequenceNumber /\ m.decided_idx \in Nat
  BY <1>1, MessageFields
<1>3. m.type = "AcceptSync" => m.log_sync \in LogSync /\ m.log_sync.suffix \in Entries /\ m.log_sync.sync_idx \in Nat
  BY MessageFields DEF LogSync
<1>4. m.type = "AcceptDecide" => m.entries \in Entries
  BY MessageFields
<1> QED BY <1>2, <1>3, <1>4, SequenceNumberType, LenProperties DEF Entries

\* A message on its way stays good.
LEMMA MsgKept ==
  ASSUME NEW p \in Server, NEW h, NEW g, Step(p, h, g), NEW x \in Server, NEW y \in Peers(x),
         NEW m \in Message, MsgOK(h, x, y, m)
  PROVE  /\ MsgOK(g, x, y, m)'
         /\ m.type \in AcceptTypes => End(g, y, m) = End(h, y, m)
<1>1. y \in Server /\ Plain /\ Moves(p)
  BY StepFacts DEF Peers, Step, Explains
<1>2. m.type = "Prepare" => PrepareMsgOK(x, m)'
  <2> SUFFICES ASSUME m.type = "Prepare" PROVE PrepareMsgOK(x, m)'
    OBVIOUS
  <2>1. m.n \in Ballot /\ PrepareMsgOK(x, m)
    BY MessageFields DEF MsgOK
  <2>2. /\ storage[x].promise \in Ballot /\ storage'[x].promise \in Ballot
        /\ storage[x].promise \preceq storage'[x].promise
    BY StepFacts
  <2>3. m.n \preceq storage'[x].promise
    BY <2>1, <2>2, BallotTransitive DEF PrepareMsgOK
  <2>4. ASSUME Prepares(x, m.n)' PROVE Prepares(x, m.n) /\ Meta(storage'[x]) = Meta(storage[x])
    <3>1. CASE x = p
      <4>1. ~ (storage[p].promise \prec m.n)
        BY <3>1, <2>1, <2>2, BallotAsymmetric DEF PrepareMsgOK
      <4> QED BY <3>1, <4>1, <1>1, <2>1, <2>4 DEF Moves
    <3>2. CASE x # p
      BY <3>2, <1>1, <2>4 DEF Moves, Same, Peers, Prepares
    <3> QED BY <3>1, <3>2
  <2> QED BY <2>1, <2>3, <2>4 DEF PrepareMsgOK, Meta
<1>3. m.type = "Promise" => PromiseOK(g, x, y, m)'
  BY <1>1, PromiseKept, MessageFields DEF MsgOK
<1>4. ASSUME m.type \in AcceptTypes
      PROVE  /\ AcceptMsgOK(g, x, y, m)'
             /\ End(g, y, m) = End(h, y, m)
             /\ g.start[m.n][y][m.seq_num] = h.start[m.n][y][m.seq_num]
             /\ g.base[m.n] = h.base[m.n]
  <2>1. /\ m.n \in Ballot /\ m.seq_num \in SequenceNumber /\ next_seq_num(m.seq_num) \in SequenceNumber
        /\ m.decided_idx \in Nat
    BY <1>1, <1>4, AcceptFields
  <2>2. AcceptMsgOK(h, x, y, m)
    BY <1>4 DEF MsgOK
  <2>3. /\ g.start[m.n][y][m.seq_num] = h.start[m.n][y][m.seq_num]
        /\ End(g, y, m) = End(h, y, m)
    BY <1>1, <2>1, <2>2, StartKept DEF AcceptMsgOK, End
  <2>4. Sent(x, m.n, y, m.seq_num)'
    BY <1>1, <2>1, <2>2, SentKept DEF AcceptMsgOK
  <2>5. DecidedIn(g, m.n, m.decided_idx)
    BY <2>1, <2>2, StepGrows DEF AcceptMsgOK
  <2>6. m.n \in g.est /\ g.base[m.n] = h.base[m.n]
    BY <2>2, StepGrows DEF AcceptMsgOK
  <2>7. End(g, y, m) <= Len(g.rlog[m.n])
    <3>1. End(h, y, m) \in Nat /\ End(h, y, m) <= Len(h.rlog[m.n])
      BY <1>1, <2>1, <2>2, StepFacts, HistoryFields DEF AcceptMsgOK, End
    <3>2. Len(h.rlog[m.n]) \in Nat /\ Len(g.rlog[m.n]) \in Nat /\ Len(h.rlog[m.n]) <= Len(g.rlog[m.n])
      BY <2>1, StepGrows
    <3> QED BY <3>1, <3>2, <2>3
  <2>8. DecidedIn(g, m.n, m.decided_idx)'
    BY <2>5 DEF DecidedIn, Chosen, Voters
  <2>9. AcceptMsgOK(g, x, y, m)'
    BY <2>2, <2>4, <2>6, <2>7, <2>8 DEF AcceptMsgOK, End
  <2> QED BY <2>3, <2>6, <2>9
<1>5. m.type = "AcceptSync" => SyncMsgOK(g, y, m)
  <2> SUFFICES ASSUME m.type = "AcceptSync" PROVE SyncMsgOK(g, y, m)
    OBVIOUS
  <2>1. m.type \in AcceptTypes
    BY DEF AcceptTypes
  <2>2. m.n \in Ballot /\ m.log_sync.suffix \in Entries /\ m.log_sync.sync_idx \in Nat
    BY <1>1, <2>1, AcceptFields
  <2>3. Segment(g.rlog[m.n], m.log_sync.sync_idx, m.log_sync.suffix)
    BY <2>2, StepGrows, SegmentExtends DEF MsgOK, SyncMsgOK
  <2> QED BY <1>4, <2>1, <2>3 DEF MsgOK, SyncMsgOK
<1>6. m.type = "AcceptDecide" => DecideMsgOK(g, y, m)
  <2> SUFFICES ASSUME m.type = "AcceptDecide" PROVE DecideMsgOK(g, y, m)
    OBVIOUS
  <2>1. m.type \in AcceptTypes
    BY DEF AcceptTypes
  <2>2. m.n \in Ballot /\ m.seq_num \in SequenceNumber /\ m.entries \in Entries
    BY <1>1, <2>1, AcceptFields
  <2>3. h.start[m.n][y][m.seq_num] \in Nat
    BY <1>1, <2>2, StepFacts, HistoryFields
  <2>4. Segment(g.rlog[m.n], h.start[m.n][y][m.seq_num], m.entries)
    BY SMTT(30), <2>2, <2>3, StepGrows, SegmentExtends DEF MsgOK, DecideMsgOK
  <2> QED BY <1>4, <2>1, <2>4 DEF MsgOK, DecideMsgOK
<1>7. m.type = "Decide" => End(g, y, m) = g.start[m.n][y][m.seq_num]
  BY <1>4 DEF MsgOK, AcceptTypes
<1>8. m.type = "Accepted" => m.accepted_idx <= g.acc[x][m.n]
  <2> SUFFICES ASSUME m.type = "Accepted" PROVE m.accepted_idx <= g.acc[x][m.n]
    OBVIOUS
  <2>1. m.n \in Ballot /\ m.accepted_idx \in Nat
    BY MessageFields
  <2> QED BY <2>1, StepGrows DEF MsgOK
<1>9. m.type = "Compaction" => m.kind = "Trim" /\ HeldByAll(g, m.idx)'
  <2> SUFFICES ASSUME m.type = "Compaction" PROVE m.kind = "Trim" /\ HeldByAll(g, m.idx)'
    OBVIOUS
  <2>1. m.kind = "Trim" /\ HeldByAll(h, m.idx)
    BY DEF MsgOK
  <2>2. m.idx \in Nat
    BY <2>1, MessageFields
  <2>3. HeldByAll(g, m.idx)
    BY <2>1, <2>2, StepGrows
  <2> QED BY <2>1, <2>3 DEF HeldByAll
<1>10. MsgOK(g, x, y, m)'
  BY <1>2, <1>3, <1>4, <1>5, <1>6, <1>7, <1>8, <1>9 DEF MsgOK, SyncMsgOK, DecideMsgOK, End
<1> QED BY <1>4, <1>10

\* A log that may be cut where an AcceptSync says still may.
LEMMA TargetKept ==
  ASSUME NEW p \in Server, NEW h, NEW g, Step(p, h, g), NEW s \in Storage,
         NEW m \in Message, m.type = "AcceptSync", TargetOK(h, s, m)
  PROVE  TargetOK(g, s, m)
<1>1. m.n \in Ballot /\ m.log_sync.sync_idx \in Nat /\ s.accepted_round \in Ballot
  BY AcceptFields, StorageFields DEF Step, Explains, AcceptTypes
<1>2. s.accepted_round # m.n => Agree(g.rlog[s.accepted_round], g.rlog[m.n], m.log_sync.sync_idx)
  BY SMTT(30), <1>1, StepGrows, AgreeExtends DEF TargetOK
<1> QED BY <1>2 DEF TargetOK

\* Accept messages on their way stay in order.
LEMMA OrderKept ==
  ASSUME NEW p \in Server, NEW h, NEW g, Step(p, h, g), NEW x \in Server, NEW y \in Peers(x),
         NEW a \in Message, NEW b \in Message, MsgOK(h, x, y, a), MsgOK(h, x, y, b),
         OrderOK(h, y, a, b), b.type \in AcceptTypes => b.n \preceq storage[y].promise
  PROVE  OrderOK(g, y, a, b)'
<1> SUFFICES ASSUME a.type \in AcceptTypes, b.type = "AcceptSync", a.n = b.n, storage'[y].promise = b.n
             PROVE  /\ End(g, y, a) <= End(g, y, b)
                    /\ a.type = "AcceptSync" => b.log_sync.sync_idx <= End(g, y, a)
  BY DEF OrderOK, End
<1>1. End(g, y, a) = End(h, y, a) /\ End(g, y, b) = End(h, y, b)
  BY MsgKept DEF AcceptTypes
<1>2. y \in Server /\ b.n \in Ballot /\ b.n \preceq storage[y].promise
  BY AcceptFields DEF Step, Explains, AcceptTypes, Peers
<1>3. storage[y].promise = b.n
  BY <1>2, StepFacts, BallotAsymmetric DEF \preceq
<1> QED BY <1>1, <1>3 DEF OrderOK

\* A channel loses its first message at most.
Shortened(a, b) == b = a \/ (a # << >> /\ b = Tail(a))

\* What p sends is out; the others send nothing.
Delivers(p, out) ==
  /\ \A x \in Peers(p) : \A y \in Server : Shortened(net[x][y], net'[x][y])
  /\ \A y \in Peers(p) : out[y] \in Seq(Message) /\ net'[p][y] \in {net[p][y], net[p][y] \o out[y]}

\* What p sends to y is as the history g tells, and an AcceptSync fits behind
\* what y has accepted and what is on its way.
SendsOK(p, g, out) ==
  \A y \in Peers(p) : \A i \in 1 .. Len(out[y]) : \A m \in Message :
    m = out[y][i] =>
      /\ MsgOK(g, p, y, m)'
      /\ m.type = "AcceptSync" =>
           /\ Len(out[y]) = 1
           /\ SyncTargetOK(g, y, m)'
           /\ \A j \in 1 .. Len(net[p][y]) : \A a \in Message :
                a = net[p][y][j] => OrderOK(g, y, a, m)'

\* What is still on its way to p fits behind what p has accepted now.
ReceivesOK(p, g) ==
  \A x \in Peers(p) : \A i \in 1 .. Len(net'[x][p]) : SyncTargetOK(g, p, net[x][p][i])'

\* The messages left in a channel keep their order.
LEMMA ShortenedChannel ==
  ASSUME NEW a \in Seq(Message), NEW b, Shortened(a, b)
  PROVE  /\ b \in Seq(Message)
         /\ \E k \in Nat : /\ Len(b) + k = Len(a)
                           /\ \A i \in 1 .. Len(b) : i + k \in 1 .. Len(a) /\ b[i] = a[i + k]
<1>1. Len(a) \in Nat
  BY LenProperties
<1>2. CASE b = a
  <2>1. Len(b) + 0 = Len(a) /\ \A i \in 1 .. Len(b) : i + 0 \in 1 .. Len(a) /\ b[i] = a[i + 0]
    BY <1>1, <1>2
  <2> QED BY <2>1, <1>2
<1>3. CASE a # << >> /\ b = Tail(a)
  <2>1. b \in Seq(Message) /\ Len(b) = Len(a) - 1 /\ \A i \in 1 .. Len(b) : b[i] = a[i + 1]
    BY <1>3, HeadTailProperties
  <2>2. Len(a) > 0
    BY <1>1, <1>3, EmptySeq
  <2>3. Len(b) + 1 = Len(a) /\ \A i \in 1 .. Len(b) : i + 1 \in 1 .. Len(a) /\ b[i] = a[i + 1]
    BY <1>1, <2>1, <2>2
  <2> QED BY <2>1, <2>3
<1> QED BY <1>2, <1>3 DEF Shortened

\* All messages are as the history tells, and in order.
LEMMA MessagesKept ==
  ASSUME NEW p \in Server, NEW h, NEW g, Step(p, h, g), NEW out, Delivers(p, out),
         SendsOK(p, g, out), ReceivesOK(p, g)
  PROVE  MessageInv(g)' /\ OrderInv(g)'
<1>1. /\ Inv /\ TypeOK /\ Moves(p) /\ MessageInv(h) /\ OrderInv(h)
      /\ \A x, y \in Server : /\ net[x][y] \in Seq(Message) /\ Len(net[x][y]) \in Nat
                              /\ \A i \in 1 .. Len(net[x][y]) : net[x][y][i] \in Message
  <2>1. TypeOK /\ Moves(p) /\ MessageInv(h) /\ OrderInv(h) /\ Inv
    BY StepFacts DEF Step, Explains
  <2>2. \A x, y \in Server : net[x][y] \in Seq(Message)
    BY <2>1 DEF TypeOK
  <2> QED BY <2>1, <2>2, LenProperties, ElementOfSeq
<1>2. ASSUME NEW x \in Server, NEW y \in Peers(x), NEW j \in 1 .. Len(net[x][y]), NEW m \in Message,
             m = net[x][y][j]
      PROVE  MsgOK(g, x, y, m)' /\ (y # p => SyncTargetOK(g, y, m)')
  <2>1. y \in Server /\ MsgOK(h, x, y, m) /\ SyncTargetOK(h, y, m)
    BY <1>1, <1>2 DEF MessageInv, Peers
  <2>2. MsgOK(g, x, y, m)'
    BY <2>1, MsgKept
  <2>3. ASSUME y # p, m.type = "AcceptSync", m.n = storage'[y].promise
        PROVE  TargetOK(g, storage'[y], m)
    <3>1. storage'[y] = storage[y] /\ storage[y] \in Storage
      BY <2>1, <2>3, <1>1, StepFacts DEF Moves, Same, Peers
    <3>2. TargetOK(h, storage[y], m)
      BY <3>1, <2>1, <2>3 DEF SyncTargetOK
    <3> QED BY <3>1, <3>2, <2>3, TargetKept
  <2> QED BY <2>2, <2>3 DEF SyncTargetOK
<1>3. ASSUME NEW x \in Server, NEW y \in Peers(x), NEW i \in 1 .. Len(net[x][y]), NEW j \in 1 .. Len(net[x][y]),
             i < j, NEW a \in Message, a = net[x][y][i], NEW b \in Message, b = net[x][y][j]
      PROVE  OrderOK(g, y, a, b)'
  <2>1. y \in Server /\ MsgOK(h, x, y, a) /\ MsgOK(h, x, y, b) /\ OrderOK(h, y, a, b)
    BY <1>1, <1>3 DEF MessageInv, OrderInv, Peers
  <2>2. b.type \in AcceptTypes => b.n \preceq storage[y].promise
    <3>1. b \in Sendable(x, storage[x], y)
      BY <1>1, <1>3, <2>1, ElementOfSeq DEF Inv, ChannelInv
    <3> QED BY <3>1, <2>1, StepFacts DEF Sendable, Peers, Step, Explains, Plain, Broadcast
  <2> QED BY <2>1, <2>2, OrderKept
<1>4. ASSUME NEW x \in Peers(p), NEW y \in Peers(x)
      PROVE  /\ \A i \in 1 .. Len(net'[x][y]) : MsgOK(g, x, y, net[x][y][i])' /\ SyncTargetOK(g, y, net[x][y][i])'
             /\ \A i, j \in 1 .. Len(net'[x][y]) : i < j => OrderOK(g, y, net[x][y][i], net[x][y][j])'
  <2>1. x \in Server /\ y \in Server
    BY DEF Peers
  <2>2. PICK k \in Nat : /\ Len(net'[x][y]) + k = Len(net[x][y])
                         /\ \A i \in 1 .. Len(net'[x][y]) :
                              i + k \in 1 .. Len(net[x][y]) /\ net'[x][y][i] = net[x][y][i + k]
    <3> DEFINE a == net[x][y]
               b == net'[x][y]
    <3>1. a \in Seq(Message) /\ Shortened(a, b)
      BY <1>1, <2>1 DEF Delivers
    <3> HIDE DEF a, b
    <3>2. \E k \in Nat : /\ Len(b) + k = Len(a)
                        /\ \A i \in 1 .. Len(b) : i + k \in 1 .. Len(a) /\ b[i] = a[i + k]
      BY <3>1, ShortenedChannel, ZenonT(60)
    <3> QED BY <3>2, Zenon DEF a, b
  <2>3. ASSUME NEW i \in 1 .. Len(net'[x][y])
        PROVE  MsgOK(g, x, y, net[x][y][i])' /\ SyncTargetOK(g, y, net[x][y][i])'
    <3>1. PICK m \in Message : m = net[x][y][i + k] /\ m = net'[x][y][i]
      BY <1>1, <2>1, <2>2
    <3>2. MsgOK(g, x, y, m)' /\ (y # p => SyncTargetOK(g, y, m)')
      BY <3>1, <2>1, <2>2, <1>2
    <3>3. y = p => SyncTargetOK(g, y, net[x][y][i])'
      BY DEF ReceivesOK
    <3> QED BY <3>1, <3>2, <3>3
  <2>4. ASSUME NEW i \in 1 .. Len(net'[x][y]), NEW j \in 1 .. Len(net'[x][y]), i < j
        PROVE  OrderOK(g, y, net[x][y][i], net[x][y][j])'
    <3>1. PICK a \in Message : a = net[x][y][i + k] /\ a = net'[x][y][i]
      BY <1>1, <2>1, <2>2
    <3>2. PICK b \in Message : b = net[x][y][j + k] /\ b = net'[x][y][j]
      BY <1>1, <2>1, <2>2
    <3>3. i + k \in 1 .. Len(net[x][y]) /\ j + k \in 1 .. Len(net[x][y]) /\ i + k < j + k
      BY <2>1, <2>2, <2>4, <1>1
    <3>4. OrderOK(g, y, a, b)'
      BY <3>1, <3>2, <3>3, <2>1, <1>3
    <3> QED BY <3>1, <3>2, <3>4
  <2> QED BY <2>3, <2>4
<1>5. ASSUME NEW y \in Peers(p)
      PROVE  /\ \A i \in 1 .. Len(net'[p][y]) : MsgOK(g, p, y, net[p][y][i])' /\ SyncTargetOK(g, y, net[p][y][i])'
             /\ \A i, j \in 1 .. Len(net'[p][y]) : i < j => OrderOK(g, y, net[p][y][i], net[p][y][j])'
  <2>1. y \in Server /\ y # p
    BY DEF Peers
  <2>2. CASE net'[p][y] = net[p][y]
    <3>1. \A i \in 1 .. Len(net'[p][y]) : MsgOK(g, p, y, net[p][y][i])' /\ SyncTargetOK(g, y, net[p][y][i])'
      <4> TAKE i \in 1 .. Len(net'[p][y])
      <4>1. PICK m \in Message : m = net[p][y][i] /\ m = net'[p][y][i] /\ i \in 1 .. Len(net[p][y])
        BY <1>1, <2>1, <2>2
      <4>2. MsgOK(g, p, y, m)' /\ SyncTargetOK(g, y, m)'
        BY <4>1, <2>1, <1>2
      <4> QED BY <4>1, <4>2
    <3>2. \A i, j \in 1 .. Len(net'[p][y]) : i < j => OrderOK(g, y, net[p][y][i], net[p][y][j])'
      <4> SUFFICES ASSUME NEW i \in 1 .. Len(net'[p][y]), NEW j \in 1 .. Len(net'[p][y]), i < j
                   PROVE  OrderOK(g, y, net[p][y][i], net[p][y][j])'
        OBVIOUS
      <4>1. PICK a \in Message : a = net[p][y][i] /\ a = net'[p][y][i] /\ i \in 1 .. Len(net[p][y])
        BY <1>1, <2>1, <2>2
      <4>2. PICK b \in Message : b = net[p][y][j] /\ b = net'[p][y][j] /\ j \in 1 .. Len(net[p][y])
        BY <1>1, <2>1, <2>2
      <4>3. OrderOK(g, y, a, b)'
        BY <4>1, <4>2, <1>3
      <4> QED BY <4>1, <4>2, <4>3
    <3> QED BY <3>1, <3>2
  <2>3. CASE net'[p][y] = net[p][y] \o out[y]
    <3> DEFINE k == Len(net[p][y])
    <3>1. /\ out[y] \in Seq(Message) /\ Len(out[y]) \in Nat /\ k \in Nat
          /\ Len(net'[p][y]) = k + Len(out[y])
          /\ \A i \in 1 .. k + Len(out[y]) : net'[p][y][i] = IF i <= k THEN net[p][y][i] ELSE out[y][i - k]
          /\ \A i \in 1 .. Len(out[y]) : out[y][i] \in Message
      <4>1. out[y] \in Seq(Message) /\ net[p][y] \in Seq(Message)
        BY <1>1, <2>1 DEF Delivers
      <4>2. Len(out[y]) \in Nat /\ k \in Nat /\ \A i \in 1 .. Len(out[y]) : out[y][i] \in Message
        BY <4>1, LenProperties, ElementOfSeq
      <4>3. /\ Len(net[p][y] \o out[y]) = k + Len(out[y])
            /\ \A i \in 1 .. k + Len(out[y]) : (net[p][y] \o out[y])[i] = IF i <= k THEN net[p][y][i] ELSE out[y][i - k]
        BY <4>1, ConcatProperties
      <4> QED BY <4>1, <4>2, <4>3, <2>3
    <3>2. ASSUME NEW i \in 1 .. Len(net'[p][y]), ~ (i <= k)
          PROVE  i - k \in 1 .. Len(out[y]) /\ net'[p][y][i] = out[y][i - k] /\ out[y][i - k] \in Message
      <4> HIDE DEF k
      <4>1. i \in 1 .. k + Len(out[y])
        BY <3>1
      <4>2. i - k \in 1 .. Len(out[y])
        BY <3>1, <3>2, <4>1
      <4> QED BY <3>1, <3>2, <4>1, <4>2
    <3>3. ASSUME NEW i \in 1 .. Len(net'[p][y]), i <= k
          PROVE  i \in 1 .. Len(net[p][y]) /\ net'[p][y][i] = net[p][y][i] /\ net[p][y][i] \in Message
      <4>1. i \in 1 .. k + Len(out[y])
        BY <3>1
      <4>2. i \in 1 .. k
        <5> HIDE DEF k
        <5> QED BY <3>1, <3>3, <4>1
      <4>3. net'[p][y][i] = net[p][y][i]
        <5> HIDE DEF k
        <5> QED BY <3>1, <3>3, <4>1
      <4> QED BY <4>2, <4>3, <1>1, <2>1
    <3>4. \A i \in 1 .. Len(net'[p][y]) : MsgOK(g, p, y, net[p][y][i])' /\ SyncTargetOK(g, y, net[p][y][i])'
      <4> TAKE i \in 1 .. Len(net'[p][y])
      <4>1. CASE i <= k
        <5>1. PICK m \in Message : m = net[p][y][i] /\ m = net'[p][y][i] /\ i \in 1 .. Len(net[p][y])
          BY <3>3, <4>1
        <5>2. MsgOK(g, p, y, m)' /\ SyncTargetOK(g, y, m)'
          BY <5>1, <2>1, <1>2
        <5> QED BY <5>1, <5>2
      <4>2. CASE ~ (i <= k)
        <5>1. PICK m \in Message : m = out[y][i - k] /\ m = net'[p][y][i] /\ i - k \in 1 .. Len(out[y])
          BY <3>2, <4>2
        <5>2. MsgOK(g, p, y, m)' /\ (m.type = "AcceptSync" => SyncTargetOK(g, y, m)')
          BY <5>1 DEF SendsOK
        <5>3. SyncTargetOK(g, y, m)'
          BY <5>2 DEF SyncTargetOK
        <5> QED BY <5>1, <5>2, <5>3
      <4> QED BY <4>1, <4>2
    <3>5. \A i, j \in 1 .. Len(net'[p][y]) : i < j => OrderOK(g, y, net[p][y][i], net[p][y][j])'
      <4> SUFFICES ASSUME NEW i \in 1 .. Len(net'[p][y]), NEW j \in 1 .. Len(net'[p][y]), i < j
                   PROVE  OrderOK(g, y, net[p][y][i], net[p][y][j])'
        OBVIOUS
      <4>1. i \in Nat /\ j \in Nat
        BY <3>1
      <4>2. CASE j <= k
        <5>1. PICK a \in Message : a = net[p][y][i] /\ a = net'[p][y][i] /\ i \in 1 .. Len(net[p][y])
          <6>1. i <= k
            <7> HIDE DEF k
            <7> QED BY <3>1, <4>1, <4>2
          <6> QED BY <6>1, <3>3
        <5>2. PICK b \in Message : b = net[p][y][j] /\ b = net'[p][y][j] /\ j \in 1 .. Len(net[p][y])
          BY <3>3, <4>2
        <5>3. OrderOK(g, y, a, b)'
          BY <5>1, <5>2, <1>3
        <5> QED BY <5>1, <5>2, <5>3
      <4>3. CASE ~ (j <= k)
        <5>1. PICK b \in Message : b = out[y][j - k] /\ b = net'[p][y][j] /\ j - k \in 1 .. Len(out[y])
          BY <3>2, <4>3
        <5>2. CASE b.type # "AcceptSync"
          BY <5>1, <5>2 DEF OrderOK
        <5>3. CASE b.type = "AcceptSync"
          <6>1. Len(out[y]) = 1
            BY <5>1, <5>3 DEF SendsOK
          <6>2. i <= k
            BY <6>1, <5>1, <3>1, <4>1
          <6>3. PICK a \in Message : a = net[p][y][i] /\ a = net'[p][y][i] /\ i \in 1 .. Len(net[p][y])
            BY <3>3, <6>2
          <6>4. OrderOK(g, y, a, b)'
            BY <5>1, <5>3, <6>3 DEF SendsOK
          <6> QED BY <5>1, <6>3, <6>4
        <5> QED BY <5>2, <5>3
      <4> QED BY <4>2, <4>3
    <3> QED BY <3>4, <3>5
  <2> QED BY <2>2, <2>3 DEF Delivers
<1>6. \A x \in Server : x = p \/ x \in Peers(p)
  BY DEF Peers
<1>7. MessageInv(g)'
  BY <1>4, <1>5, <1>6 DEF MessageInv
<1>8. OrderInv(g)'
  BY <1>4, <1>5, <1>6 DEF OrderInv
<1> QED BY <1>7, <1>8

------------------------------------------------------------------------------
(* The invariant is kept if p keeps its part of it *)

\* The history need not go on.
LEMMA HistoryStays ==
  ASSUME TypeOK, NEW p \in Server, NEW h, Explains(h)
  PROVE  Grows(p, h, h) /\ Accepts(p, h, h) /\ Founds(h, h)
<1>1. storage[p].promise \in Ballot /\ h \in History
  BY StorageFields DEF TypeOK, Explains
<1>2. h.rlog[storage[p].promise] \in Entries /\ h.acc[p][storage[p].promise] \in Nat
  BY <1>1, HistoryFields
<1>3. Grows(p, h, h)
  BY <1>1, <1>2, ExtendsSelf DEF Grows
<1>4. Accepts(p, h, h)
  BY <1>1 DEF Accepts, Written, Explains, VoteInv
<1> QED BY <1>3, <1>4 DEF Founds

\* An AcceptSync that p has not handled fits as before if p accepts nothing
\* new, and there is none if p leads or promised another round.
LEMMA ReceivesKept ==
  ASSUME NEW p \in Server, NEW h, NEW g, Step(p, h, g), NEW out, Delivers(p, out),
         \/ storage'[p].promise # storage[p].promise
         \/ storage[p].promise.pid = p
         \/ /\ storage'[p].accepted_round = storage[p].accepted_round
            /\ storage[p].accepted_idx <= storage'[p].accepted_idx
            /\ storage'[p].accepted_idx + Len(storage'[p].batched_entries)
                 <= storage[p].accepted_idx + Len(storage[p].batched_entries)
  PROVE  ReceivesOK(p, g)
<1> SUFFICES ASSUME NEW x \in Peers(p), NEW i \in 1 .. Len(net'[x][p])
             PROVE  SyncTargetOK(g, p, net[x][p][i])'
  BY DEF ReceivesOK
<1>1. x \in Server /\ x # p /\ p \in Peers(x)
  BY DEF Peers
<1>2. Inv /\ TypeOK /\ MessageInv(h) /\ Plain
  BY StepFacts DEF Step, Explains
<1>3. net[x][p] \in Seq(Message) /\ Shortened(net[x][p], net'[x][p])
  BY <1>1, <1>2 DEF TypeOK, Delivers
<1>4. PICK j \in 1 .. Len(net[x][p]) : net'[x][p][i] = net[x][p][j]
  <2> DEFINE a == net[x][p]
             b == net'[x][p]
  <2>1. a \in Seq(Message) /\ Shortened(a, b) /\ i \in 1 .. Len(b)
    BY <1>3
  <2> HIDE DEF a, b
  <2>2. \E k \in Nat : i + k \in 1 .. Len(a) /\ b[i] = a[i + k]
    BY <2>1, ShortenedChannel
  <2>3. \E j \in 1 .. Len(a) : b[i] = a[j]
    BY <2>2
  <2> QED BY <2>3 DEF a, b
<1>5. PICK m \in Message : m = net'[x][p][i] /\ m = net[x][p][j]
  BY <1>3, <1>4, ElementOfSeq
<1>6. MsgOK(h, x, p, m) /\ SyncTargetOK(h, p, m)
  BY <1>1, <1>2, <1>5 DEF MessageInv
<1> SUFFICES ASSUME m.type = "AcceptSync", m.n = storage'[p].promise PROVE TargetOK(g, storage'[p], m)
  BY <1>5 DEF SyncTargetOK
<1>7. m.type \in AcceptTypes /\ m.n \in Ballot /\ AcceptMsgOK(h, x, p, m)
  BY <1>2, <1>6, AcceptFields DEF AcceptTypes, MsgOK
<1>8. m.n \preceq storage[p].promise
  <2>1. m \in Sendable(x, storage[x], p)
    BY <1>1, <1>2, <1>5, ElementOfSeq DEF Inv, ChannelInv
  <2> QED BY <2>1, <1>1, <1>2, <1>7 DEF Sendable, Plain, Broadcast
<1>9. m.n = storage[p].promise
  BY <1>7, <1>8, StepFacts, BallotAsymmetric DEF \preceq
<1>10. /\ storage'[p].accepted_round = storage[p].accepted_round
       /\ storage[p].accepted_idx <= storage'[p].accepted_idx
       /\ storage'[p].accepted_idx + Len(storage'[p].batched_entries)
            <= storage[p].accepted_idx + Len(storage[p].batched_entries)
  BY <1>1, <1>7, <1>9 DEF AcceptMsgOK
<1>11. TargetOK(g, storage[p], m)
  BY <1>6, <1>9, StepFacts, TargetKept DEF SyncTargetOK
<1>12. /\ storage[p].accepted_idx \in Nat /\ storage'[p].accepted_idx \in Nat
       /\ Len(storage[p].batched_entries) \in Nat /\ Len(storage'[p].batched_entries) \in Nat
       /\ m.log_sync.sync_idx \in Nat /\ Len(m.log_sync.suffix) \in Nat
  BY <1>2, <1>7, StepFacts, StorageFields, AcceptFields
<1> DEFINE s == storage[p]
           t == storage'[p]
           sync == m.log_sync
           k == sync.sync_idx + Len(sync.suffix)
<1>13. /\ sync.sync_idx <= t.accepted_idx
       /\ s.accepted_round = m.n => t.accepted_idx + Len(t.batched_entries) <= k
  <2>1. k \in Nat
    BY SMTT(30), <1>12
  <2>2. sync.sync_idx <= s.accepted_idx
    BY <1>11 DEF TargetOK
  <2>3. s.accepted_round = m.n => s.accepted_idx + Len(s.batched_entries) <= k
    BY <1>11 DEF TargetOK
  <2> HIDE DEF k
  <2>4. sync.sync_idx <= t.accepted_idx
    BY <1>10, <1>12, <2>2
  <2>5. s.accepted_round = m.n => t.accepted_idx + Len(t.batched_entries) <= k
    <3> DEFINE a == s.accepted_idx + Len(s.batched_entries)
               b == t.accepted_idx + Len(t.batched_entries)
    <3>1. a \in Nat /\ b \in Nat /\ b <= a
      <4>1. b <= a
        BY <1>10, Zenon
      <4>2. a \in Nat
        <5> HIDE DEF s
        <5> QED BY <1>12 DEF s
      <4>3. b \in Nat
        BY <1>12
      <4> QED BY <4>1, <4>2, <4>3
    <3>2. s.accepted_round = m.n => a <= k
      BY <2>3
    <3> HIDE DEF a, b, s, t
    <3>3. s.accepted_round = m.n => b <= k
      BY <3>1, <3>2, <2>1
    <3> QED BY <3>3 DEF b
  <2> QED BY <2>4, <2>5
<1>14. t.accepted_round = s.accepted_round
  BY <1>10
<1> HIDE DEF t
<1>15. TargetOK(g, t, m)
  BY <1>11, <1>13, <1>14 DEF TargetOK
<1> QED BY <1>15 DEF t

\* The promise kept to be sent again stays good.
LEMMA KeptPromiseKept ==
  ASSUME NEW p \in Server, NEW h, NEW g, Step(p, h, g), NEW q \in Server,
         follower_state'[q].cached_promise_message = follower_state[q].cached_promise_message
  PROVE  KeptPromiseOK(g, q)'
<1>1. KeptPromiseOK(h, q) /\ TypeOK
  BY StepFacts DEF Step, Explains, KeptPromiseInv
<1> SUFFICES ASSUME follower_state[q].cached_promise_message # None
             PROVE  KeptPromiseOK(g, q)'
  BY DEF KeptPromiseOK
<1>2. PICK m \in PromiseMessage : m = follower_state[q].cached_promise_message
  BY <1>1 DEF TypeOK, FollowerState
<1>3. m.n.pid \in Server /\ PromiseOK(h, q, m.n.pid, m)
  BY <1>1, <1>2 DEF KeptPromiseOK
<1>4. PICK y \in Server : y = m.n.pid
  BY <1>3
<1>5. PromiseOK(g, q, y, m)'
  BY <1>3, <1>4, PromiseKept
<1> QED BY <1>2, <1>3, <1>4, <1>5 DEF KeptPromiseOK

\* The history g explains the state that a step of p leads to.
LEMMA StepExplained ==
  ASSUME NEW p \in Server, NEW h, NEW g, Step(p, h, g), Accepts(p, h, g), Founds(h, g),
         outgoing' = [q \in Server |-> NoMessages],
         NEW out, Delivers(p, out), SendsOK(p, g, out), ReceivesOK(p, g),
         LogOK(g, p, storage'[p]), BatchOK(g, p, storage'[p]),
         KeptPromiseOK(g, p)', CountsOK(g, leader_state[p])', LeadingOK(g, p)', FollowingOK(g, p)'
  PROVE  Succeeds(h, g)
<1>1. RoundInv(g)' /\ VoteInv(g)' /\ ChoiceInv(g)'
  BY RoundsKept
<1>2. MessageInv(g)' /\ OrderInv(g)'
  BY MessagesKept
<1>3. /\ Explains(h) /\ Moves(p) /\ TypeOK /\ g \in History /\ Grows(p, h, g)
      /\ \A q \in Server : q # p => q \in Peers(p) /\ Same(q)
  BY StepFacts DEF Step, Moves, Peers
<1>4. LogInv(g)'
  <2> SUFFICES ASSUME NEW q \in Server, q # p
               PROVE  LogOK(g, q, storage'[q]) /\ BatchOK(g, q, storage'[q])
    BY DEF LogInv, LogOK, BatchOK, DecidedIn, HeldByAll, Chosen, Voters
  <2>1. storage'[q] = storage[q] /\ storage[q] \in Storage /\ storage[q].accepted_round \in Ballot
    BY <1>3, StepFacts, StorageFields DEF Same
  <2>2. LogOK(h, q, storage[q]) /\ BatchOK(h, q, storage[q])
    BY <1>3 DEF Explains, LogInv
  <2>3. /\ g.acc[q][storage[q].accepted_round] = h.acc[q][storage[q].accepted_round]
        /\ storage[q].accepted_round.pid = q => g.rlog[storage[q].accepted_round] = h.rlog[storage[q].accepted_round]
    BY <1>3, <2>1 DEF Grows
  <2> QED BY <2>1, <2>2, <2>3, LogKept
<1>5. KeptPromiseInv(g)'
  <2> SUFFICES ASSUME NEW q \in Server, q # p PROVE KeptPromiseOK(g, q)'
    BY DEF KeptPromiseInv
  <2> QED BY <1>3, KeptPromiseKept DEF Same
<1>6. CountsInv(g)'
  <2> SUFFICES ASSUME NEW q \in Server, q # p PROVE CountsOK(g, leader_state[q])'
    BY DEF CountsInv
  <2>1. PICK l \in LeaderStates : l = leader_state[q] /\ l = leader_state'[q]
    BY <1>3 DEF TypeOK, Same
  <2>2. CountsOK(h, l)
    BY <2>1, <1>3 DEF Explains, CountsInv
  <2>3. CountsOK(g, l)'
    BY <2>2, CountsKept
  <2> QED BY <2>1, <2>3
<1>7. LeaderInv(g)'
  <2> SUFFICES ASSUME NEW q \in Server, q # p PROVE LeadingOK(g, q)'
    BY DEF LeaderInv
  <2> QED BY <1>3, LeadingKept DEF Explains, LeaderInv
<1>8. FollowerInv(g)'
  <2> SUFFICES ASSUME NEW q \in Server, q # p PROVE FollowingOK(g, q)'
    BY DEF FollowerInv
  <2> QED BY <1>3, FollowingKept DEF Explains, FollowerInv
<1>9. Plain'
  BY <1>3 DEF Explains, Plain
<1>10. Later(h, g)
  <2>1. ASSUME NEW r \in Ballot
        PROVE  Extends(h.rlog[r], g.rlog[r]) /\ Written(h, g, r)
    <3>1. Extends(h.rlog[r], g.rlog[r])
      BY StepGrows
    <3>2. g.rlog[r] # h.rlog[r] => r = storage[p].promise /\ r.pid = p
      BY <1>3 DEF Grows
    <3>3. r = storage[p].promise /\ r.pid = p => Written(h, g, r)
      BY DEF Accepts
    <3> QED BY <3>1, <3>2, <3>3 DEF Written
  <2> QED BY <2>1, StepGrows DEF Later, Founds
<1> QED BY <1>1, <1>2, <1>3, <1>4, <1>5, <1>6, <1>7, <1>8, <1>9, <1>10 DEF Succeeds, Explains

------------------------------------------------------------------------------
(* Steps and what they send *)

\* A message for y as the history g tells; an AcceptSync fits behind what y has
\* accepted and what is on its way.
FreshOK(p, g, y, m) ==
  /\ MsgOK(g, p, y, m)'
  /\ m.type = "AcceptSync" =>
       /\ SyncTargetOK(g, y, m)'
       /\ \A j \in 1 .. Len(net[p][y]) : \A a \in Message : a = net[p][y][j] => OrderOK(g, y, a, m)'

\* What a call sends to each server is nothing, or one message that is as g tells.
Fresh(p, g, out) ==
  \A y \in Peers(p) : \/ out[y] = << >>
                      \/ \E m \in Message : out[y] = << m >> /\ FreshOK(p, g, y, m)

\* Such messages are as g tells.
LEMMA SendsOne ==
  ASSUME NEW p \in Server, NEW g, NEW out, Fresh(p, g, out)
  PROVE  SendsOK(p, g, out) /\ \A y \in Peers(p) : out[y] \in Seq(Message)
<1> SUFFICES ASSUME NEW y \in Peers(p)
             PROVE  /\ out[y] \in Seq(Message)
                    /\ \A i \in 1 .. Len(out[y]) : \A m \in Message :
                         m = out[y][i] => FreshOK(p, g, y, m) /\ Len(out[y]) = 1
  BY DEF SendsOK, FreshOK
<1>1. CASE out[y] = << >>
  BY <1>1, EmptySeq
<1>2. CASE \E m \in Message : out[y] = << m >> /\ FreshOK(p, g, y, m)
  <2>1. PICK m \in Message : out[y] = << m >> /\ FreshOK(p, g, y, m)
    BY <1>2
  <2>2. << m >> \in Seq(Message) /\ Len(<< m >>) = 1 /\ << m >>[1] = m
    OBVIOUS
  <2>3. \A i \in 1 .. Len(out[y]) : out[y][i] = m
    BY <2>1, <2>2
  <2> QED BY <2>1, <2>2, <2>3
<1> QED BY <1>1, <1>2 DEF Fresh

\* The messages out of p enter the network behind what is there.
Reaches(p, out) ==
  /\ \A x \in Peers(p) : \A y \in Server : Shortened(net[x][y], net'[x][y])
  /\ \A y \in Peers(p) : net'[p][y] \in {net[p][y], net[p][y] \o out[y]}

\* So do those of a call.
LEMMA CallReaches ==
  ASSUME TypeOK, NEW h, Explains(h), NEW p \in Server, NEW out,
         \/ EndCall(p, out, net)
         \/ \E q \in Peers(p) : net[q][p] # << >> /\ EndCall(p, out, Consume(p, q))
  PROVE  Reaches(p, out) /\ outgoing' = [q \in Server |-> NoMessages]
<1>1. EagerTake /\ outgoing = [q \in Server |-> NoMessages] /\ net \in [Server -> [Server -> Seq(Message)]]
  BY DEF Explains, Plain, TypeOK
<1>2. PICK chan : /\ chan = net \/ \E q \in Peers(p) : net[q][p] # << >> /\ chan = Consume(p, q)
                  /\ EndCall(p, out, chan)
  OBVIOUS
<1>3. outgoing' = outgoing /\ net' = Transmit(chan, p, out)
  BY <1>1, <1>2 DEF EndCall
<1>4. /\ chan \in [Server -> [Server -> Seq(Message)]]
      /\ \A x, y \in Server : Shortened(net[x][y], chan[x][y])
      /\ chan[p] = net[p]
  <2>1. CASE chan = net
    BY <2>1, <1>1 DEF Shortened
  <2>2. ASSUME NEW q \in Peers(p), net[q][p] # << >>, chan = Consume(p, q)
        PROVE  /\ chan \in [Server -> [Server -> Seq(Message)]]
               /\ \A x, y \in Server : Shortened(net[x][y], chan[x][y])
               /\ chan[p] = net[p]
    <3> DEFINE t == Tail(net[q][p])
    <3>1. q \in Server /\ q # p /\ t \in Seq(Message)
      BY <2>2, <1>1, HeadTailProperties DEF Peers
    <3>2. chan = [net EXCEPT ![q][p] = t]
      BY <2>2 DEF Consume
    <3> HIDE DEF t
    <3>3. /\ chan \in [Server -> [Server -> Seq(Message)]]
          /\ chan[p] = net[p]
          /\ \A x, y \in Server : chan[x][y] = IF x = q /\ y = p THEN t ELSE net[x][y]
      BY <3>1, <3>2, <1>1
    <3> QED BY <3>3, <2>2 DEF Shortened, t
  <2> QED BY <1>2, <2>1, <2>2
<1>5. \A x, y \in Server :
        net'[x][y] = IF x = p /\ << p, y >> \in Links THEN chan[p][y] \o out[y] ELSE chan[x][y]
  <2>1. net' = [chan EXCEPT ![p] = [q \in Server |->
                  IF << p, q >> \in Links THEN chan[p][q] \o out[q] ELSE chan[p][q]]]
    BY <1>3, <1>4 DEF Transmit
  <2> QED BY <2>1, <1>4
<1>6. Reaches(p, out)
  <2>1. \A x \in Peers(p) : \A y \in Server : Shortened(net[x][y], net'[x][y])
    BY <1>4, <1>5 DEF Peers
  <2>2. \A y \in Peers(p) : net'[p][y] \in {net[p][y], net[p][y] \o out[y]}
    BY <1>4, <1>5 DEF Peers
  <2> QED BY <2>1, <2>2 DEF Reaches
<1> QED BY <1>1, <1>3, <1>6

\* What a call sends enters the network behind what is there.
LEMMA CallDelivers ==
  ASSUME TypeOK, NEW h, Explains(h), NEW p \in Server, NEW out,
         \A y \in Peers(p) : out[y] \in Seq(Message),
         \/ EndCall(p, out, net)
         \/ \E q \in Peers(p) : net[q][p] # << >> /\ EndCall(p, out, Consume(p, q))
  PROVE  Delivers(p, out) /\ outgoing' = [q \in Server |-> NoMessages]
<1>1. Reaches(p, out) /\ outgoing' = [q \in Server |-> NoMessages]
  BY CallReaches
<1> QED BY <1>1 DEF Reaches, Delivers

\* A message is lost, ignored, or makes the server panic.
LEMMA ConsumeDelivers ==
  ASSUME TypeOK, NEW p \in Server, NEW q \in Peers(p), net[q][p] # << >>, net' = Consume(p, q),
         NEW out, \A y \in Peers(p) : out[y] \in Seq(Message)
  PROVE  Delivers(p, out)
<1> DEFINE t == Tail(net[q][p])
<1>1. q \in Server /\ q # p /\ t \in Seq(Message) /\ net \in [Server -> [Server -> Seq(Message)]]
  BY HeadTailProperties DEF TypeOK, Peers
<1>2. net' = [net EXCEPT ![q][p] = t]
  BY DEF Consume
<1> HIDE DEF t
<1>3. \A x, y \in Server : net'[x][y] = IF x = q /\ y = p THEN t ELSE net[x][y]
  BY SMTT(30), <1>1, <1>2
<1>4. \A x \in Peers(p) : \A y \in Server : Shortened(net[x][y], net'[x][y])
  BY <1>3 DEF Shortened, t, Peers
<1>5. \A y \in Peers(p) : net'[p][y] = net[p][y]
  BY <1>1, <1>3 DEF Peers
<1> QED BY <1>4, <1>5 DEF Delivers

\* Before the call no message waits.
LEMMA NothingWaits ==
  ASSUME NEW h, Explains(h), NEW p \in Server
  PROVE  /\ outgoing[p] = NoMessages
         /\ \A y \in Server : NoMessages[y] = << >>
         /\ \A q, m : \A y \in Server : send(NoMessages, q, m)[y] = IF y = q THEN << m >> ELSE << >>
         /\ \A msgs : \A y \in Server : push(NoMessages, msgs)[y] = IF y \in DOMAIN msgs THEN << msgs[y] >> ELSE << >>
<1>1. outgoing[p] = NoMessages /\ \A y \in Server : NoMessages[y] = << >>
  BY DEF Explains, NoMessages
<1>2. \A m : Append(<< >>, m) = << m >>
  OBVIOUS
<1>3. ASSUME NEW q, NEW m, NEW y \in Server
      PROVE  send(NoMessages, q, m)[y] = IF y = q THEN << m >> ELSE << >>
  <2>1. send(NoMessages, q, m) = [r \in Server |-> IF r = q THEN Append(NoMessages[r], m) ELSE NoMessages[r]]
    BY DEF send, NoMessages
  <2> QED BY <2>1, <1>1, <1>2
<1>4. ASSUME NEW msgs, NEW y \in Server
      PROVE  push(NoMessages, msgs)[y] = IF y \in DOMAIN msgs THEN << msgs[y] >> ELSE << >>
  BY <1>1, <1>2 DEF push
<1> QED BY <1>1, <1>3, <1>4

\* The round that a follower accepts in.
LEMMA FollowedRound ==
  ASSUME Inv, NEW h, Explains(h), NEW q \in Server, q \notin panicked, state[q] = << "Follower", "Accept" >>
  PROVE  LET n == storage[q].promise
             sn == follower_state[q].current_seq_num
         IN  /\ n \in h.est /\ n \in Ballot /\ n.pid \in Server /\ n.pid # q
             /\ sn \in SequenceNumber /\ Sent(n.pid, n, q, sn)
             /\ FollowsOK(h, q, storage[q], follower_state[q])
<1> DEFINE n == storage[q].promise
<1>1. FollowsOK(h, q, storage[q], follower_state[q]) /\ Sent(n.pid, n, q, follower_state[q].current_seq_num)
  BY DEF Explains, FollowerInv, FollowingOK
<1>2. n.pid \in Server /\ n \in Ballot /\ follower_state[q].current_seq_num \in SequenceNumber
  BY StorageFields DEF Inv, RoleInv, RoleOK, TypeOK, FollowerState
<1>3. n \in h.est \cup {DefaultBallot} /\ n.pid # q
  BY <1>1 DEF FollowsOK, Explains, LogInv, LogOK
<1>4. DefaultBallot.pid \notin Server
  BY ServerAssumption DEF DefaultBallot
<1> QED BY <1>1, <1>2, <1>3, <1>4

------------------------------------------------------------------------------
(* Calls that store nothing *)

\* A call of p from a state that h explains.
Call(p, h) ==
  /\ Inv /\ Inv' /\ RoundsStep
  /\ Explains(h)
  /\ outgoing' = [q \in Server |-> NoMessages]
  /\ \A q \in Peers(p) : Same(q)

\* The storage and the bookkeeping of p stay; p may begin to recover.
Quiet(p) ==
  /\ storage'[p] = storage[p] /\ leader_state'[p] = leader_state[p]
  /\ follower_state'[p] = follower_state[p]
  /\ state'[p] \in {state[p], << "Follower", "Recover" >>}
  /\ p \notin panicked' => p \notin panicked

\* Such a call is a step that leaves the history as it is.
LEMMA QuietStep ==
  ASSUME NEW p \in Server, NEW h, Call(p, h), Quiet(p)
  PROVE  Step(p, h, h)
<1>1. TypeOK /\ Explains(h) /\ leader_state[p] \in LeaderStates
  BY DEF Call, Inv, TypeOK
<1>2. Grows(p, h, h)
  BY <1>1, HistoryStays
<1>3. /\ \A n \in Ballot : Leads(p, n)' => Leads(p, n)
      /\ \A n \in Ballot : Prepares(p, n)' => Prepares(p, n)
      /\ \A q \in Server : leader_state[p].follower_seq_nums[q] \in SequenceNumber
  BY <1>1, LeaderFields, ServersHaveSlots DEF Quiet, Leads, Prepares
<1>4. Moves(p)
  BY <1>3, SeqNumReflexive DEF Call, Quiet, Moves
<1> QED BY <1>2, <1>4 DEF Step, Call

\* The same history explains the state that follows.
LEMMA QuietExplained ==
  ASSUME NEW p \in Server, NEW h, Call(p, h), Quiet(p),
         NEW out, Delivers(p, out), SendsOK(p, h, out)
  PROVE  Succeeds(h, h)
<1>1. /\ TypeOK /\ TypeOK' /\ Explains(h) /\ Inv /\ RoundsStep /\ h \in History
      /\ storage[p] \in Storage /\ leader_state[p] \in LeaderStates
      /\ LogOK(h, p, storage[p]) /\ BatchOK(h, p, storage[p])
      /\ CountsOK(h, leader_state[p]) /\ LeadingOK(h, p) /\ FollowingOK(h, p)
  BY DEF Call, Explains, Inv, TypeOK, LogInv, CountsInv, LeaderInv, FollowerInv
<1>2. Accepts(p, h, h) /\ Founds(h, h)
  BY <1>1, HistoryStays
<1>5. Step(p, h, h)
  BY QuietStep
<1>6. ReceivesOK(p, h)
  <2>1. storage[p].accepted_idx \in Nat /\ Len(storage[p].batched_entries) \in Nat
    BY <1>1, StorageFields
  <2>2. /\ storage'[p].accepted_round = storage[p].accepted_round
        /\ storage[p].accepted_idx <= storage'[p].accepted_idx
        /\ storage'[p].accepted_idx + Len(storage'[p].batched_entries)
             <= storage[p].accepted_idx + Len(storage[p].batched_entries)
    BY <2>1 DEF Quiet
  <2> QED BY <1>5, <2>2, ReceivesKept
<1>7. LogOK(h, p, storage'[p]) /\ BatchOK(h, p, storage'[p])
  BY <1>1 DEF Quiet
<1>8. KeptPromiseOK(h, p)'
  BY <1>5, KeptPromiseKept DEF Quiet
<1>9. CountsOK(h, leader_state[p])'
  <2>1. PICK l \in LeaderStates : l = leader_state[p]
    BY <1>1
  <2>2. CountsOK(h, l)'
    BY <2>1, <1>1, <1>5, CountsKept
  <2>3. l = leader_state'[p]
    BY <2>1 DEF Quiet
  <2> QED BY <2>2, <2>3
<1>10. LeadingOK(h, p)'
  BY <1>1 DEF Quiet, LeadingOK
<1>11. FollowingOK(h, p)'
  <2>1. ASSUME p \notin panicked', state'[p] = << "Follower", "Accept" >>
        PROVE  /\ FollowsOK(h, p, storage'[p], follower_state'[p])
               /\ Sent(storage[p].promise.pid, storage[p].promise, p, follower_state[p].current_seq_num)'
    <3>1. p \notin panicked /\ state[p] = << "Follower", "Accept" >>
      BY <2>1 DEF Quiet
    <3> DEFINE n == storage[p].promise
               sn == follower_state[p].current_seq_num
    <3>2. /\ n \in h.est /\ n.pid \in Server /\ sn \in SequenceNumber /\ Sent(n.pid, n, p, sn)
          /\ FollowsOK(h, p, storage[p], follower_state[p])
      BY <1>1, <3>1, FollowedRound
    <3>3. PICK k \in h.est, x \in Server, c \in SequenceNumber : k = n /\ x = n.pid /\ c = sn
      BY <3>2
    <3>4. Sent(x, k, p, c)'
      BY <1>5, <3>2, <3>3, SentKept
    <3>5. k = storage'[p].promise /\ x = storage'[p].promise.pid /\ c = follower_state'[p].current_seq_num
      BY <3>3 DEF Quiet
    <3> QED BY <3>2, <3>4, <3>5 DEF Quiet
  <2> QED BY <2>1, <1>1 DEF FollowingOK, Quiet
<1>12. outgoing' = [q \in Server |-> NoMessages]
  BY DEF Call
<1> QED BY <1>2, <1>5, <1>6, <1>7, <1>8, <1>9, <1>10, <1>11, <1>12, StepExplained

\* A state that h explains, and the next one.
From(h) == Inv /\ Inv' /\ RoundsStep /\ Explains(h)

\* A call ends with the messages out, having handled one or not.
Ended(p, out) ==
  \/ EndCall(p, out, net)
  \/ \E q \in Peers(p) : net[q][p] # << >> /\ EndCall(p, out, Consume(p, q))

\* A call that ends so is one that the lemmas above are about.
LEMMA CallEnds ==
  ASSUME NEW p \in Server, NEW h, From(h), NEW g, NEW out, Fresh(p, g, out), Ended(p, out)
  PROVE  Delivers(p, out) /\ SendsOK(p, g, out) /\ outgoing' = [q \in Server |-> NoMessages]
<1>1. SendsOK(p, g, out) /\ \A y \in Peers(p) : out[y] \in Seq(Message)
  BY SendsOne
<1>2. TypeOK /\ Explains(h)
  BY DEF From, Inv
<1> QED BY <1>1, <1>2, CallDelivers DEF Ended

\* Messages that bring nothing into a log are always fine.
LEMMA HarmlessFresh ==
  ASSUME NEW p, NEW g, NEW y, NEW m,
         m.type \in {"PrepareReq", "NotAccepted", "ProposalForward", "ForwardStopSign"}
  PROVE  FreshOK(p, g, y, m)
BY DEF FreshOK, MsgOK, AcceptTypes

\* The call leaves p with the storage s, the state st and the bookkeeping l and f.
Updates(p, s, st, l, f) ==
  /\ storage' = [storage EXCEPT ![p] = s]
  /\ state' = [state EXCEPT ![p] = st]
  /\ leader_state' = [leader_state EXCEPT ![p] = l]
  /\ follower_state' = [follower_state EXCEPT ![p] = f]

\* The others have no part in it.
LEMMA OthersSame ==
  ASSUME TypeOK, NEW p \in Server, NEW s, NEW st, NEW l, NEW f, Updates(p, s, st, l, f),
         panicked' \ {p} = panicked \ {p}
  PROVE  /\ \A q \in Peers(p) : Same(q)
         /\ storage'[p] = s /\ state'[p] = st /\ leader_state'[p] = l /\ follower_state'[p] = f
BY DEF Peers, TypeOK, Same, Updates

\* A variable that stays.
LEMMA Unchanged ==
  ASSUME TypeOK, NEW p \in Server
  PROVE  /\ storage = [storage EXCEPT ![p] = storage[p]]
         /\ state = [state EXCEPT ![p] = state[p]]
         /\ leader_state = [leader_state EXCEPT ![p] = leader_state[p]]
         /\ follower_state = [follower_state EXCEPT ![p] = follower_state[p]]
BY DEF TypeOK

\* What the invariant says of a server before the step.
LEMMA FromFacts ==
  ASSUME NEW h, From(h), NEW p \in Server
  PROVE  /\ TypeOK /\ Inv /\ Explains(h) /\ h \in History /\ Plain
         /\ storage[p] \in Storage /\ StorageOK(storage[p]) /\ storage[p].promise \in Ballot
         /\ leader_state[p] \in LeaderStates /\ follower_state[p] \in FollowerState
         /\ outgoing[p] = NoMessages
         /\ RoundInv(h) /\ VoteInv(h) /\ ChoiceInv(h)
         /\ LogOK(h, p, storage[p]) /\ BatchOK(h, p, storage[p])
         /\ KeptPromiseOK(h, p) /\ CountsOK(h, leader_state[p])
         /\ LeadingOK(h, p) /\ FollowingOK(h, p)
         /\ \A r \in Slots : leader_state[p].latest_accept_meta[r] = 0
<1>1. TypeOK /\ Inv /\ Explains(h)
  BY DEF From, Inv
<1>2. /\ h \in History /\ Plain /\ RoundInv(h) /\ VoteInv(h) /\ ChoiceInv(h) /\ LogInv(h)
      /\ KeptPromiseInv(h) /\ CountsInv(h) /\ LeaderInv(h) /\ FollowerInv(h)
  BY <1>1 DEF Explains
<1>3. /\ storage[p] \in Storage /\ leader_state[p] \in LeaderStates /\ follower_state[p] \in FollowerState
  BY <1>1 DEF TypeOK
<1>4. /\ LogOK(h, p, storage[p]) /\ BatchOK(h, p, storage[p])
      /\ KeptPromiseOK(h, p) /\ CountsOK(h, leader_state[p]) /\ LeadingOK(h, p) /\ FollowingOK(h, p)
  BY <1>2 DEF LogInv, KeptPromiseInv, CountsInv, LeaderInv, FollowerInv
<1>5. StorageOK(storage[p])
  BY <1>1 DEF Inv, StorageInv
<1>6. \A r \in Slots : leader_state[p].latest_accept_meta[r] = 0
  BY <1>4 DEF CountsOK
<1>7. outgoing[p] = NoMessages
  BY <1>1, NothingWaits
<1>8. storage[p].promise \in Ballot
  BY <1>3, StorageFields
<1> QED BY <1>1, <1>2, <1>3, <1>4, <1>5, <1>6, <1>7, <1>8

\* A call that changes the phase of p at most and sends fine messages.
LEMMA QuietCall ==
  ASSUME NEW p \in Server, NEW h, From(h), UNCHANGED << storage, leader_state, follower_state, panicked >>,
         state' = state \/ state' = [state EXCEPT ![p] = << "Follower", "Recover" >>],
         NEW out, Fresh(p, h, out), Ended(p, out)
  PROVE  Succeeds(h, h)
<1>1. TypeOK
  BY DEF From, Inv
<1>2. Delivers(p, out) /\ SendsOK(p, h, out) /\ outgoing' = [q \in Server |-> NoMessages]
  BY CallEnds
<1>3. PICK st : st \in {state[p], << "Follower", "Recover" >>} /\ state' = [state EXCEPT ![p] = st]
  BY <1>1, Unchanged
<1>4. (\A q \in Peers(p) : Same(q)) /\ state'[p] = st
  <2>1. Updates(p, storage[p], st, leader_state[p], follower_state[p])
    BY <1>1, <1>3, Unchanged DEF Updates
  <2> QED BY <1>1, <2>1, OthersSame
<1>5. Call(p, h) /\ Quiet(p)
  BY <1>2, <1>3, <1>4 DEF Call, Quiet, From
<1> QED BY <1>2, <1>5, QuietExplained

\* A message is lost or ignored, or its handler panics before it stores anything.
LEMMA ConsumeExplained ==
  ASSUME NEW p \in Server, NEW q \in Peers(p), NEW h, From(h), net[q][p] # << >>, net' = Consume(p, q),
         UNCHANGED << storage, state, leader_state, follower_state, outgoing >>,
         panicked' = panicked \/ panicked' = panicked \cup {p}
  PROVE  Succeeds(h, h)
<1> DEFINE out == NoMessages
<1>1. TypeOK /\ Explains(h)
  BY DEF From, Inv
<1>2. \A y \in Peers(p) : out[y] = << >>
  BY DEF NoMessages, Peers
<1> HIDE DEF out
<1>3. SendsOK(p, h, out) /\ \A y \in Peers(p) : out[y] \in Seq(Message)
  <2>1. Fresh(p, h, out)
    BY <1>2 DEF Fresh
  <2> QED BY <2>1, SendsOne
<1>4. Delivers(p, out)
  BY <1>1, <1>3, ConsumeDelivers
<1>5. (\A y \in Peers(p) : Same(y)) /\ Quiet(p)
  <2>1. \A y \in Peers(p) : y \in panicked' <=> y \in panicked
    BY DEF Peers
  <2> QED BY <2>1 DEF Same, Quiet
<1>6. Call(p, h)
  BY <1>1, <1>5 DEF Call, From, Explains
<1> QED BY <1>3, <1>4, <1>5, <1>6, QuietExplained

\* reconnected, and so every call that begins to recover or refuses a message.
LEMMA ReconnectedExplained ==
  ASSUME NEW p \in Server, NEW h, From(h), NEW q,
         \/ reconnected(p, q, outgoing[p], net)
         \/ \E x \in Peers(p) : net[x][p] # << >> /\ reconnected(p, q, outgoing[p], Consume(p, x)),
         UNCHANGED << storage, leader_state, follower_state, panicked >>
  PROVE  Succeeds(h, h)
<1> DEFINE m == PrepareReq(storage[p].promise)
           out == send(outgoing[p], q, m)
<1>1. TypeOK /\ Explains(h) /\ storage[p].promise \in Ballot
  BY StorageFields DEF From, Inv, TypeOK
<1>2. m \in Message /\ m.type = "PrepareReq"
  BY <1>1 DEF PrepareReq, Message
<1> HIDE DEF m
<1>3. \A y \in Server : out[y] = IF y = q THEN << m >> ELSE << >>
  BY <1>1, NothingWaits
<1>4. Fresh(p, h, out)
  BY <1>2, <1>3, HarmlessFresh DEF Fresh, Peers
<1>5. Ended(p, out) /\ (state' = state \/ state' = [state EXCEPT ![p] = << "Follower", "Recover" >>])
  BY DEF reconnected, Ended, m
<1> QED BY <1>4, <1>5, QuietCall

\* Refused accept messages, a gap in the sequence numbers, and a new connection.
LEMMA RefusalsExplained ==
  ASSUME NEW p \in Server, NEW q \in Peers(p), NEW h, From(h),
         reject_ballot(p, q) \/ dropped_preceding(p, q) \/ user_reconnected(p, q)
  PROVE  Succeeds(h, h)
<1>1. CASE user_reconnected(p, q)
  BY <1>1, ReconnectedExplained DEF user_reconnected
<1>2. CASE dropped_preceding(p, q)
  BY <1>2, ReconnectedExplained DEF dropped_preceding, Incoming
<1>3. CASE reject_ballot(p, q)
  <2> DEFINE r == Head(net[q][p])
             m == NotAccepted(storage[p].promise)
             out == send(outgoing[p], r.n.pid, m)
  <2>1. CASE ~ (r.n \prec storage[p].promise)
    BY <1>3, <2>1, ReconnectedExplained DEF reject_ballot, Incoming
  <2>2. CASE r.n \prec storage[p].promise
    <3>1. TypeOK /\ Explains(h) /\ storage[p].promise \in Ballot
      BY StorageFields DEF From, Inv, TypeOK
    <3>2. m \in Message /\ m.type = "NotAccepted"
      BY <3>1 DEF NotAccepted, Message
    <3>3. Ended(p, out) /\ state' = state /\ UNCHANGED << storage, leader_state, follower_state, panicked >>
      BY <1>3, <2>2 DEF reject_ballot, Incoming, Handled, Ended
    <3> HIDE DEF m
    <3>4. \A y \in Server : out[y] = IF y = r.n.pid THEN << m >> ELSE << >>
      BY <3>1, NothingWaits
    <3>5. Fresh(p, h, out)
      BY <3>2, <3>4, HarmlessFresh DEF Fresh, Peers
    <3> QED BY <3>3, <3>5, QuietCall
  <2> QED BY <2>1, <2>2
<1> QED BY <1>1, <1>2, <1>3

\* Proposals at a server that does not accept them itself.
LEMMA ForwardExplained ==
  ASSUME NEW p \in Server, NEW h, From(h), NEW entries \in Entries, state[p] # << "Leader", "Accept" >>,
         \/ propose_entries(p, entries, net)
         \/ \E x \in Peers(p) : net[x][p] # << >> /\ propose_entries(p, entries, Consume(p, x)),
         UNCHANGED << state, follower_state, panicked >>
  PROVE  Succeeds(h, h)
<1> DEFINE m == ProposalForward(entries)
           q == get_current_leader(p)
           out == IF state[p] = << "Leader", "Prepare" >>
                    THEN outgoing[p] ELSE forward_proposals_outgoing(p, outgoing[p], entries)
<1>1. TypeOK /\ Explains(h)
  BY DEF From, Inv
<1>2. m \in Message /\ m.type = "ProposalForward"
  BY DEF ProposalForward, Message
<1>3. Ended(p, out) /\ UNCHANGED << storage, leader_state >>
  BY DEF propose_entries, Ended
<1>4. out = outgoing[p] \/ out = send(outgoing[p], q, m)
  BY DEF forward_proposals_outgoing
<1> HIDE DEF m, q, out
<1>5. \A y \in Server : out[y] = << >> \/ out[y] = << m >>
  <2>1. CASE out = outgoing[p]
    BY <1>1, <2>1, NothingWaits
  <2>2. CASE out = send(outgoing[p], q, m)
    <3>1. out = send(NoMessages, q, m)
      BY <1>1, <2>2, NothingWaits
    <3>2. \A y \in Server : send(NoMessages, q, m)[y] = IF y = q THEN << m >> ELSE << >>
      BY <1>1, NothingWaits
    <3> QED BY <3>1, <3>2
  <2> QED BY <1>4, <2>1, <2>2
<1>6. Fresh(p, h, out)
  BY <1>2, <1>5, HarmlessFresh DEF Fresh, Peers
<1> QED BY <1>3, <1>6, QuietCall

\* The round that a leader leads.
LEMMA LeaderRound ==
  ASSUME Inv, NEW h, Explains(h), NEW p \in Server, p \notin panicked, state[p][1] = "Leader"
  PROVE  /\ leader_state[p].n_leader = storage[p].promise /\ storage[p].promise.pid = p
         /\ storage[p].promise \in Ballot
         /\ state[p] = << "Leader", "Prepare" >> \/ state[p] = << "Leader", "Accept" >>
         /\ state[p] = << "Leader", "Prepare" >> => PrepareOK(h, p, storage[p], leader_state[p])
         /\ state[p] = << "Leader", "Accept" >> =>
              LeaderOK(h, p, storage[p], leader_state[p]) /\ AcceptOK(h, p, storage[p], leader_state[p])
<1>1. LeadingOK(h, p) /\ storage[p].promise \in Ballot
  BY StorageFields DEF Explains, LeaderInv, Inv, TypeOK
<1> QED BY <1>1 DEF LeadingOK, PrepareOK, LeaderOK, AcceptOK

\* A Prepare tells of the log of the leader.
LEMMA PrepareFresh ==
  ASSUME NEW p \in Server, NEW g, NEW y, NEW n \in Ballot, NEW s \in Storage, NEW m, m = Prepare(n, s),
         n.pid = p, n \preceq storage'[p].promise,
         Prepares(p, n)' => Meta(storage'[p]) = Meta(s)
  PROVE  m \in Message /\ FreshOK(p, g, y, m)
<1>1. /\ m.type = "Prepare" /\ m.n = n /\ m.n_accepted = s.accepted_round
      /\ m.accepted_idx = s.accepted_idx /\ m.decided_idx = s.decided_idx
  BY DEF Prepare
<1>2. m \in Message
  BY StorageFields DEF Prepare, Message
<1>3. PrepareMsgOK(p, m)'
  BY <1>1 DEF PrepareMsgOK, Meta
<1> QED BY <1>1, <1>2, <1>3 DEF FreshOK, MsgOK, AcceptTypes

\* The leader prepares again.
LEMMA ResendLeaderExplained ==
  ASSUME NEW p \in Server, NEW h, From(h), p \notin panicked, resend_messages_leader(p),
         UNCHANGED << storage, leader_state, follower_state, panicked >>
  PROVE  Succeeds(h, h)
<1> DEFINE s == storage[p]
           l == leader_state[p]
           m == Prepare(l.n_leader, s)
           resent(q) ==
             IF q \in get_preparable_peers(l, p)
               THEN << m >>
               ELSE IF /\ state[p][2] = "Accept"
                       /\ accepted_reconfiguration(s)
                       /\ q \in get_promised_followers(l)
                      THEN IF stopsign_is_decided(s)
                             THEN << Decide(l.n_leader, l.follower_seq_nums[q], s.decided_idx) >>
                             ELSE IF l.accepted_indexes[q] # s.accepted_idx
                                    THEN << AcceptStopSign(l.n_leader, l.follower_seq_nums[q], s.stopsign) >>
                                    ELSE << >>
                      ELSE << >>
           sent == [q \in Server |-> outgoing[p][q] \o resent(q)]
<1>1. Inv /\ Explains(h) /\ s \in Storage /\ s.stopsign = None /\ state[p][1] = "Leader" /\ state' = state
  BY DEF From, Inv, TypeOK, resend_messages_leader, Explains, LogInv, LogOK
<1>2. l.n_leader = s.promise /\ s.promise.pid = p /\ s.promise \in Ballot
  BY <1>1, LeaderRound
<1>3. PICK out : /\ EndCall(p, out, net)
                 /\ \A y \in Server : out[y] = outgoing[p][y] \o << m >> \/ out[y] = outgoing[p][y] \o << >>
  <2>1. EndCall(p, sent, net)
    BY DEF resend_messages_leader, Called
  <2>2. \A y \in Server : resent(y) = << m >> \/ resent(y) = << >>
    BY <1>1 DEF accepted_reconfiguration
  <2> HIDE DEF m, resent
  <2>3. \A y \in Server : sent[y] = outgoing[p][y] \o resent(y)
    OBVIOUS
  <2>4. \A y \in Server : sent[y] = outgoing[p][y] \o << m >> \/ sent[y] = outgoing[p][y] \o << >>
    BY <2>2, <2>3
  <2> HIDE DEF sent
  <2> QED BY <2>1, <2>4
<1>4. ASSUME NEW y \in Peers(p) PROVE m \in Message /\ FreshOK(p, h, y, m)
  <2>1. PICK n, t, a : n \in Ballot /\ t \in Storage /\ n = l.n_leader /\ t = s /\ a = Prepare(n, t)
    BY <1>1, <1>2
  <2>2. n.pid = p /\ n \preceq storage'[p].promise /\ Meta(storage'[p]) = Meta(t)
    BY <2>1, <1>2, BallotReflexive
  <2>3. a \in Message /\ FreshOK(p, h, y, a)
    BY <2>1, <2>2, PrepareFresh
  <2> QED BY <2>1, <2>3
<1> HIDE DEF m
<1>5. \A y \in Server : outgoing[p][y] = << >>
  BY <1>1, NothingWaits
<1>6. << >> \o << m >> = << m >> /\ << >> \o << >> = << >>
  OBVIOUS
<1>7. Fresh(p, h, out)
  BY <1>3, <1>4, <1>5, <1>6 DEF Fresh, Peers
<1>8. Ended(p, out)
  BY <1>3 DEF Ended
<1> QED BY <1>1, <1>7, <1>8, QuietCall

\* The follower promises again, or asks to be prepared.
LEMMA ResendFollowerExplained ==
  ASSUME NEW p \in Server, NEW h, From(h), resend_messages_follower(p),
         UNCHANGED << storage, leader_state, follower_state, panicked >>
  PROVE  Succeeds(h, h)
<1> DEFINE c == follower_state[p].cached_promise_message
           m == PrepareReq(storage[p].promise)
<1>1. Inv /\ TypeOK /\ Explains(h) /\ storage[p].promise \in Ballot /\ outgoing[p] = NoMessages
  BY StorageFields, NothingWaits DEF From, Inv, TypeOK
<1>2. CASE c # None /\ Called(p, send(outgoing[p], c.n.pid, c)) /\ state' = state
  <2>1. PICK a, y, out : a = c /\ y = c.n.pid /\ out = send(NoMessages, y, a)
    OBVIOUS
  <2>2. /\ a \in PromiseMessage /\ y \in Server /\ y = a.n.pid
        /\ PromiseOK(h, p, y, a)
    BY <1>1, <1>2, <2>1 DEF Explains, KeptPromiseInv, KeptPromiseOK, TypeOK, FollowerState
  <2>3. a \in Message /\ a.type = "Promise"
    BY <2>2 DEF PromiseMessage, Message
  <2>4. (\A z \in Server : out[z] = IF z = y THEN << a >> ELSE << >>) /\ Ended(p, out)
    <3>1. \A z \in Server : send(NoMessages, y, a)[z] = IF z = y THEN << a >> ELSE << >>
      BY <1>1, NothingWaits
    <3> QED BY <2>1, <3>1, <1>1, <1>2 DEF Called, Ended
  <2>5. outgoing' = outgoing
    BY <1>1, <1>2 DEF Called, EndCall, Explains, Plain
  <2>6. Step(p, h, h)
    <3>1. \A q \in Peers(p) : Same(q)
      BY <1>2 DEF Same
    <3>2. Call(p, h) /\ Quiet(p)
      BY <1>1, <1>2, <2>5, <3>1 DEF Call, From, Quiet, Explains
    <3> QED BY <3>2, QuietStep
  <2>7. PromiseOK(h, p, y, a)'
    BY <2>2, <2>6, PromiseKept
  <2>8. FreshOK(p, h, y, a)
    BY <2>3, <2>7 DEF FreshOK, MsgOK, AcceptTypes
  <2>9. Fresh(p, h, out)
    BY <2>3, <2>4, <2>8 DEF Fresh, Peers
  <2> QED BY <2>4, <2>9, <1>2, QuietCall
<1>3. CASE /\ Called(p, push(outgoing[p], [q \in Peers(p) |-> m]))
           /\ state' = [state EXCEPT ![p] = << "Follower", "Recover" >>]
  <2>1. m \in Message /\ m.type = "PrepareReq"
    BY <1>1 DEF PrepareReq, Message
  <2>2. PICK msgs, out : msgs = [q \in Peers(p) |-> m] /\ out = push(NoMessages, msgs)
    OBVIOUS
  <2> HIDE DEF m
  <2>3. \A y \in Server : push(NoMessages, msgs)[y] = IF y \in DOMAIN msgs THEN << msgs[y] >> ELSE << >>
    BY <1>1, NothingWaits
  <2>4. \A y \in Peers(p) : out[y] = << m >>
    BY <2>2, <2>3 DEF Peers
  <2>5. Fresh(p, h, out)
    BY <2>1, <2>4, HarmlessFresh DEF Fresh
  <2>6. Ended(p, out)
    BY <1>1, <1>3, <2>2 DEF Called, Ended
  <2> QED BY <2>5, <2>6, <1>3, QuietCall
<1> QED BY <1>2, <1>3 DEF resend_messages_follower

------------------------------------------------------------------------------
(* The bookkeeping of a leader *)

\* A leader changes its bookkeeping only, and no sequence number.
LEMMA BookkeepingExplained ==
  ASSUME NEW p \in Server, NEW h, Call(p, h), p \notin panicked, p \notin panicked', state[p][1] = "Leader",
         storage'[p] = storage[p], state'[p] = state[p], follower_state'[p] = follower_state[p],
         NEW l \in LeaderStates, leader_state'[p] = l,
         l.follower_seq_nums = leader_state[p].follower_seq_nums,
         CountsOK(h, l),
         state[p] = << "Leader", "Prepare" >> => PrepareOK(h, p, storage[p], l),
         state[p] = << "Leader", "Accept" >> => LeaderOK(h, p, storage[p], l) /\ AcceptOK(h, p, storage[p], l),
         NEW out, Delivers(p, out), SendsOK(p, h, out)
  PROVE  Succeeds(h, h)
<1>1. /\ TypeOK /\ Inv /\ Explains(h) /\ h \in History
      /\ storage[p] \in Storage /\ leader_state[p] \in LeaderStates
      /\ LogOK(h, p, storage[p]) /\ BatchOK(h, p, storage[p])
      /\ FollowingOK(h, p)
  BY DEF Call, Explains, Inv, TypeOK, LogInv, FollowerInv
<1>2. Grows(p, h, h) /\ Accepts(p, h, h) /\ Founds(h, h)
  BY <1>1, HistoryStays
<1>3. /\ \A n \in Ballot : Leads(p, n)' => Leads(p, n)
      /\ \A n \in Ballot : Prepares(p, n)' => Prepares(p, n)
      /\ \A q \in Server : leader_state[p].follower_seq_nums[q] \in SequenceNumber
  BY <1>1, LeaderFields, ServersHaveSlots DEF Leads, Prepares
<1>4. Moves(p)
  BY <1>3, SeqNumReflexive DEF Call, Moves
<1>5. Step(p, h, h)
  BY <1>2, <1>4 DEF Step, Call
<1>6. ReceivesOK(p, h)
  <2>1. storage[p].promise.pid = p
    BY <1>1, LeaderRound
  <2> QED BY <1>5, <2>1, ReceivesKept
<1>7. LogOK(h, p, storage'[p]) /\ BatchOK(h, p, storage'[p])
  BY <1>1
<1>8. KeptPromiseOK(h, p)'
  BY <1>5, KeptPromiseKept
<1>9. CountsOK(h, leader_state[p])'
  <2>1. CountsOK(h, l)'
    BY <1>5, CountsKept
  <2> QED BY <2>1
<1>10. LeadingOK(h, p)'
  <2>1. state[p] = << "Leader", "Prepare" >> \/ state[p] = << "Leader", "Accept" >>
    BY <1>1, LeaderRound
  <2> QED BY <2>1 DEF LeadingOK
<1>11. FollowingOK(h, p)'
  BY <1>1 DEF FollowingOK
<1>12. outgoing' = [q \in Server |-> NoMessages]
  BY DEF Call
<1> QED BY <1>2, <1>5, <1>6, <1>7, <1>8, <1>9, <1>10, <1>11, <1>12, StepExplained

\* The promise of q is forgotten.
Forgets(l, m, q) ==
  /\ m \in LeaderStates
  /\ m.n_leader = l.n_leader /\ m.follower_seq_nums = l.follower_seq_nums
  /\ m.accepted_indexes = l.accepted_indexes
  /\ m.max_promise_meta = l.max_promise_meta /\ m.max_promise_sync = l.max_promise_sync
  /\ ~ is_promised(m, q)
  /\ \A r \in Slots : /\ m.latest_accept_meta[r] \in {0, l.latest_accept_meta[r]}
                      /\ r # q => m.promises_meta[r] = l.promises_meta[r]

\* reset_promise and lost_promise do that, and reset_latest_accept_meta(q) nothing else.
LEMMA ForgetsFields ==
  ASSUME NEW l \in LeaderStates, NEW q \in Slots
  PROVE  /\ Forgets(l, [reset_promise(l, q) EXCEPT !.latest_accept_meta[q] = 0], q)
         /\ Forgets(l, lost_promise(l, q), q)
<1> DEFINE higher == [NotPromised EXCEPT !.state = "PromisedHigher"]
<1>1. DefaultPromiseMetaData \in PromiseMetaData
  BY DefaultBallotType DEF DefaultPromiseMetaData, PromiseMetaData
<1>2. /\ NotPromised \in PromiseState /\ NotPromised.state = "NotPromised"
      /\ higher \in PromiseState /\ higher.state = "PromisedHigher"
  BY <1>1 DEF NotPromised, PromiseState
<1> HIDE DEF higher
<1>3. ASSUME NEW ps \in PromiseState, ps.state # "Promised" PROVE Forgets(l, [l EXCEPT !.promises_meta[q] = ps], q)
  BY <1>3 DEF LeaderStates, Forgets, is_promised
<1>4. Forgets(l, reset_promise(l, q), q) /\ Forgets(l, lost_promise(l, q), q)
  BY <1>2, <1>3 DEF reset_promise, lost_promise, higher
<1>5. ASSUME NEW m, Forgets(l, m, q) PROVE Forgets(l, [m EXCEPT !.latest_accept_meta[q] = 0], q)
  BY <1>5 DEF LeaderStates, Forgets, is_promised
<1> QED BY <1>4, <1>5

\* What the leader knows stays as the history tells.
LEMMA ForgetsOK ==
  ASSUME NEW h, NEW p \in Server, NEW q \in Peers(p), NEW l, NEW s, NEW m, Forgets(l, m, q)
  PROVE  /\ CountsOK(h, l) => CountsOK(h, m)
         /\ PrepareOK(h, p, s, l) => PrepareOK(h, p, s, m)
         /\ LeaderOK(h, p, s, l) => LeaderOK(h, p, s, m)
         /\ AcceptOK(h, p, s, l) => AcceptOK(h, p, s, m)
<1>1. /\ m.n_leader = l.n_leader /\ m.follower_seq_nums = l.follower_seq_nums
      /\ m.accepted_indexes = l.accepted_indexes
      /\ m.max_promise_meta = l.max_promise_meta /\ m.max_promise_sync = l.max_promise_sync
      /\ \A r \in Slots : is_promised(m, r) => /\ is_promised(l, r) /\ r # q
                                               /\ m.promises_meta[r] = l.promises_meta[r]
      /\ \A r \in Slots : m.latest_accept_meta[r] \in {0, l.latest_accept_meta[r]}
  BY DEF Forgets, is_promised
<1>2. CountsOK(h, l) => CountsOK(h, m)
  BY <1>1 DEF CountsOK
<1>3. MaxOK(h, s, l) => MaxOK(h, s, m)
  BY <1>1 DEF MaxOK
<1>4. is_promised(l, p) => is_promised(m, p) /\ m.promises_meta[p] = l.promises_meta[p]
  BY ServersHaveSlots DEF Forgets, is_promised, Peers
<1>5. PrepareOK(h, p, s, l) => PrepareOK(h, p, s, m)
  BY <1>1, <1>3, <1>4 DEF PrepareOK
<1>6. AcceptOK(h, p, s, l) => AcceptOK(h, p, s, m)
  BY <1>1, ServersHaveSlots DEF AcceptOK, Peers
<1> QED BY <1>1, <1>2, <1>5, <1>6 DEF LeaderOK

\* handle_preparereq and handle_notaccepted.
LEMMA ForgettingExplained ==
  ASSUME NEW p \in Server, NEW q \in Peers(p), NEW h, From(h),
         handle_preparereq(p, q) \/ handle_notaccepted(p, q)
  PROVE  Succeeds(h, h)
<1> DEFINE s == storage[p]
           l == leader_state[p]
           m == [reset_promise(l, q) EXCEPT !.latest_accept_meta[q] = 0]
<1>1. /\ TypeOK /\ Inv /\ Explains(h) /\ s \in Storage /\ l \in LeaderStates
      /\ CountsOK(h, l) /\ outgoing[p] = NoMessages /\ q \in Slots
  BY NothingWaits, ServersHaveSlots DEF From, Inv, TypeOK, Explains, CountsInv, Peers
<1>2. /\ p \notin panicked /\ state[p][1] = "Leader" /\ net[q][p] # << >>
      /\ UNCHANGED << storage, state, follower_state, panicked >>
  BY DEF handle_preparereq, handle_notaccepted, answers_preparereq, loses_promise, Incoming
<1>3. /\ l.n_leader = s.promise /\ s.promise.pid = p /\ s.promise \in Ballot
      /\ state[p] = << "Leader", "Prepare" >> => PrepareOK(h, p, s, l)
      /\ state[p] = << "Leader", "Accept" >> => LeaderOK(h, p, s, l) /\ AcceptOK(h, p, s, l)
  BY <1>1, <1>2, LeaderRound
<1>4. \E k, out : /\ leader_state' = [leader_state EXCEPT ![p] = k] /\ Forgets(l, k, q)
                  /\ Ended(p, out) /\ Fresh(p, h, out)
  <2>1. CASE handle_notaccepted(p, q)
    <3>1. PICK k : k = lost_promise(l, q)
      OBVIOUS
    <3>2. leader_state' = [leader_state EXCEPT ![p] = k] /\ Ended(p, NoMessages)
      BY <1>1, <1>2, <2>1, <3>1 DEF handle_notaccepted, Ended, Handled
    <3>3. Forgets(l, k, q)
      BY <1>1, <3>1, ForgetsFields
    <3>4. Fresh(p, h, NoMessages)
      BY DEF Fresh, NoMessages, Peers
    <3> QED BY <3>2, <3>3, <3>4
  <2>2. CASE handle_preparereq(p, q)
    <3>1. PICK k, n, b, t : k = m /\ n = l.n_leader /\ t = s /\ b = Prepare(n, t) /\ t \in Storage
      BY <1>1
    <3>2. n \in Ballot /\ n.pid = p /\ n \preceq storage'[p].promise /\ Meta(storage'[p]) = Meta(t)
      BY <3>1, <1>2, <1>3, BallotReflexive
    <3>3. b \in Message /\ FreshOK(p, h, q, b)
      BY <3>1, <3>2, PrepareFresh
    <3>4. reset_promise(l, q).n_leader = l.n_leader
      BY <1>1, ForgetPromiseOK DEF PromisesFrom
    <3>5. PICK out : out = send(NoMessages, q, b)
      OBVIOUS
    <3>6. leader_state' = [leader_state EXCEPT ![p] = k]
      BY <2>2, <3>1 DEF handle_preparereq
    <3>7. Ended(p, out)
      BY <1>1, <1>2, <2>2, <3>1, <3>4, <3>5 DEF handle_preparereq, Ended, Handled
    <3>8. Forgets(l, k, q)
      BY <1>1, <3>1, ForgetsFields
    <3>9. \A y \in Server : send(NoMessages, q, b)[y] = IF y = q THEN << b >> ELSE << >>
      BY <1>1, NothingWaits
    <3>10. Fresh(p, h, out)
      BY <3>3, <3>5, <3>9 DEF Fresh, Peers
    <3> QED BY <3>6, <3>7, <3>8, <3>10
  <2> QED BY <2>1, <2>2
<1>5. PICK k, out : /\ leader_state' = [leader_state EXCEPT ![p] = k] /\ Forgets(l, k, q)
                    /\ Ended(p, out) /\ Fresh(p, h, out)
  BY <1>4
<1>6. Delivers(p, out) /\ SendsOK(p, h, out) /\ outgoing' = [y \in Server |-> NoMessages]
  BY <1>5, CallEnds
<1>7. (\A y \in Peers(p) : Same(y)) /\ leader_state'[p] = k
  <2>1. Updates(p, s, state[p], k, follower_state[p])
    BY <1>1, <1>2, <1>5, Unchanged DEF Updates
  <2> QED BY <1>1, <1>2, <2>1, OthersSame
<1>8. Call(p, h)
  BY <1>6, <1>7 DEF Call, From
<1>9. /\ k \in LeaderStates /\ k.follower_seq_nums = l.follower_seq_nums /\ CountsOK(h, k)
      /\ state[p] = << "Leader", "Prepare" >> => PrepareOK(h, p, s, k)
      /\ state[p] = << "Leader", "Accept" >> => LeaderOK(h, p, s, k) /\ AcceptOK(h, p, s, k)
  <2>1. k \in LeaderStates /\ k.follower_seq_nums = l.follower_seq_nums
    BY <1>5 DEF Forgets
  <2> HIDE DEF s, l
  <2> QED BY <2>1, <1>1, <1>3, <1>5, ForgetsOK
<1> QED BY <1>2, <1>6, <1>7, <1>8, <1>9, BookkeepingExplained

\* PartialOrd for PromiseMetaData is a total order of the rounds and lengths.
LEMMA GreaterMeta ==
  ASSUME NEW a \in PromiseMetaData, NEW b \in PromiseMetaData, NEW c \in PromiseMetaData
  PROVE  /\ ~ greater_meta(a, a)
         /\ greater_meta(a, b) => ~ greater_meta(b, a)
         /\ ~ greater_meta(a, b) /\ ~ greater_meta(b, c) => ~ greater_meta(a, c)
<1>1. /\ a.n_accepted \in Ballot /\ b.n_accepted \in Ballot /\ c.n_accepted \in Ballot
      /\ a.accepted_idx \in Nat /\ b.accepted_idx \in Nat /\ c.accepted_idx \in Nat
  BY DEF PromiseMetaData
<1>2. ~ (a.n_accepted \prec a.n_accepted)
  BY <1>1, BallotIrreflexive
<1>3. a.n_accepted \prec b.n_accepted => ~ (b.n_accepted \preceq a.n_accepted)
  BY <1>1, BallotAsymmetric
<1>4. b.n_accepted \prec a.n_accepted => ~ (a.n_accepted \preceq b.n_accepted)
  BY <1>1, BallotAsymmetric
<1>5. greater_meta(a, b) => ~ greater_meta(b, a)
  BY <1>1, <1>3, <1>4 DEF greater_meta, \preceq
<1>6. ~ greater_meta(a, b) /\ ~ greater_meta(b, c) => ~ greater_meta(a, c)
  <2>1. /\ a.n_accepted \preceq b.n_accepted \/ b.n_accepted \prec a.n_accepted
        /\ b.n_accepted \preceq c.n_accepted \/ c.n_accepted \prec b.n_accepted
    BY <1>1, BallotTotal
  <2>2. /\ a.n_accepted \preceq b.n_accepted /\ b.n_accepted \prec c.n_accepted => a.n_accepted \prec c.n_accepted
        /\ a.n_accepted \prec b.n_accepted /\ b.n_accepted \preceq c.n_accepted => a.n_accepted \prec c.n_accepted
    BY <1>1, BallotStrictlyTransitive
  <2>3. a.n_accepted \prec c.n_accepted => ~ (c.n_accepted \preceq a.n_accepted)
    BY <1>1, BallotAsymmetric
  <2>4. CASE a.n_accepted \prec c.n_accepted
    BY <2>3, <2>4 DEF greater_meta, \preceq
  <2>5. CASE a.n_accepted = b.n_accepted /\ b.n_accepted = c.n_accepted
    BY <2>5, <1>1, <1>2 DEF greater_meta
  <2> QED BY <2>1, <2>2, <2>4, <2>5 DEF greater_meta, \preceq
<1> QED BY <1>1, <1>2, <1>5, <1>6 DEF greater_meta

\* The promise of q is counted.
Records(l, m, q, meta, sync, check) ==
  /\ m \in LeaderStates
  /\ m.n_leader = l.n_leader /\ m.follower_seq_nums = l.follower_seq_nums
  /\ m.accepted_indexes = l.accepted_indexes /\ m.latest_accept_meta = l.latest_accept_meta
  /\ is_promised(m, q) /\ m.promises_meta[q].meta = meta
  /\ \A r \in Slots : r # q => m.promises_meta[r] = l.promises_meta[r]
  /\ check /\ greater_meta(meta, l.max_promise_meta) =>
       m.max_promise_meta = meta /\ m.max_promise_sync = sync
  /\ ~ (check /\ greater_meta(meta, l.max_promise_meta)) =>
       m.max_promise_meta = l.max_promise_meta /\ m.max_promise_sync = l.max_promise_sync

\* set_promise does that.
LEMMA RecordsFields ==
  ASSUME NEW l \in LeaderStates, NEW q \in Slots, NEW meta \in PromiseMetaData,
         NEW sync \in LogSync \cup {None}, NEW check \in BOOLEAN
  PROVE  Records(l, set_promise(l, q, meta, sync, check), q, meta, sync, check)
<1> DEFINE ps == [state |-> "Promised", meta |-> meta]
           l1 == [l EXCEPT !.promises_meta[q] = ps]
           l2 == [l1 EXCEPT !.max_promise_meta = meta, !.max_promise_sync = sync]
           m == set_promise(l, q, meta, sync, check)
<1> SUFFICES Records(l, m, q, meta, sync, check)
  OBVIOUS
<1>1. ps \in PromiseState /\ ps.meta = meta /\ ps.state = "Promised"
  BY DEF PromiseState
<1>2. m = IF check /\ greater_meta(meta, l.max_promise_meta) THEN l2 ELSE l1
  BY DEF set_promise
<1> HIDE DEF ps, m
<1>3. /\ l1 \in LeaderStates
      /\ l1.n_leader = l.n_leader /\ l1.follower_seq_nums = l.follower_seq_nums
      /\ l1.accepted_indexes = l.accepted_indexes /\ l1.latest_accept_meta = l.latest_accept_meta
      /\ l1.promises_meta[q] = ps
      /\ \A r \in Slots : r # q => l1.promises_meta[r] = l.promises_meta[r]
      /\ l1.max_promise_meta = l.max_promise_meta /\ l1.max_promise_sync = l.max_promise_sync
  BY <1>1 DEF LeaderStates
<1> HIDE DEF l1
<1>4. /\ l2 \in LeaderStates
      /\ l2.n_leader = l1.n_leader /\ l2.follower_seq_nums = l1.follower_seq_nums
      /\ l2.accepted_indexes = l1.accepted_indexes /\ l2.latest_accept_meta = l1.latest_accept_meta
      /\ l2.promises_meta = l1.promises_meta
      /\ l2.max_promise_meta = meta /\ l2.max_promise_sync = sync
  BY <1>3 DEF LeaderStates
<1> HIDE DEF l2
<1>5. CASE check /\ greater_meta(meta, l.max_promise_meta)
  <2>1. m = l2
    BY <1>2, <1>5
  <2> QED BY <1>1, <1>3, <1>4, <1>5, <2>1 DEF Records, is_promised
<1>6. CASE ~ (check /\ greater_meta(meta, l.max_promise_meta))
  <2>1. m = l1
    BY <1>2, <1>6
  <2> QED BY <1>1, <1>3, <1>6, <2>1 DEF Records, is_promised
<1> QED BY <1>5, <1>6

\* The message that p handles next is as the history tells.
LEMMA HeadOK ==
  ASSUME TypeOK, NEW h, Explains(h), NEW p \in Server, NEW q \in Peers(p), net[q][p] # << >>,
         NEW m, m = Head(net[q][p])
  PROVE  /\ m \in Message /\ m = net[q][p][1] /\ 1 \in 1 .. Len(net[q][p])
         /\ MsgOK(h, q, p, m) /\ SyncTargetOK(h, p, m)
<1>1. q \in Server /\ p \in Peers(q) /\ net[q][p] \in Seq(Message)
  BY DEF Peers, TypeOK
<1>2. Len(net[q][p]) \in Nat /\ Len(net[q][p]) # 0
  BY <1>1, EmptySeq, LenProperties
<1>3. 1 \in 1 .. Len(net[q][p]) /\ m = net[q][p][1]
  BY <1>2 DEF Head
<1>4. net[q][p][1] \in Message
  BY <1>1, <1>3, ElementOfSeq
<1>5. MsgOK(h, q, p, net[q][p][1]) /\ SyncTargetOK(h, p, net[q][p][1])
  BY <1>1, <1>3 DEF Explains, MessageInv
<1> QED BY <1>3, <1>4, <1>5

\* The fields of a Promise.
LEMMA PromiseFields ==
  ASSUME NEW m \in PromiseMessage
  PROVE  /\ m.n \in Ballot /\ m.log_sync \in LogSync \cup {None} /\ PromiseMeta(m) \in PromiseMetaData
         /\ m.type = "Promise"
BY DEF PromiseMessage, PromiseMeta, PromiseMetaData

\* What the leader counts goes on to be as the history tells.
LEMMA RecordsCounts ==
  ASSUME NEW h, NEW q \in Server, NEW l, NEW m, NEW meta, NEW sync, NEW check,
         Records(l, m, q, meta, sync, check), CountsOK(h, l), MetaOK(h, q, l.n_leader, meta)
  PROVE  CountsOK(h, m)
<1> SUFFICES ASSUME NEW r \in Slots
             PROVE  /\ m.latest_accept_meta[r] = 0
                    /\ m.accepted_indexes[r] > 0 => r \in Server /\ m.accepted_indexes[r] <= h.acc[r][m.n_leader]
                    /\ is_promised(m, r) => r \in Server /\ MetaOK(h, r, m.n_leader, m.promises_meta[r].meta)
  BY DEF CountsOK
<1>1. /\ m.n_leader = l.n_leader /\ m.accepted_indexes = l.accepted_indexes
      /\ m.latest_accept_meta = l.latest_accept_meta
  BY DEF Records
<1>2. CASE r = q
  BY <1>1, <1>2 DEF CountsOK, Records
<1>3. CASE r # q
  BY <1>1, <1>3 DEF CountsOK, Records, is_promised
<1> QED BY <1>2, <1>3

\* A promise in the Prepare phase.
LEMMA RecordsPrepare ==
  ASSUME TypeOK, NEW h, Explains(h), NEW p \in Server, NEW q \in Peers(p), p \notin panicked,
         state[p] = << "Leader", "Prepare" >>,
         NEW l, l = leader_state[p], PrepareOK(h, p, storage[p], l),
         NEW a \in PromiseMessage, PromiseOK(h, q, p, a), a.n = l.n_leader,
         NEW m, Records(l, m, q, PromiseMeta(a), a.log_sync, TRUE)
  PROVE  PrepareOK(h, p, storage[p], m)
<1> DEFINE s == storage[p]
           meta == PromiseMeta(a)
           max == l.max_promise_meta
<1>1. /\ s \in Storage /\ l \in LeaderStates /\ q \in Server /\ q # p /\ q \in Slots /\ p \in Slots
      /\ h \in History /\ RoundInv(h) /\ VoteInv(h)
  BY ServersHaveSlots DEF TypeOK, Peers, Explains
<1>2. /\ meta \in PromiseMetaData /\ max \in PromiseMetaData /\ Meta(s) \in PromiseMetaData
      /\ a.log_sync \in LogSync \cup {None} /\ l.n_leader \in Ballot
      /\ meta.n_accepted \in Ballot /\ meta.accepted_idx \in Nat
      /\ \A r \in Slots : l.promises_meta[r].meta \in PromiseMetaData
  BY <1>1, PromiseFields, StorageFields, LeaderFields DEF PromiseMetaData
<1>3. l.n_leader = s.promise /\ s.promise.pid = p /\ s.promise \notin h.est /\ Prepares(p, a.n)
  BY DEF PrepareOK, Prepares
<1>4. MetaOK(h, q, l.n_leader, meta)
  BY DEF PromiseOK
<1>5. /\ a.log_sync = None => ~ greater_meta(meta, Meta(s))
      /\ a.log_sync # None => AdoptOK(h, s, meta, a.log_sync)
  BY <1>3 DEF PromiseOK
<1>6. /\ MaxOK(h, s, l) /\ is_promised(l, p) /\ l.promises_meta[p].meta = Meta(s)
      /\ \A r \in Slots : is_promised(l, r) => ~ greater_meta(l.promises_meta[r].meta, max)
  BY DEF PrepareOK, MaxOK
<1>7. /\ meta.n_accepted \in h.est \cup {DefaultBallot}
      /\ meta.n_accepted \prec l.n_leader
      /\ meta.accepted_idx <= Len(h.rlog[meta.n_accepted])
      /\ meta.n_accepted \in h.est => h.base[meta.n_accepted] <= meta.accepted_idx
  <2>1. /\ meta.n_accepted \in h.est \cup {DefaultBallot} /\ meta.n_accepted \preceq l.n_leader
        /\ meta.n_accepted \in h.est => h.base[meta.n_accepted] <= meta.accepted_idx
    BY <1>4 DEF MetaOK
  <2>2. l.n_leader # DefaultBallot
    BY <1>3, ServerAssumption DEF DefaultBallot
  <2>3. meta.n_accepted \prec l.n_leader
    BY <2>1, <2>2, <1>3 DEF \preceq
  <2>4. h.acc[q][meta.n_accepted] = meta.accepted_idx
    BY <2>3, <1>4 DEF MetaOK
  <2> QED BY <2>1, <2>3, <2>4, <1>1, <1>2 DEF VoteInv
<1>8. /\ m.n_leader = l.n_leader /\ is_promised(m, p) /\ m.promises_meta[p].meta = Meta(s)
  BY <1>1, <1>6 DEF Records, is_promised
<1>9. \A r \in Slots : is_promised(m, r) =>
        \/ m.promises_meta[r].meta = meta
        \/ is_promised(l, r) /\ m.promises_meta[r].meta = l.promises_meta[r].meta
  BY DEF Records, is_promised
<1> HIDE DEF s, meta, max
<1>10. MaxOK(h, s, m)
  <2>1. CASE greater_meta(meta, max)
    <3>1. m.max_promise_meta = meta /\ m.max_promise_sync = a.log_sync
      BY <2>1 DEF Records, meta, max
    <3>2. ~ greater_meta(Meta(s), max)
      BY <1>1, <1>6
    <3>3. a.log_sync # None
      BY <1>2, <1>5, <2>1, <3>2, GreaterMeta
    <3>4. \A r \in Slots : is_promised(l, r) => ~ greater_meta(l.promises_meta[r].meta, meta)
      <4>1. ~ greater_meta(max, meta)
        BY <1>2, <2>1, GreaterMeta
      <4> QED BY <1>2, <1>6, <4>1, GreaterMeta
    <3>5. \A r \in Slots : is_promised(m, r) => ~ greater_meta(m.promises_meta[r].meta, meta)
      <4>1. ~ greater_meta(meta, meta)
        BY <1>2, GreaterMeta
      <4> QED BY <4>1, <3>4, <1>9
    <3> QED BY <1>5, <1>7, <1>8, <3>1, <3>3, <3>5 DEF MaxOK
  <2>2. CASE ~ greater_meta(meta, max)
    <3>1. m.max_promise_meta = max /\ m.max_promise_sync = l.max_promise_sync
      BY <2>2 DEF Records, meta, max
    <3>2. \A r \in Slots : is_promised(m, r) => ~ greater_meta(m.promises_meta[r].meta, max)
      BY <1>6, <1>9, <2>2
    <3> QED BY <1>6, <1>8, <3>1, <3>2 DEF MaxOK, max
  <2> QED BY <2>1, <2>2
<1> QED BY <1>8, <1>10 DEF PrepareOK, s

\* A promise for the round of p.
LEMMA PromiseArrives ==
  ASSUME NEW h, Inv, Explains(h), NEW p \in Server, NEW q \in Peers(p), Incoming(p, q, "Promise"),
         NEW a, a = Head(net[q][p]), counts_promise(p, a)
  PROVE  /\ a \in PromiseMessage /\ a.n = leader_state[p].n_leader /\ PromiseOK(h, q, p, a)
         /\ PromiseMeta(a) \in PromiseMetaData /\ a.log_sync \in LogSync \cup {None}
         /\ q \in Slots /\ q \in Server /\ leader_state[p] \in LeaderStates /\ CountsOK(h, leader_state[p])
<1>1. /\ TypeOK /\ leader_state[p] \in LeaderStates /\ CountsOK(h, leader_state[p]) /\ q \in Slots /\ q \in Server
      /\ net[q][p] # << >> /\ a.type = "Promise" /\ a.n = leader_state[p].n_leader
  BY ServersHaveSlots DEF Inv, TypeOK, Explains, CountsInv, Peers, Incoming, counts_promise
<1>2. a \in Message /\ MsgOK(h, q, p, a)
  BY <1>1, HeadOK
<1>3. a \in PromiseMessage /\ PromiseOK(h, q, p, a)
  BY <1>1, <1>2, MessageFields DEF MsgOK
<1> QED BY <1>1, <1>3, PromiseFields

\* handle_promise_prepare before there is a quorum.
LEMMA PromiseCountedExplained ==
  ASSUME NEW p \in Server, NEW q \in Peers(p), NEW h, From(h),
         Incoming(p, q, "Promise"), state[p] = << "Leader", "Prepare" >>,
         NEW a, a = Head(net[q][p]), NEW l, l = leader_state[p], counts_promise(p, a),
         NEW m, m = set_promise(l, q, PromiseMeta(a), a.log_sync, TRUE),
         leader_state' = [leader_state EXCEPT ![p] = m], Handled(p, q, outgoing[p]),
         UNCHANGED << storage, state, follower_state, panicked >>
  PROVE  Succeeds(h, h)
<1>1. /\ TypeOK /\ Inv /\ Explains(h) /\ outgoing[p] = NoMessages
      /\ p \notin panicked /\ net[q][p] # << >> /\ state[p][1] = "Leader"
  BY NothingWaits DEF From, Inv, Incoming
<1>3. /\ a \in PromiseMessage /\ a.n = l.n_leader /\ PromiseOK(h, q, p, a)
      /\ Records(l, m, q, PromiseMeta(a), a.log_sync, TRUE) /\ m \in LeaderStates /\ CountsOK(h, m)
  <2>1. /\ a \in PromiseMessage /\ a.n = l.n_leader /\ PromiseOK(h, q, p, a)
        /\ PromiseMeta(a) \in PromiseMetaData /\ a.log_sync \in LogSync \cup {None}
        /\ q \in Slots /\ q \in Server /\ l \in LeaderStates /\ CountsOK(h, l)
    BY <1>1, PromiseArrives
  <2>2. Records(l, m, q, PromiseMeta(a), a.log_sync, TRUE)
    BY <2>1, RecordsFields, Zenon
  <2>3. CountsOK(h, m)
    BY <2>1, <2>2, RecordsCounts DEF PromiseOK
  <2>4. m \in LeaderStates
    BY <2>2 DEF Records
  <2> QED BY <2>1, <2>2, <2>3, <2>4
<1>4. PrepareOK(h, p, storage[p], m)
  <2>1. PrepareOK(h, p, storage[p], l)
    BY <1>1, LeaderRound
  <2> QED BY <1>1, <1>3, <2>1, RecordsPrepare
<1>5. Fresh(p, h, NoMessages) /\ Ended(p, NoMessages)
  BY <1>1 DEF Fresh, NoMessages, Peers, Ended, Handled
<1>6. Delivers(p, NoMessages) /\ SendsOK(p, h, NoMessages) /\ outgoing' = [y \in Server |-> NoMessages]
  BY <1>5, CallEnds
<1>7. (\A y \in Peers(p) : Same(y)) /\ leader_state'[p] = m
  <2>1. Updates(p, storage[p], state[p], m, follower_state[p])
    BY <1>1, Unchanged DEF Updates
  <2> QED BY ZenonT(30), <1>1, <2>1, OthersSame
<1>8. Call(p, h)
  BY <1>6, <1>7 DEF Call, From
<1>9. m.follower_seq_nums = leader_state[p].follower_seq_nums
  BY <1>3 DEF Records
<1>10. state[p] # << "Leader", "Accept" >>
  OBVIOUS
<1> QED BY <1>10, <1>1, <1>3, <1>4, <1>6, <1>7, <1>8, <1>9, BookkeepingExplained

------------------------------------------------------------------------------
(* How the history goes on *)

\* The messages of round n beyond the last one, with l as the bookkeeping of the
\* leader, go on behind index idx.
Onwards(h, n, l, idx) ==
  [q \in Server |-> [sn \in SequenceNumber |->
     IF seq_num_leq(sn, next_seq_num(l.follower_seq_nums[q])) THEN h.start[n][q][sn] ELSE idx]]

\* From h to g: in round n the log is log now, idx entries of which p accepted;
\* the established rounds are E, n with b entries, and f tells where the messages
\* of round n go on.
Continues(h, g, p, n, log, idx, E, b, f) ==
  /\ g \in History
  /\ g.est = E /\ g.rlog[n] = log /\ g.acc[p][n] = idx /\ g.base[n] = b /\ g.start[n] = f
  /\ \A r \in Ballot : r # n => g.rlog[r] = h.rlog[r] /\ g.start[r] = h.start[r] /\ g.base[r] = h.base[r]
  /\ \A q \in Server, r \in Ballot : q # p \/ r # n => g.acc[q][r] = h.acc[q][r]

\* There is such a history.
LEMMA ContinueFields ==
  ASSUME NEW h \in History, NEW p \in Server, NEW n \in Ballot, NEW log \in Entries, NEW idx \in Nat,
         NEW E \in SUBSET Ballot, NEW b \in Nat, NEW f \in [Server -> [SequenceNumber -> Nat]]
  PROVE  \E g : Continues(h, g, p, n, log, idx, E, b, f)
<1> DEFINE rlog == [h.rlog EXCEPT ![n] = log]
           acc == [h.acc EXCEPT ![p] = [h.acc[p] EXCEPT ![n] = idx]]
           base == [h.base EXCEPT ![n] = b]
           start == [h.start EXCEPT ![n] = f]
           g == [rlog |-> rlog, acc |-> acc, base |-> base, est |-> E, start |-> start]
<1>1. /\ h.rlog \in [Ballot -> Entries] /\ h.acc \in [Server -> [Ballot -> Nat]]
      /\ h.base \in [Ballot -> Nat] /\ h.start \in [Ballot -> [Server -> [SequenceNumber -> Nat]]]
  BY DEF History
<1>2. /\ rlog \in [Ballot -> Entries] /\ rlog[n] = log
      /\ \A r \in Ballot : r # n => rlog[r] = h.rlog[r]
  BY <1>1
<1>3. /\ base \in [Ballot -> Nat] /\ base[n] = b
      /\ \A r \in Ballot : r # n => base[r] = h.base[r]
  BY <1>1
<1>4. /\ start \in [Ballot -> [Server -> [SequenceNumber -> Nat]]] /\ start[n] = f
      /\ \A r \in Ballot : r # n => start[r] = h.start[r]
  <2>1. PICK S : S = [Server -> [SequenceNumber -> Nat]]
    OBVIOUS
  <2> QED BY <1>1, <2>1
<1>5. /\ acc \in [Server -> [Ballot -> Nat]] /\ acc[p][n] = idx
      /\ \A q \in Server, r \in Ballot : q # p \/ r # n => acc[q][r] = h.acc[q][r]
  BY <1>1
<1> HIDE DEF rlog, acc, base, start
<1>6. g \in History /\ g.rlog = rlog /\ g.acc = acc /\ g.base = base /\ g.est = E /\ g.start = start
  BY <1>2, <1>3, <1>4, <1>5 DEF History
<1> HIDE DEF g
<1>7. Continues(h, g, p, n, log, idx, E, b, f)
  BY <1>2, <1>3, <1>4, <1>5, <1>6 DEF Continues
<1> QED BY <1>7

\* How a history may go on in the round that p promised.
LEMMA GoesOn ==
  ASSUME TypeOK, NEW h \in History, NEW p \in Server, NEW n, n = storage[p].promise,
         NEW g, NEW log \in Entries, NEW idx \in Nat, NEW E, NEW b, NEW f,
         Continues(h, g, p, n, log, idx, E, b, f),
         h.est \subseteq E, E \subseteq h.est \cup {n}, n \in E, n \in h.est => b = h.base[n],
         Extends(h.rlog[n], log), h.acc[p][n] <= idx,
         n.pid # p => log = h.rlog[n] /\ E = h.est /\ f = h.start[n],
         f = h.start[n] \/ (Leads(p, n) /\ \E i : f = Onwards(h, n, leader_state[p], i))
  PROVE  Grows(p, h, g)
<1>1. n \in Ballot
  BY StorageFields DEF TypeOK
<1>2. ASSUME NEW q \in Server, NEW sn \in SequenceNumber, g.start[n][q][sn] # h.start[n][q][sn]
      PROVE  Leads(p, n) /\ ~ seq_num_leq(sn, next_seq_num(leader_state[p].follower_seq_nums[q]))
  BY <1>2 DEF Continues, Onwards
<1>3. /\ g \in History /\ g.est = E /\ g.rlog[n] = log /\ g.acc[p][n] = idx /\ g.base[n] = b /\ g.start[n] = f
      /\ \A r \in Ballot : r # n => g.rlog[r] = h.rlog[r] /\ g.start[r] = h.start[r] /\ g.base[r] = h.base[r]
      /\ \A q \in Server, r \in Ballot : q # p \/ r # n => g.acc[q][r] = h.acc[q][r]
  BY DEF Continues
<1>4. \A r \in Ballot : r \in h.est \/ r # n => g.base[r] = h.base[r]
  BY <1>3
<1> QED BY <1>1, <1>2, <1>3, <1>4 DEF Grows

\* p accepts idx entries of the round it promised.
LEMMA GoesOnAccepting ==
  ASSUME TypeOK, NEW h \in History, NEW p \in Server, NEW n, n = storage[p].promise, n \in h.est,
         NEW idx \in Nat, h.acc[p][n] <= idx
  PROVE  \E g : /\ Continues(h, g, p, n, h.rlog[n], idx, h.est, h.base[n], h.start[n])
                /\ Grows(p, h, g)
<1>1. /\ n \in Ballot /\ h.rlog[n] \in Entries /\ h.est \in SUBSET Ballot /\ h.base[n] \in Nat
      /\ h.start[n] \in [Server -> [SequenceNumber -> Nat]]
  BY HistoryFields DEF History
<1>2. PICK g : Continues(h, g, p, n, h.rlog[n], idx, h.est, h.base[n], h.start[n])
  BY <1>1, ContinueFields
<1>3. Extends(h.rlog[n], h.rlog[n])
  BY <1>1, ExtendsSelf
<1>4. Grows(p, h, g)
  <2>1. PICK log, E, b, f : log \in Entries /\ log = h.rlog[n] /\ E = h.est /\ b = h.base[n] /\ f = h.start[n]
    BY <1>1
  <2>2. Continues(h, g, p, n, log, idx, E, b, f) /\ Extends(h.rlog[n], log)
    BY <1>2, <1>3, <2>1
  <2>3. h.est \subseteq E /\ E \subseteq h.est \cup {n} /\ n \in E
    BY <2>1
  <2> QED BY <2>1, <2>2, <2>3, GoesOn
<1> QED BY <1>2, <1>4

\* The leader goes on with a log, all of which it accepts.
LEMMA GoesOnLeading ==
  ASSUME TypeOK, NEW h \in History, NEW p \in Server, NEW n, n = storage[p].promise, Leads(p, n), n.pid = p,
         NEW log \in Entries, NEW E \in SUBSET Ballot, NEW b \in Nat,
         h.est \subseteq E, E \subseteq h.est \cup {n}, n \in E, n \in h.est => b = h.base[n],
         Extends(h.rlog[n], log), h.acc[p][n] <= Len(log)
  PROVE  \E g : /\ Continues(h, g, p, n, log, Len(log), E, b, Onwards(h, n, leader_state[p], Len(log)))
                /\ Grows(p, h, g)
<1> DEFINE f == Onwards(h, n, leader_state[p], Len(log))
<1>1. n \in Ballot /\ Len(log) \in Nat
  BY StorageFields, LenProperties DEF TypeOK, Entries
<1>2. f \in [Server -> [SequenceNumber -> Nat]]
  BY <1>1, HistoryFields DEF Onwards
<1> HIDE DEF f
<1>3. PICK g : Continues(h, g, p, n, log, Len(log), E, b, f)
  BY <1>1, <1>2, ContinueFields
<1>4. Grows(p, h, g)
  BY <1>1, <1>3, GoesOn DEF f
<1> QED BY <1>3, <1>4 DEF f

------------------------------------------------------------------------------
(* The leader in its Accept phase *)

\* The log of round n is log now, all of which its leader p accepted.
LeadsOn(h, g, p, n, log) ==
  /\ Continues(h, g, p, n, log, Len(log), h.est, h.base[n], Onwards(h, n, leader_state[p], Len(log)))
  /\ Grows(p, h, g)

\* From l to m the leader has sent everyone it counts as promised something, or
\* nothing is new for them.
SeqNumsOK(p, l, m, new) ==
  /\ \A q \in Server : seq_num_leq(l.follower_seq_nums[q], m.follower_seq_nums[q])
  /\ \A q \in Peers(p) : is_promised(m, q) =>
       \/ ~ seq_num_leq(next_seq_num(m.follower_seq_nums[q]), next_seq_num(l.follower_seq_nums[q]))
       \/ ~ new /\ is_promised(l, q) /\ m.follower_seq_nums[q] = l.follower_seq_nums[q]

\* A leader in its Accept phase, with the storage s and the bookkeeping l now.
LEMMA LeaderStep ==
  ASSUME NEW p \in Server, NEW h, NEW g, Call(p, h),
         p \notin panicked, p \notin panicked',
         state[p] = << "Leader", "Accept" >>, state'[p] = << "Leader", "Accept" >>,
         NEW n, n = storage[p].promise, NEW log, LeadsOn(h, g, p, n, log),
         NEW s, storage'[p] = s, s.promise = n, s.accepted_round = n,
         NEW l, leader_state'[p] = l,
         NEW new, SeqNumsOK(p, leader_state[p], l, new)
  PROVE  Step(p, h, g)
<1>1. \A k \in Ballot : Leads(p, k)' => Leads(p, k)
  BY DEF Leads
<1>2. \A k \in Ballot : ~ Prepares(p, k)'
  BY DEF Prepares
<1>3. \A q \in Server : seq_num_leq(leader_state[p].follower_seq_nums[q], leader_state'[p].follower_seq_nums[q])
  BY DEF SeqNumsOK
<1>4. Moves(p)
  BY <1>1, <1>2, <1>3 DEF Moves, Call
<1> QED BY <1>4 DEF Step, Call, LeadsOn

\* The history g explains the state that follows.
LEMMA LeaderExplained ==
  ASSUME NEW p \in Server, NEW h, NEW g, Call(p, h),
         p \notin panicked, p \notin panicked', follower_state'[p] = follower_state[p],
         state[p] = << "Leader", "Accept" >>, state'[p] = << "Leader", "Accept" >>,
         NEW n, n = storage[p].promise, NEW log \in Entries, LeadsOn(h, g, p, n, log),
         NEW s \in Storage, storage'[p] = s, s.promise = n, s.accepted_round = n,
         s.accepted_idx = Len(log), LogOK(g, p, s),
         NEW l \in LeaderStates, leader_state'[p] = l, l.n_leader = n,
         l.max_promise_meta = leader_state[p].max_promise_meta,
         NEW new, SeqNumsOK(p, leader_state[p], l, new), new \/ Len(log) = storage[p].accepted_idx,
         CountsOK(g, l)', NEW out, Delivers(p, out), SendsOK(p, g, out)
  PROVE  Succeeds(h, g)
<1> DEFINE l0 == leader_state[p]
<1>1. /\ TypeOK /\ Inv /\ Explains(h) /\ h \in History /\ l0 \in LeaderStates /\ FollowingOK(h, p)
      /\ storage[p] \in Storage
  BY DEF Call, Explains, Inv, TypeOK, FollowerInv
<1>2. /\ l0.n_leader = n /\ n.pid = p /\ n \in Ballot
      /\ LeaderOK(h, p, storage[p], l0) /\ AcceptOK(h, p, storage[p], l0)
  <2>1. state[p][1] = "Leader"
    OBVIOUS
  <2> QED BY <1>1, <2>1, LeaderRound
<1>3. Step(p, h, g)
  BY LeaderStep
<1>4. /\ g \in History /\ g.est = h.est /\ g.rlog[n] = log /\ g.acc[p][n] = Len(log) /\ g.base[n] = h.base[n]
      /\ g.start[n] = Onwards(h, n, l0, Len(log)) /\ Grows(p, h, g)
  BY DEF LeadsOn, Continues
<1>5. Len(log) \in Nat
  BY LenProperties DEF Entries
<1>6. Accepts(p, h, g) /\ Founds(h, g)
  <2>1. Written(h, g, n)
    BY <1>2 DEF LeaderOK, Written
  <2> QED BY <1>4, <1>5, <2>1 DEF Accepts, Founds
<1>7. ReceivesOK(p, g)
  BY <1>2, <1>3, ReceivesKept
<1>8. BatchOK(g, p, storage'[p]) /\ LogOK(g, p, storage'[p])
  BY <1>2, <1>4 DEF BatchOK
<1>9. KeptPromiseOK(g, p)'
  BY <1>3, KeptPromiseKept
<1>10. CountsOK(g, leader_state[p])'
  OBVIOUS
<1>11. LeaderOK(g, p, s, l)
  BY <1>2, <1>4 DEF LeaderOK
<1>12. AcceptOK(g, p, s, l)
  <2> DEFINE max == l0.max_promise_meta
  <2>1. /\ max.n_accepted \in Ballot /\ max.accepted_idx \in Nat /\ max.n_accepted \prec n
        /\ max.accepted_idx <= h.base[n] /\ Agree(h.rlog[max.n_accepted], h.rlog[n], max.accepted_idx)
    BY <1>1, <1>2, LeaderFields DEF AcceptOK, PromiseMetaData
  <2>2. Agree(g.rlog[max.n_accepted], g.rlog[n], max.accepted_idx)
    <3>1. /\ Extends(h.rlog[max.n_accepted], g.rlog[max.n_accepted]) /\ Extends(h.rlog[n], g.rlog[n])
      BY <1>1, <1>2, <1>4, <2>1, GrowsKeeps
    <3>2. /\ h.rlog[max.n_accepted] \in Entries /\ g.rlog[max.n_accepted] \in Entries
          /\ h.rlog[n] \in Entries /\ g.rlog[n] \in Entries
      BY <1>1, <1>2, <1>4, <2>1, HistoryFields
    <3> QED BY SMTT(30), <2>1, <3>1, <3>2, AgreeExtends
  <2>3. ASSUME NEW q \in Peers(p), is_promised(l, q)
        PROVE  g.start[n][q][next_seq_num(l.follower_seq_nums[q])] = s.accepted_idx
    <3> DEFINE sn == next_seq_num(l.follower_seq_nums[q])
    <3>1. q \in Server /\ q \in Slots /\ sn \in SequenceNumber
      BY <2>3, ServersHaveSlots, LeaderFields DEF Peers
    <3> HIDE DEF sn
    <3>2. g.start[n][q][sn] = IF seq_num_leq(sn, next_seq_num(l0.follower_seq_nums[q]))
                                THEN h.start[n][q][sn] ELSE Len(log)
      BY <1>4, <3>1 DEF Onwards
    <3>3. CASE ~ seq_num_leq(sn, next_seq_num(l0.follower_seq_nums[q]))
      BY <3>2, <3>3 DEF sn
    <3>4. CASE ~ new /\ is_promised(l0, q) /\ l.follower_seq_nums[q] = l0.follower_seq_nums[q]
      <4>1. h.start[n][q][sn] = storage[p].accepted_idx
        BY <1>2, <2>3, <3>4 DEF AcceptOK, sn
      <4> QED BY <3>2, <3>4, <4>1 DEF sn
    <3> QED BY <2>3, <3>3, <3>4 DEF SeqNumsOK, sn
  <2> QED BY <1>4, <2>1, <2>2, <2>3 DEF AcceptOK
<1>13. LeadingOK(g, p)'
  BY <1>11, <1>12 DEF LeadingOK
<1>14. FollowingOK(g, p)'
  BY <1>1 DEF FollowingOK
<1>15. outgoing' = [q \in Server |-> NoMessages]
  BY DEF Call
<1> QED BY <1>3, <1>6, <1>7, <1>8, <1>9, <1>10, <1>13, <1>14, <1>15, StepExplained

------------------------------------------------------------------------------
(* What is decided *)

\* A later round began with all that was chosen in an earlier one.
ChosenInv(h) ==
  \A r \in Ballot, n \in h.est, i \in Nat \ {0} :
    r \prec n /\ Chosen(h, r, i) => i <= h.base[n] /\ Agree(h.rlog[r], h.rlog[n], i)

\* It follows from the invariant, before and after a step.
LEMMA ChosenFirst ==
  ASSUME NEW h
  PROVE  (ChoiceInv(h) => ChosenInv(h)) /\ (ChoiceInv(h)' => ChosenInv(h))
<1>1. ASSUME NEW r, NEW i, Chosen(h, r, i) PROVE Choosable(h, r, i)'
  <2>1. Voters(h, r, i) \subseteq MayVote(h, r, i)' /\ MayVote(h, r, i)' \subseteq Server
    BY DEF Voters, MayVote
  <2> QED BY <1>1, <2>1, QuorumGrows, QuorumSizes DEF Chosen, Choosable
<1>2. ChoiceInv(h)' => ChosenInv(h)
  BY <1>1 DEF ChoiceInv, ChosenInv
<1>3. ChoiceInv(h) => ChosenInv(h)
  BY ChosenIsChoosable DEF ChoiceInv, ChosenInv
<1> QED BY <1>2, <1>3

\* What was decided in round r or before is in the log of r and of every later
\* round.
LEMMA DecidedAgree ==
  ASSUME NEW h \in History, ChosenInv(h), NEW r \in Ballot, r \in h.est \cup {DefaultBallot},
         NEW k \in h.est, r \prec k, NEW d \in Nat, DecidedIn(h, r, d)
  PROVE  d <= h.base[k] /\ Agree(h.rlog[r], h.rlog[k], d)
<1>1. /\ k \in Ballot /\ h.base[k] \in Nat /\ h.rlog[r] \in Entries /\ h.rlog[k] \in Entries
      /\ Len(h.rlog[r]) \in Nat /\ Len(h.rlog[k]) \in Nat
  BY HistoryFields
<1>2. CASE d = 0
  BY <1>1, <1>2 DEF Agree
<1>3. CASE d # 0
  <2>1. PICK r0 \in Ballot : r0 \preceq r /\ Chosen(h, r0, d)
    BY <1>3 DEF DecidedIn
  <2>2. r0 \prec k /\ d \in Nat \ {0}
    BY <1>1, <1>3, <2>1, BallotStrictlyTransitive
  <2>3. d <= h.base[k] /\ Agree(h.rlog[r0], h.rlog[k], d)
    BY <2>1, <2>2 DEF ChosenInv
  <2>4. CASE r0 = r
    BY <2>3, <2>4
  <2>5. CASE r0 \prec r
    <3>1. r # DefaultBallot
      BY <2>5, DefaultBallotSmallest, DefaultBallotType, BallotAsymmetric
    <3>2. Agree(h.rlog[r0], h.rlog[r], d)
      BY <2>1, <2>2, <2>5, <3>1 DEF ChosenInv
    <3> QED BY <2>3, <3>2, AgreeSymmetric, AgreeTransitive
  <2> QED BY <2>1, <2>4, <2>5 DEF \preceq
<1> QED BY <1>2, <1>3

\* With d entries every smaller number of them is decided, in later rounds too.
LEMMA DecidedBefore ==
  ASSUME NEW h \in History, NEW r \in Ballot, NEW k \in Ballot, r \preceq k,
         NEW d \in Nat, NEW e \in Nat, e <= d, DecidedIn(h, r, d)
  PROVE  DecidedIn(h, k, e)
<1>1. CASE e = 0
  BY <1>1 DEF DecidedIn
<1>2. CASE e # 0
  <2>1. PICK r0 \in Ballot : r0 \preceq r /\ Chosen(h, r0, d)
    BY <1>2 DEF DecidedIn
  <2>2. r0 \preceq k
    BY <2>1, BallotTransitive
  <2>3. Voters(h, r0, d) \subseteq Voters(h, r0, e) /\ Voters(h, r0, e) \subseteq Server
    <3> SUFFICES ASSUME NEW q \in Server, h.acc[q][r0] >= d PROVE h.acc[q][r0] >= e
      BY DEF Voters
    <3>1. h.acc[q][r0] \in Nat
      BY HistoryFields
    <3> QED BY <3>1
  <2>4. Chosen(h, r0, e)
    BY <2>1, <2>3, QuorumGrows, QuorumSizes DEF Chosen
  <2> QED BY <2>2, <2>4 DEF DecidedIn
<1> QED BY <1>1, <1>2

\* What is decided in a round is no more than its log.
LEMMA DecidedIsLogged ==
  ASSUME NEW h \in History, \A q \in Server, r \in Ballot : h.acc[q][r] <= Len(h.rlog[r]),
         ChosenInv(h), NEW k \in h.est, h.base[k] <= Len(h.rlog[k]), NEW d \in Nat, DecidedIn(h, k, d)
  PROVE  d <= Len(h.rlog[k])
<1>1. k \in Ballot /\ h.base[k] \in Nat /\ Len(h.rlog[k]) \in Nat
  BY HistoryFields
<1>2. CASE d = 0
  BY <1>1, <1>2
<1>3. CASE d # 0
  <2>1. PICK r0 \in Ballot : r0 \preceq k /\ Chosen(h, r0, d)
    BY <1>3 DEF DecidedIn
  <2>2. CASE r0 \prec k
    <3>1. d <= h.base[k]
      BY <1>3, <2>1, <2>2 DEF ChosenInv
    <3> QED BY <1>1, <3>1
  <2>3. CASE r0 = k
    <3>1. Voters(h, k, d) # {}
      <4> SUFFICES ASSUME Voters(h, k, d) = {} PROVE FALSE
        OBVIOUS
      <4>1. Cardinality(Voters(h, k, d)) = 0
        BY FS_EmptySet
      <4>2. Cardinality(Voters(h, k, d)) >= WriteQuorum
        BY <2>1, <2>3 DEF Chosen
      <4> QED BY <4>1, <4>2, QuorumSizes
    <3>2. PICK q \in Server : h.acc[q][k] >= d
      BY <3>1 DEF Voters
    <3>3. h.acc[q][k] \in Nat /\ h.acc[q][k] <= Len(h.rlog[k])
      BY <1>1, HistoryFields
    <3> QED BY <1>1, <3>2, <3>3
  <2> QED BY <2>1, <2>2, <2>3 DEF \preceq
<1> QED BY <1>2, <1>3

------------------------------------------------------------------------------
(* What the leader announces *)

\* p stays in its Accept phase and leads round n with log from h on to g, with
\* the storage s and the bookkeeping l.
Leading(p, h, g, n, log, s, l) ==
  /\ p \notin panicked /\ panicked' = panicked /\ state[p] = << "Leader", "Accept" >>
  /\ n = storage[p].promise /\ log \in Entries /\ LeadsOn(h, g, p, n, log)
  /\ s \in Storage /\ s.promise = n /\ s.accepted_round = n /\ s.accepted_idx = Len(log)
  /\ l \in LeaderStates /\ l.n_leader = n /\ l.max_promise_meta = leader_state[p].max_promise_meta
  /\ Updates(p, s, state[p], l, follower_state[p])

\* Such a step, and what it leaves p with.
LEMMA LeadingStep ==
  ASSUME NEW p \in Server, NEW h, NEW g, From(h), NEW n, NEW log, NEW s, NEW l, Leading(p, h, g, n, log, s, l),
         NEW new, SeqNumsOK(p, leader_state[p], l, new)
  PROVE  /\ Step(p, h, g)
         /\ \A q \in Peers(p) : Same(q)
         /\ storage'[p] = s /\ leader_state'[p] = l
         /\ state'[p] = << "Leader", "Accept" >> /\ follower_state'[p] = follower_state[p]
<1>1. TypeOK
  BY DEF From, Inv
<1>2. /\ \A q \in Peers(p) : Same(q)
      /\ storage'[p] = s /\ leader_state'[p] = l
      /\ state'[p] = << "Leader", "Accept" >> /\ follower_state'[p] = follower_state[p]
  BY <1>1, OthersSame DEF Leading
<1>3. \A k \in Ballot : (Leads(p, k)' => Leads(p, k)) /\ ~ Prepares(p, k)'
  BY <1>2 DEF Leads, Prepares, Leading
<1>4. \A q \in Server : seq_num_leq(leader_state[p].follower_seq_nums[q], leader_state'[p].follower_seq_nums[q])
  BY <1>2 DEF SeqNumsOK
<1>5. Moves(p)
  BY <1>2, <1>3, <1>4 DEF Moves, Leading
<1> QED BY <1>2, <1>5 DEF Step, From, Leading, LeadsOn

\* The step, with what p has now.
StepsTo(p, h, g, s, l) == Step(p, h, g) /\ storage'[p] = s /\ leader_state'[p] = l

\* Such a step once more.
LEMMA LeadingSteps ==
  ASSUME NEW p \in Server, NEW h, NEW g, From(h), NEW n, NEW log, NEW s, NEW l, Leading(p, h, g, n, log, s, l),
         NEW new, SeqNumsOK(p, leader_state[p], l, new)
  PROVE  StepsTo(p, h, g, s, l)
BY LeadingStep DEF StepsTo

\* What l counts, m counts too, or it is as g tells.
Counted(g, l, m) ==
  \A q \in Slots :
    /\ m.latest_accept_meta[q] = l.latest_accept_meta[q]
    /\ \/ m.accepted_indexes[q] = l.accepted_indexes[q]
       \/ q \in Server /\ m.accepted_indexes[q] <= g.acc[q][m.n_leader]
    /\ m.promises_meta[q] = l.promises_meta[q]

\* The history g explains the state that follows.
LEMMA LeadingExplained ==
  ASSUME NEW p \in Server, NEW h, NEW g, From(h), NEW n, NEW log, NEW s, NEW l, Leading(p, h, g, n, log, s, l),
         NEW new, SeqNumsOK(p, leader_state[p], l, new), new \/ Len(log) = storage[p].accepted_idx,
         LogOK(g, p, s),
         NEW l1 \in LeaderStates, CountsOK(h, l1), l1.n_leader = n, Counted(g, l1, l),
         NEW out, Fresh(p, g, out), Ended(p, out)
  PROVE  Succeeds(h, g)
<1>1. /\ Step(p, h, g)
      /\ \A q \in Peers(p) : Same(q)
      /\ storage'[p] = s /\ leader_state'[p] = l
      /\ state'[p] = << "Leader", "Accept" >> /\ follower_state'[p] = follower_state[p]
  BY LeadingStep
<1>2. Delivers(p, out) /\ SendsOK(p, g, out) /\ outgoing' = [q \in Server |-> NoMessages]
  BY CallEnds
<1>3. Call(p, h)
  BY <1>1, <1>2 DEF Call, From
<1>4. CountsOK(g, l1)'
  BY <1>1, CountsKept
<1>5. CountsOK(g, l)'
  BY <1>4 DEF CountsOK, Counted, is_promised, Leading
<1> QED BY <1>1, <1>2, <1>3, <1>5, LeaderExplained DEF Leading

\* The leader has a new accepted index, idx of q, and sends one message to
\* everyone who promised.
Announces(l, m, q, idx) ==
  /\ m \in LeaderStates /\ m.n_leader = l.n_leader
  /\ m.max_promise_meta = l.max_promise_meta
  /\ \A r \in Slots :
       /\ m.promises_meta[r] = l.promises_meta[r] /\ m.latest_accept_meta[r] = l.latest_accept_meta[r]
       /\ m.accepted_indexes[r] = IF r = q THEN idx ELSE l.accepted_indexes[r]
       /\ m.follower_seq_nums[r] = IF r \in get_promised_followers(l) \cap Server
                                     THEN next_seq_num(l.follower_seq_nums[r])
                                     ELSE l.follower_seq_nums[r]

\* Its sequence numbers move on.
LEMMA AnnouncesSeqNums ==
  ASSUME NEW p \in Server, NEW l \in LeaderStates, NEW m, NEW q, NEW idx, Announces(l, m, q, idx), l.n_leader.pid = p
  PROVE  SeqNumsOK(p, l, m, TRUE)
<1>1. \A r \in Server : r \in Slots /\ l.follower_seq_nums[r] \in SequenceNumber
                        /\ next_seq_num(l.follower_seq_nums[r]) \in SequenceNumber
  BY ServersHaveSlots, LeaderFields
<1>2. ASSUME NEW r \in Server PROVE seq_num_leq(l.follower_seq_nums[r], m.follower_seq_nums[r])
  BY <1>1, SeqNumReflexive, SeqNumNext DEF Announces
<1>3. ASSUME NEW r \in Peers(p), is_promised(m, r)
      PROVE  ~ seq_num_leq(next_seq_num(m.follower_seq_nums[r]), next_seq_num(l.follower_seq_nums[r]))
  <2>1. r \in get_promised_followers(l) \cap Server /\ r \in Slots
    BY <1>1, <1>3 DEF Announces, get_promised_followers, is_promised, Peers
  <2>2. m.follower_seq_nums[r] = next_seq_num(l.follower_seq_nums[r])
    BY <2>1 DEF Announces
  <2> QED BY <1>1, <2>1, <2>2, SeqNumReflexive, SeqNumNext
<1> QED BY <1>2, <1>3 DEF SeqNumsOK

\* The next message to y goes on behind the log that there was, and the one
\* after it behind the log that there is now.
LEMMA NextStart ==
  ASSUME TypeOK, NEW h \in History, NEW p \in Server, NEW n, NEW log, NEW g, LeadsOn(h, g, p, n, log),
         NEW y \in Server, NEW sn, sn = next_seq_num(leader_state[p].follower_seq_nums[y])
  PROVE  /\ sn \in SequenceNumber /\ next_seq_num(sn) \in SequenceNumber
         /\ g.start[n][y][sn] = h.start[n][y][sn]
         /\ g.start[n][y][next_seq_num(sn)] = Len(log)
<1>1. y \in Slots /\ leader_state[p] \in LeaderStates
  BY ServersHaveSlots DEF TypeOK
<1>2. leader_state[p].follower_seq_nums[y] \in SequenceNumber /\ sn \in SequenceNumber
  BY <1>1, LeaderFields
<1>3. next_seq_num(sn) \in SequenceNumber
  BY <1>2, SequenceNumberType
<1>4. seq_num_leq(sn, sn) /\ ~ seq_num_leq(next_seq_num(sn), sn)
  BY <1>2, SeqNumReflexive, SeqNumNext
<1>5. g.start[n] = Onwards(h, n, leader_state[p], Len(log))
  BY DEF LeadsOn, Continues
<1> QED BY <1>2, <1>3, <1>4, <1>5 DEF Onwards

\* The entries behind the old log, or that there are none.
LEMMA AnnounceFresh ==
  ASSUME NEW p \in Server, NEW h, NEW g, From(h), NEW n, NEW log, NEW s, NEW l, Leading(p, h, g, n, log, s, l),
         NEW y \in Peers(p), is_promised(leader_state[p], y),
         NEW sn, sn = next_seq_num(leader_state[p].follower_seq_nums[y]), l.follower_seq_nums[y] = sn,
         NEW ents \in Entries, Segment(log, storage[p].accepted_idx, ents),
         Len(log) = storage[p].accepted_idx + Len(ents),
         NEW d \in Nat, DecidedIn(g, n, d),
         NEW m, m = AcceptDecide(n, sn, d, ents) \/ (ents = << >> /\ m = Decide(n, sn, d))
  PROVE  m \in Message /\ FreshOK(p, g, y, m)
<1>1. /\ TypeOK /\ Inv /\ Explains(h) /\ h \in History /\ y \in Server /\ p \notin panicked
      /\ state[p] = << "Leader", "Accept" >> /\ state[p][1] = "Leader" /\ n = storage[p].promise
  BY DEF From, Explains, Inv, Peers, Leading
<1>2. /\ n \in h.est /\ n.pid = p /\ n \in Ballot /\ AcceptOK(h, p, storage[p], leader_state[p])
      /\ leader_state[p].n_leader = n
  BY <1>1, LeaderRound DEF LeaderOK
<1>3. LeadsOn(h, g, p, n, log)
  BY DEF Leading
<1>4. /\ sn \in SequenceNumber /\ next_seq_num(sn) \in SequenceNumber
      /\ g.start[n][y][sn] = storage[p].accepted_idx
      /\ g.start[n][y][next_seq_num(sn)] = Len(log)
  <2>1. h.start[n][y][sn] = storage[p].accepted_idx
    BY <1>2 DEF AcceptOK
  <2> QED BY SMTT(30), <1>1, <1>3, <2>1, NextStart
<1>5. g.rlog[n] = log /\ n \in g.est /\ Len(log) \in Nat
  BY <1>2, <1>3, LenProperties DEF LeadsOn, Continues, Leading, Entries
<1>6. Sent(p, n, y, sn)'
  <2>1. leader_state'[p] = l
    BY <1>1, OthersSame DEF Leading
  <2> QED BY <1>4, <2>1, SeqNumReflexive DEF Sent
<1>7. m \in Message
  BY <1>2, <1>4 DEF Message, AcceptDecide, Decide
<1>8. m.n = n /\ m.seq_num = sn /\ m.decided_idx = d /\ m.type \in {"AcceptDecide", "Decide"}
  BY DEF AcceptDecide, Decide
<1>9. m.type = "AcceptDecide" => m.entries = ents
  BY DEF AcceptDecide, Decide
<1>10. End(g, y, m) = Len(log)
  BY <1>4, <1>8 DEF End
<1>11. AcceptMsgOK(g, p, y, m)'
  BY <1>2, <1>5, <1>6, <1>8, <1>10 DEF AcceptMsgOK
<1>12. m.type = "AcceptDecide" => DecideMsgOK(g, y, m)
  BY <1>4, <1>5, <1>8, <1>9, <1>10 DEF DecideMsgOK
<1>13. m.type = "Decide" => End(g, y, m) = g.start[m.n][y][m.seq_num]
  <2>1. m.type = "Decide" => ents = << >>
    BY DEF AcceptDecide, Decide
  <2>2. Len(<< >>) = 0 /\ storage[p].accepted_idx \in Nat
    BY <1>1, StorageFields DEF TypeOK
  <2> QED BY <1>4, <1>8, <1>10, <2>1, <2>2
<1> QED BY <1>7, <1>8, <1>11, <1>12, <1>13 DEF FreshOK, MsgOK

\* To everyone who promised goes out the entries, or what is decided.
Announced(p, out, l, m, n, d, ents) ==
  \A y \in Peers(p) :
    /\ y \notin get_promised_followers(l) => out[y] = << >>
    /\ y \in get_promised_followers(l) =>
         \E k : /\ out[y] = << k >>
                /\ \/ k = AcceptDecide(n, m.follower_seq_nums[y], d, ents)
                   \/ ents = << >> /\ k = Decide(n, m.follower_seq_nums[y], d)

\* The leader has new entries, or decided more.
LEMMA AnnounceExplained ==
  ASSUME NEW p \in Server, NEW h, NEW g, From(h), NEW n, NEW log, NEW s, NEW l, Leading(p, h, g, n, log, s, l),
         LogOK(g, p, s), NEW q \in Server, NEW idx, idx <= g.acc[q][n], Announces(leader_state[p], l, q, idx),
         NEW ents \in Entries, Segment(log, storage[p].accepted_idx, ents),
         Len(log) = storage[p].accepted_idx + Len(ents),
         NEW out, Ended(p, out), Announced(p, out, leader_state[p], l, n, s.decided_idx, ents)
  PROVE  Succeeds(h, g)
<1>1. /\ TypeOK /\ Inv /\ Explains(h) /\ h \in History /\ p \notin panicked
      /\ state[p] = << "Leader", "Accept" >> /\ state[p][1] = "Leader" /\ n = storage[p].promise
      /\ leader_state[p] \in LeaderStates /\ CountsOK(h, leader_state[p])
  BY FromFacts DEF Leading
<1>2. n.pid = p /\ leader_state[p].n_leader = n
  BY <1>1, LeaderRound
<1>3. SeqNumsOK(p, leader_state[p], l, TRUE)
  BY <1>1, <1>2, AnnouncesSeqNums, Zenon
<1>4. Counted(g, leader_state[p], l)
  BY <1>2 DEF Counted, Announces, Leading
<1>5. s.decided_idx \in Nat /\ DecidedIn(g, n, s.decided_idx)
  BY StorageFields DEF LogOK, Leading
<1>6. Fresh(p, g, out)
  <2> SUFFICES ASSUME NEW y \in Peers(p), y \in get_promised_followers(leader_state[p])
               PROVE  \E m \in Message : out[y] = << m >> /\ FreshOK(p, g, y, m)
    BY DEF Fresh, Announced
  <2>1. y \in Server /\ y \in Slots /\ is_promised(leader_state[p], y)
    BY ServersHaveSlots DEF Peers, get_promised_followers
  <2>2. PICK sn : sn = next_seq_num(leader_state[p].follower_seq_nums[y])
    OBVIOUS
  <2>3. l.follower_seq_nums[y] = sn
    BY <2>1, <2>2 DEF Announces
  <2>4. PICK m : /\ out[y] = << m >>
                 /\ m = AcceptDecide(n, sn, s.decided_idx, ents) \/ (ents = << >> /\ m = Decide(n, sn, s.decided_idx))
    BY <2>3 DEF Announced
  <2>5. m \in Message /\ FreshOK(p, g, y, m)
    BY <1>5, <2>1, <2>2, <2>3, <2>4, AnnounceFresh
  <2> QED BY <2>4, <2>5
<1>7. PICK new : new = TRUE
  OBVIOUS
<1> QED BY <1>1, <1>2, <1>3, <1>4, <1>6, <1>7, LeadingExplained

\* Those in Q have their next sequence number.
Advance(l, Q) ==
  [l EXCEPT !.follower_seq_nums = [r \in Slots |-> IF r \in Q THEN next_seq_num(@[r]) ELSE @[r]]]

\* The bookkeeping m differs from l in the accepted indexes, and no message waits.
CountsAs(l, m, q, idx) ==
  /\ m \in LeaderStates /\ m.n_leader = l.n_leader
  /\ m.follower_seq_nums = l.follower_seq_nums /\ m.promises_meta = l.promises_meta
  /\ m.max_promise_meta = l.max_promise_meta
  /\ get_promised_followers(m) = get_promised_followers(l)
  /\ \A r \in Slots : /\ m.accepted_indexes[r] = IF r = q THEN idx ELSE l.accepted_indexes[r]
                      /\ m.latest_accept_meta[r] = 0 /\ l.latest_accept_meta[r] = 0
                      /\ \A out : ~ has_latest_accdec(m, out, r)

\* set_accepted_idx.
LEMMA CountsAsFields ==
  ASSUME NEW l \in LeaderStates, NEW q \in Slots, NEW idx \in Nat, \A r \in Slots : l.latest_accept_meta[r] = 0,
         NEW m, m = set_accepted_idx(l, q, idx)
  PROVE  CountsAs(l, m, q, idx)
<1>1. /\ m \in LeaderStates /\ m.n_leader = l.n_leader
      /\ m.follower_seq_nums = l.follower_seq_nums /\ m.promises_meta = l.promises_meta
      /\ m.latest_accept_meta = l.latest_accept_meta
      /\ m.max_promise_meta = l.max_promise_meta
      /\ m.accepted_indexes = [l.accepted_indexes EXCEPT ![q] = idx]
  <2>1. m \in LeaderStates
    BY SetAcceptedIdxOK
  <2> QED BY <2>1 DEF LeaderStates, set_accepted_idx
<1>2. get_promised_followers(m) = get_promised_followers(l)
  BY <1>1 DEF get_promised_followers, is_promised
<1>3. \A out, r : r \in Slots => ~ has_latest_accdec(m, out, r)
  BY <1>1 DEF has_latest_accdec
<1>4. \A r \in Slots : m.accepted_indexes[r] = IF r = q THEN idx ELSE l.accepted_indexes[r]
  BY <1>1 DEF LeaderStates
<1> QED BY <1>1, <1>2, <1>3, <1>4 DEF CountsAs

\* The bookkeeping of handle_accepted.
LEMMA AdvanceAnnounces ==
  ASSUME NEW l \in LeaderStates, NEW l1, NEW q, NEW idx, CountsAs(l, l1, q, idx),
         NEW Q, Q = get_promised_followers(l) \cap Server
  PROVE  Announces(l, Advance(l1, Q), q, idx)
<1> DEFINE sns == [r \in Slots |-> IF r \in Q THEN next_seq_num(l.follower_seq_nums[r]) ELSE l.follower_seq_nums[r]]
<1>1. sns \in [Slots -> SequenceNumber]
  BY LeaderFields
<1>2. Advance(l1, Q) = [l1 EXCEPT !.follower_seq_nums = sns]
  BY DEF Advance, CountsAs
<1>3. \A r \in Slots : sns[r] = IF r \in get_promised_followers(l) \cap Server
                                 THEN next_seq_num(l.follower_seq_nums[r]) ELSE l.follower_seq_nums[r]
  OBVIOUS
<1> HIDE DEF sns
<1>4. PICK m : m = [l1 EXCEPT !.follower_seq_nums = sns]
  OBVIOUS
<1>5. /\ m.follower_seq_nums = sns /\ m.latest_accept_meta = l1.latest_accept_meta /\ m.n_leader = l1.n_leader
      /\ m.promises_meta = l1.promises_meta /\ m.accepted_indexes = l1.accepted_indexes
      /\ m.max_promise_meta = l1.max_promise_meta
      /\ m \in LeaderStates
  BY <1>1, <1>4 DEF LeaderStates, CountsAs
<1>6. Announces(l, m, q, idx)
  BY <1>3, <1>5 DEF Announces, CountsAs
<1> QED BY <1>2, <1>4, <1>6

\* accdec_leader_state.
LEMMA AccdecAnnounces ==
  ASSUME Plain, NEW l \in LeaderStates, NEW l1, NEW q, NEW idx, CountsAs(l, l1, q, idx), NEW out
  PROVE  Announces(l, accdec_leader_state(l1, out), q, idx)
<1> DEFINE Q == get_promised_followers(l) \cap Server
           lam == [r \in Slots |-> IF r \in Q THEN cached_idx(out, r) ELSE l1.latest_accept_meta[r]]
<1>1. PICK l2 : l2 = Advance(l1, Q)
  OBVIOUS
<1>2. Announces(l, l2, q, idx)
  BY <1>1, AdvanceAnnounces
<1>3. lam \in [Slots -> Nat] /\ \A r \in Slots : lam[r] = 0
  BY DEF cached_idx, Plain, CountsAs
<1>4. {r \in get_promised_followers(l1) \cap Server : ~ has_latest_accdec(l1, out, r)} = Q
  BY ServersHaveSlots DEF CountsAs
<1>5. accdec_leader_state(l1, out) = [l2 EXCEPT !.latest_accept_meta = lam]
  <2>1. l1 \in LeaderStates
    BY DEF CountsAs
  <2> HIDE DEF Q
  <2>2. accdec_leader_state(l1, out) =
          [l1 EXCEPT !.follower_seq_nums = [r \in Slots |-> IF r \in Q THEN next_seq_num(@[r]) ELSE @[r]],
                     !.latest_accept_meta = lam]
    BY <1>4 DEF accdec_leader_state
  <2> HIDE DEF lam
  <2> QED BY <1>1, <2>1, <2>2 DEF Advance, LeaderStates
<1> HIDE DEF lam, Q
<1>6. PICK m : m = [l2 EXCEPT !.latest_accept_meta = lam]
  OBVIOUS
<1>7. /\ m.follower_seq_nums = l2.follower_seq_nums /\ m.latest_accept_meta = lam /\ m.n_leader = l2.n_leader
      /\ m.promises_meta = l2.promises_meta /\ m.accepted_indexes = l2.accepted_indexes
      /\ m.max_promise_meta = l2.max_promise_meta
      /\ m \in LeaderStates
  BY <1>2, <1>3, <1>6 DEF LeaderStates, Announces
<1>8. \A r \in Slots : l2.latest_accept_meta[r] = 0 /\ l.latest_accept_meta[r] = 0
  BY <1>2 DEF Announces, CountsAs
<1>9. Announces(l, m, q, idx)
  BY <1>2, <1>3, <1>7, <1>8 DEF Announces
<1> QED BY <1>5, <1>6, <1>9

\* How far a leader in its Accept phase is, and that its history can go on.
LEMMA LeaderAccepts ==
  ASSUME NEW h, From(h), NEW p \in Server, p \notin panicked, state[p] = << "Leader", "Accept" >>,
         NEW n, n = storage[p].promise
  PROVE  /\ n \in Ballot /\ n \in h.est /\ n.pid = p /\ leader_state[p].n_leader = n /\ Leads(p, n)
         /\ storage[p].accepted_round = n /\ h.rlog[n] \in Entries
         /\ Len(h.rlog[n]) = storage[p].accepted_idx /\ h.acc[p][n] = storage[p].accepted_idx
         /\ storage[p].accepted_idx \in Nat /\ h.base[n] <= storage[p].accepted_idx /\ h.base[n] \in Nat
         /\ \A log \in Entries : Extends(h.rlog[n], log) => \E g : LeadsOn(h, g, p, n, log)
<1>1. /\ TypeOK /\ Inv /\ Explains(h) /\ h \in History /\ storage[p] \in Storage
      /\ LogOK(h, p, storage[p]) /\ BatchOK(h, p, storage[p]) /\ state[p][1] = "Leader"
  BY FromFacts
<1>2. /\ n \in Ballot /\ n \in h.est /\ n.pid = p /\ leader_state[p].n_leader = n /\ storage[p].accepted_round = n
  BY <1>1, LeaderRound DEF LeaderOK
<1>3. Leads(p, n)
  BY DEF Leads
<1>4. /\ h.rlog[n] \in Entries /\ storage[p].accepted_idx \in Nat /\ h.base[n] \in Nat
      /\ Len(h.rlog[n]) = storage[p].accepted_idx /\ h.acc[p][n] = storage[p].accepted_idx
      /\ h.base[n] <= storage[p].accepted_idx
  BY <1>1, <1>2, HistoryFields, StorageFields DEF LogOK, BatchOK
<1>5. ASSUME NEW log \in Entries, Extends(h.rlog[n], log) PROVE \E g : LeadsOn(h, g, p, n, log)
  <2>1. h.acc[p][n] <= Len(log)
    BY <1>4, <1>5, ExtendsLonger
  <2>2. PICK E, b : E \in SUBSET Ballot /\ b \in Nat /\ E = h.est /\ b = h.base[n]
    BY <1>1, <1>4, HistoryFields
  <2>3. h.est \subseteq E /\ E \subseteq h.est \cup {n} /\ n \in E /\ (n \in h.est => b = h.base[n])
    BY <1>2, <2>2
  <2>4. PICK g : /\ Continues(h, g, p, n, log, Len(log), E, b, Onwards(h, n, leader_state[p], Len(log)))
                 /\ Grows(p, h, g)
    BY <1>1, <1>2, <1>3, <1>5, <2>1, <2>2, <2>3, GoesOnLeading
  <2> QED BY <2>2, <2>4 DEF LeadsOn
<1> QED BY <1>2, <1>3, <1>4, <1>5

\* The log of the leader.
LEMMA LeaderLogOK ==
  ASSUME NEW h, From(h), NEW p \in Server, p \notin panicked, state[p] = << "Leader", "Accept" >>,
         NEW n, n = storage[p].promise, NEW g, NEW log \in Entries, LeadsOn(h, g, p, n, log), Extends(h.rlog[n], log),
         NEW s \in Storage, s.snapshot = None, s.stopsign = None, s.accepted_round = n, s.accepted_idx = Len(log),
         s.accepted_idx = s.compacted_idx + Len(s.log), Segment(log, s.compacted_idx, s.log),
         s.decided_idx <= s.accepted_idx, DecidedIn(g, n, s.decided_idx),
         s.compacted_idx = storage[p].compacted_idx
  PROVE  LogOK(g, p, s)
<1>1. /\ n \in h.est /\ h.base[n] \in Nat /\ h.base[n] <= Len(h.rlog[n]) /\ h.rlog[n] \in Entries
  BY LeaderAccepts
<1>2. g.est = h.est /\ g.base[n] = h.base[n] /\ g.rlog[n] = log /\ g.acc[p][n] = Len(log)
  BY DEF LeadsOn, Continues
<1>3. Len(h.rlog[n]) \in Nat /\ Len(log) \in Nat /\ Len(h.rlog[n]) <= Len(log)
  BY <1>1, ExtendsLonger
<1>4. g.base[s.accepted_round] <= s.accepted_idx
  BY <1>1, <1>2, <1>3
<1>5. s.accepted_round \in g.est \cup {DefaultBallot} /\ g.acc[p][s.accepted_round] = s.accepted_idx
  BY <1>1, <1>2
<1>6. Segment(g.rlog[s.accepted_round], s.compacted_idx, s.log) /\ DecidedIn(g, s.accepted_round, s.decided_idx)
  BY <1>2
<1>7. HeldByAll(g, s.compacted_idx)
  <2>1. TypeOK /\ h \in History /\ LogOK(h, p, storage[p])
    BY FromFacts
  <2>2. HeldByAll(h, s.compacted_idx) /\ s.compacted_idx \in Nat
    BY <2>1, StorageFields DEF LogOK
  <2> QED BY <2>1, <2>2, HeldGrows DEF LeadsOn
<1> QED BY <1>4, <1>5, <1>6, <1>7 DEF LogOK

\* What is_chosen finds to be chosen is.
LEMMA IsChosen ==
  ASSUME NEW h \in History, NEW l \in LeaderStates, NEW idx \in Nat \ {0}, is_chosen(l, idx),
         \A r \in Slots : l.accepted_indexes[r] > 0 => r \in Server /\ l.accepted_indexes[r] <= h.acc[r][l.n_leader]
  PROVE  Chosen(h, l.n_leader, idx)
<1> DEFINE A == {r \in Slots : l.accepted_indexes[r] >= idx}
           n == l.n_leader
<1>1. n \in Ballot /\ \A r \in Slots : l.accepted_indexes[r] \in Nat
  BY LeaderFields
<1>2. \A r \in Server : h.acc[r][n] \in Nat
  BY <1>1, HistoryFields
<1>3. A \subseteq Voters(h, n, idx)
  BY <1>1, <1>2 DEF Voters
<1>4. Cardinality(A) >= WriteQuorum
  BY DEF is_chosen, is_accept_quorum
<1>5. Voters(h, n, idx) \in SUBSET Server /\ WriteQuorum \in Nat
  BY QuorumSizes DEF Voters
<1> HIDE DEF A
<1> QED BY <1>3, <1>4, <1>5, QuorumGrows DEF Chosen

\* An Accepted of the round that p leads.
LEMMA AcceptedArrives ==
  ASSUME NEW h, From(h), NEW p \in Server, NEW q \in Peers(p), Incoming(p, q, "Accepted"),
         NEW m, m = Head(net[q][p]), counts_accepted(p, m), NEW n, n = storage[p].promise
  PROVE  /\ net[q][p] # << >> /\ p \notin panicked /\ state[p] = << "Leader", "Accept" >>
         /\ q \in Server /\ q \in Slots
         /\ m.accepted_idx \in Nat /\ m.accepted_idx <= h.acc[q][n] /\ m.accepted_idx <= Len(h.rlog[n])
         /\ CountsOK(h, set_accepted_idx(leader_state[p], q, m.accepted_idx))
<1>1. net[q][p] # << >> /\ p \notin panicked /\ state[p] = << "Leader", "Accept" >> /\ m.type = "Accepted"
  BY DEF Incoming, counts_accepted
<1>2. TypeOK /\ Explains(h) /\ VoteInv(h) /\ h \in History /\ CountsOK(h, leader_state[p]) /\ leader_state[p] \in LeaderStates
  BY FromFacts
<1>3. m \in Message /\ MsgOK(h, q, p, m)
  BY <1>1, <1>2, HeadOK
<1>4. n \in Ballot /\ leader_state[p].n_leader = n /\ m.n = n
  BY <1>1, LeaderAccepts DEF counts_accepted
<1>5. m.accepted_idx \in Nat
  BY <1>1, <1>3, MessageFields
<1>6. m.accepted_idx <= h.acc[q][n]
  BY <1>1, <1>3, <1>4 DEF MsgOK
<1>7. q \in Server /\ q \in Slots
  BY ServersHaveSlots DEF Peers
<1>8. m.accepted_idx <= Len(h.rlog[n])
  <2>1. h.acc[q][n] \in Nat /\ Len(h.rlog[n]) \in Nat /\ h.acc[q][n] <= Len(h.rlog[n])
    BY <1>2, <1>4, <1>7, HistoryFields DEF VoteInv
  <2> QED BY <1>5, <1>6, <2>1
<1>9. CountsOK(h, set_accepted_idx(leader_state[p], q, m.accepted_idx))
  <2>1. PICK l1 : l1 = set_accepted_idx(leader_state[p], q, m.accepted_idx)
    OBVIOUS
  <2>2. /\ l1.n_leader = n /\ l1.promises_meta = leader_state[p].promises_meta
        /\ l1.latest_accept_meta = leader_state[p].latest_accept_meta
        /\ l1.accepted_indexes = [leader_state[p].accepted_indexes EXCEPT ![q] = m.accepted_idx]
    BY <1>2, <1>4, <2>1 DEF set_accepted_idx, LeaderStates
  <2>3. \A r \in Slots : l1.accepted_indexes[r] = IF r = q THEN m.accepted_idx ELSE leader_state[p].accepted_indexes[r]
    BY <1>2, <2>2 DEF LeaderStates
  <2>4. CountsOK(h, l1)
    BY <1>2, <1>4, <1>6, <1>7, <2>2, <2>3 DEF CountsOK, is_promised
  <2> QED BY <2>1, <2>4
<1> QED BY <1>1, <1>5, <1>6, <1>7, <1>8, <1>9

\* handle_accepted, when nothing new is chosen.
LEMMA AcceptedCountedExplained ==
  ASSUME NEW h, From(h), NEW p \in Server, NEW q \in Peers(p), Incoming(p, q, "Accepted"),
         NEW m, m = Head(net[q][p]), counts_accepted(p, m),
         NEW l, l = set_accepted_idx(leader_state[p], q, m.accepted_idx),
         leader_state' = [leader_state EXCEPT ![p] = l], Handled(p, q, outgoing[p]),
         UNCHANGED << storage, state, follower_state, panicked >>
  PROVE  Succeeds(h, h)
<1>1. PICK n : n = storage[p].promise
  OBVIOUS
<1>2. /\ net[q][p] # << >> /\ p \notin panicked /\ state[p] = << "Leader", "Accept" >> /\ state[p][1] = "Leader"
      /\ q \in Slots /\ m.accepted_idx \in Nat /\ CountsOK(h, l)
  BY <1>1, AcceptedArrives
<1>3. /\ TypeOK /\ Inv /\ Explains(h) /\ outgoing[p] = NoMessages /\ leader_state[p] \in LeaderStates
  BY FromFacts
<1>4. LeaderOK(h, p, storage[p], leader_state[p]) /\ AcceptOK(h, p, storage[p], leader_state[p])
  BY <1>2, <1>3, LeaderRound
<1>5. /\ l \in LeaderStates /\ l.n_leader = leader_state[p].n_leader
      /\ l.follower_seq_nums = leader_state[p].follower_seq_nums
      /\ l.promises_meta = leader_state[p].promises_meta /\ l.max_promise_meta = leader_state[p].max_promise_meta
  <2>1. l \in LeaderStates
    BY <1>2, <1>3, SetAcceptedIdxOK
  <2> QED BY <1>3, <2>1 DEF LeaderStates, set_accepted_idx
<1>6. LeaderOK(h, p, storage[p], l) /\ AcceptOK(h, p, storage[p], l)
  BY <1>4, <1>5 DEF LeaderOK, AcceptOK, is_promised
<1>7. Fresh(p, h, NoMessages) /\ Ended(p, NoMessages)
  BY <1>2, <1>3 DEF Fresh, NoMessages, Peers, Ended, Handled
<1>8. Delivers(p, NoMessages) /\ SendsOK(p, h, NoMessages) /\ outgoing' = [y \in Server |-> NoMessages]
  BY <1>7, CallEnds
<1>9. (\A y \in Peers(p) : Same(y)) /\ leader_state'[p] = l
  <2>1. Updates(p, storage[p], state[p], l, follower_state[p])
    BY <1>3, Unchanged DEF Updates
  <2> QED BY <1>3, <2>1, OthersSame
<1>10. Call(p, h)
  BY <1>8, <1>9 DEF Call, From
<1>11. state[p] # << "Leader", "Prepare" >>
  BY <1>2
<1> QED BY <1>2, <1>5, <1>6, <1>8, <1>9, <1>10, <1>11, BookkeepingExplained

\* handle_accepted, when the leader decides.
LEMMA DecidingExplained ==
  ASSUME NEW h, From(h), NEW p \in Server, NEW q \in Peers(p), Incoming(p, q, "Accepted"),
         NEW m, m = Head(net[q][p]), counts_accepted(p, m), NEW idx, idx = m.accepted_idx,
         NEW l1, l1 = set_accepted_idx(leader_state[p], q, idx),
         idx > storage[p].decided_idx, is_chosen(l1, idx),
         NEW l, Announces(leader_state[p], l, q, idx),
         NEW out, Handled(p, q, out),
         Announced(p, out, leader_state[p], l, leader_state[p].n_leader, idx, << >>),
         storage' = [storage EXCEPT ![p].decided_idx = idx], leader_state' = [leader_state EXCEPT ![p] = l],
         UNCHANGED << state, follower_state, panicked >>
  PROVE  \E g : Succeeds(h, g)
<1>1. PICK n : n = storage[p].promise
  OBVIOUS
<1>2. /\ net[q][p] # << >> /\ p \notin panicked /\ state[p] = << "Leader", "Accept" >>
      /\ q \in Slots /\ q \in Server /\ idx \in Nat /\ CountsOK(h, l1) /\ idx <= h.acc[q][n] /\ idx <= Len(h.rlog[n])
  BY <1>1, AcceptedArrives
<1>3. /\ TypeOK /\ Inv /\ Explains(h) /\ outgoing[p] = NoMessages /\ leader_state[p] \in LeaderStates /\ Plain
      /\ h \in History /\ storage[p] \in Storage /\ storage[p].decided_idx \in Nat /\ LogOK(h, p, storage[p])
      /\ \A r \in Slots : leader_state[p].latest_accept_meta[r] = 0
  BY FromFacts, StorageFields
<1>4. /\ n \in Ballot /\ n \in h.est /\ n.pid = p /\ leader_state[p].n_leader = n
      /\ storage[p].accepted_round = n /\ h.rlog[n] \in Entries
      /\ Len(h.rlog[n]) = storage[p].accepted_idx /\ storage[p].accepted_idx \in Nat
  BY SMTT(30), <1>1, <1>2, LeaderAccepts
<1>5. PICK log : log \in Entries /\ log = h.rlog[n] /\ Extends(h.rlog[n], log) /\ Len(log) = storage[p].accepted_idx
  BY <1>4, ExtendsSelf
<1>6. PICK g : LeadsOn(h, g, p, n, log)
  BY <1>1, <1>2, <1>5, LeaderAccepts
<1>7. PICK s : s = [storage[p] EXCEPT !.decided_idx = idx]
  OBVIOUS
<1>8. /\ s \in Storage /\ s.promise = n /\ s.accepted_round = n /\ s.accepted_idx = storage[p].accepted_idx
      /\ s.decided_idx = idx /\ s.log = storage[p].log /\ s.compacted_idx = storage[p].compacted_idx
      /\ s.snapshot = storage[p].snapshot /\ s.stopsign = storage[p].stopsign
  BY <1>1, <1>2, <1>3, <1>4, <1>7 DEF Storage
<1>9. Updates(p, s, state[p], l, follower_state[p])
  BY <1>3, <1>7, Unchanged DEF Updates, TypeOK
<1>10. l \in LeaderStates /\ l.n_leader = n /\ l.max_promise_meta = leader_state[p].max_promise_meta
  BY <1>4 DEF Announces
<1>11. Leading(p, h, g, n, log, s, l)
  BY <1>1, <1>2, <1>5, <1>6, <1>8, <1>9, <1>10 DEF Leading
<1>12. /\ g \in History /\ h.acc[q][n] <= g.acc[q][n] /\ h.acc[q][n] \in Nat /\ g.acc[q][n] \in Nat
       /\ \A r \in Ballot, d \in Nat : DecidedIn(h, r, d) => DecidedIn(g, r, d)
  <2>1. Grows(p, h, g)
    BY <1>6 DEF LeadsOn
  <2>2. g \in History
    BY <2>1 DEF Grows
  <2> QED BY <1>2, <1>3, <1>4, <2>1, <2>2, GrowsKeeps, ChosenGrows, HistoryFields
<1>13. DecidedIn(g, n, idx)
  <2>1. l1 \in LeaderStates /\ l1.n_leader = n
    BY <1>2, <1>3, <1>4, CountsAsFields DEF CountsAs
  <2>2. idx \in Nat \ {0}
    BY <1>2, <1>3
  <2>3. Chosen(h, n, idx)
    BY <1>2, <1>3, <2>1, <2>2, IsChosen DEF CountsOK
  <2>4. DecidedIn(h, n, idx)
    BY <1>4, <2>3, BallotReflexive DEF DecidedIn
  <2> QED BY <1>2, <1>4, <1>12, <2>4
<1>14. LogOK(g, p, s)
  <2>1. /\ s.snapshot = None /\ s.stopsign = None
        /\ s.accepted_idx = s.compacted_idx + Len(s.log) /\ Segment(log, s.compacted_idx, s.log)
    BY <1>3, <1>4, <1>5, <1>8 DEF LogOK
  <2>2. s.accepted_idx = Len(log) /\ s.decided_idx <= s.accepted_idx
    BY <1>2, <1>4, <1>5, <1>8
  <2>3. DecidedIn(g, n, s.decided_idx)
    BY <1>8, <1>13
  <2> QED BY <1>1, <1>2, <1>5, <1>6, <1>8, <2>1, <2>2, <2>3, LeaderLogOK
<1>15. /\ << >> \in Entries /\ Segment(log, storage[p].accepted_idx, << >>)
       /\ Len(log) = storage[p].accepted_idx + Len(<< >>)
  <2>1. << >> \in Entries /\ Len(<< >>) = 0
    BY DEF Entries
  <2> QED BY <1>4, <1>5, <2>1 DEF Segment
<1>16. Ended(p, out)
  BY <1>2 DEF Ended, Handled
<1>17. Announced(p, out, leader_state[p], l, n, s.decided_idx, << >>)
  BY <1>4, <1>8
<1>18. idx <= g.acc[q][n]
  BY <1>2, <1>12
<1>19. PICK ents : ents = << >>
  OBVIOUS
<1>20. Succeeds(h, g)
  BY <1>2, <1>11, <1>14, <1>15, <1>16, <1>17, <1>18, <1>19, AnnounceExplained
<1> QED BY <1>20

\* handle_accepted.
LEMMA HandleAcceptedExplained ==
  ASSUME NEW h, From(h), NEW p \in Server, NEW q \in Peers(p), handle_accepted(p, q)
  PROVE  \E g : Succeeds(h, g)
<1> DEFINE m == Head(net[q][p])
           idx == m.accepted_idx
           l == set_accepted_idx(leader_state[p], q, idx)
           Q == get_promised_followers(l) \cap Server
           new == {r \in Q : ~ has_latest_accdec(l, outgoing[p], r)}
           l1 == [l EXCEPT !.follower_seq_nums = [r \in Slots |-> IF r \in new THEN next_seq_num(@[r]) ELSE @[r]]]
           marked == [r \in Server |->
                   IF r \in Q \ new
                     THEN [outgoing[p][r] EXCEPT ![l.latest_accept_meta[r]] = [@ EXCEPT !.decided_idx = idx]]
                     ELSE outgoing[p][r]]
           out == push(marked, [r \in new |-> Decide(l.n_leader, l1.follower_seq_nums[r], idx)])
<1>5. \/ /\ idx > storage[p].decided_idx
         /\ is_chosen(l, idx)
         /\ storage' = [storage EXCEPT ![p].decided_idx = idx]
         /\ leader_state' = [leader_state EXCEPT ![p] = l1]
         /\ Handled(p, q, out)
      \/ /\ leader_state' = [leader_state EXCEPT ![p] = l]
         /\ Handled(p, q, outgoing[p])
         /\ UNCHANGED storage
  BY Zenon DEF handle_accepted
<1>2. Incoming(p, q, "Accepted") /\ counts_accepted(p, m) /\ UNCHANGED << state, follower_state, panicked >>
  BY DEF handle_accepted
<1>1. /\ m = Head(net[q][p]) /\ idx = m.accepted_idx
      /\ l = set_accepted_idx(leader_state[p], q, idx)
      /\ Q = get_promised_followers(l) \cap Server
      /\ new = {r \in Q : ~ has_latest_accdec(l, outgoing[p], r)}
  OBVIOUS
<1> HIDE DEF m, idx, l, Q, new
<1>3. CASE /\ leader_state' = [leader_state EXCEPT ![p] = l]
           /\ Handled(p, q, outgoing[p])
           /\ UNCHANGED storage
  BY <1>1, <1>2, <1>3, AcceptedCountedExplained
<1>4. CASE /\ idx > storage[p].decided_idx
           /\ is_chosen(l, idx)
           /\ storage' = [storage EXCEPT ![p].decided_idx = idx]
           /\ leader_state' = [leader_state EXCEPT ![p] = l1]
           /\ Handled(p, q, out)
  <2>1. /\ Plain /\ leader_state[p] \in LeaderStates /\ \A r \in Slots : leader_state[p].latest_accept_meta[r] = 0
        /\ outgoing[p] = NoMessages
    BY FromFacts
  <2>2. q \in Slots /\ idx \in Nat
    BY <1>1, <1>2, AcceptedArrives
  <2>3. CountsAs(leader_state[p], l, q, idx)
    BY <1>1, <2>1, <2>2, CountsAsFields
  <2>4. new = Q /\ Q = get_promised_followers(leader_state[p]) \cap Server /\ l.n_leader = leader_state[p].n_leader
    BY <1>1, <2>3, ServersHaveSlots DEF CountsAs
  <2>5. Announces(leader_state[p], l1, q, idx)
    <3>1. l1 = Advance(l, Q)
      BY <2>4 DEF Advance
    <3> HIDE DEF l1
    <3> QED BY <2>1, <2>3, <2>4, <3>1, AdvanceAnnounces
  <2>6. marked = NoMessages
    BY <2>1, <2>4 DEF NoMessages
  <2> HIDE DEF marked, l1
  <2>7. \A y \in Peers(p) : out[y] = IF y \in new THEN << Decide(l.n_leader, l1.follower_seq_nums[y], idx) >> ELSE << >>
    BY <2>6 DEF push, NoMessages, Peers
  <2> HIDE DEF out
  <2>8. Announced(p, out, leader_state[p], l1, leader_state[p].n_leader, idx, << >>)
    BY <2>4, <2>7 DEF Peers, Announced
  <2> QED BY <1>1, <1>2, <1>4, <2>5, <2>8, DecidingExplained
<1> HIDE DEF l1, out
<1> QED BY <1>3, <1>4, <1>5

------------------------------------------------------------------------------
(* Appending to a storage *)

\* t has the entries in its log, behind those of s.
Appended(s, t, ents) ==
  /\ t \in Storage
  /\ t.promise = s.promise /\ t.accepted_round = s.accepted_round /\ t.decided_idx = s.decided_idx
  /\ t.compacted_idx = s.compacted_idx /\ t.snapshot = s.snapshot /\ t.stopsign = s.stopsign
  /\ t.log = s.log \o ents /\ t.accepted_idx = s.accepted_idx + Len(ents)
  /\ t.batched_entries = << >>

\* t has them in its batch.
Batched(s, t, ents) ==
  /\ t \in Storage
  /\ t.promise = s.promise /\ t.accepted_round = s.accepted_round /\ t.decided_idx = s.decided_idx
  /\ t.compacted_idx = s.compacted_idx /\ t.snapshot = s.snapshot /\ t.stopsign = s.stopsign
  /\ t.log = s.log /\ t.accepted_idx = s.accepted_idx
  /\ t.batched_entries = s.batched_entries \o ents

\* flush_batch.
LEMMA FlushAppends ==
  ASSUME NEW s \in Storage
  PROVE  Appended(s, flush_batch(s), s.batched_entries)
<1>1. /\ s.log \in Seq(Value) /\ s.batched_entries \in Seq(Value) /\ s.accepted_idx \in Nat
      /\ Len(s.batched_entries) \in Nat
  BY StorageFields DEF Entries
<1>2. s.log \o s.batched_entries \in Entries
  BY <1>1, ConcatProperties DEF Entries
<1>3. s.accepted_idx + Len(s.batched_entries) \in Nat
  BY <1>1
<1>4. PICK a, k, u : a = s.log \o s.batched_entries /\ k = s.accepted_idx + Len(s.batched_entries) /\ u = [s EXCEPT !.batched_entries = << >>]
  OBVIOUS
<1>5. /\ u \in Storage /\ u.batched_entries = << >> /\ u.log = s.log /\ u.accepted_idx = s.accepted_idx
      /\ u.promise = s.promise /\ u.accepted_round = s.accepted_round /\ u.decided_idx = s.decided_idx
      /\ u.compacted_idx = s.compacted_idx /\ u.snapshot = s.snapshot /\ u.stopsign = s.stopsign
  <2>1. << >> \in Entries
    BY DEF Entries
  <2> QED BY <1>4, <2>1 DEF Storage
<1>6. flush_batch(s) = [u EXCEPT !.log = a, !.accepted_idx = k]
  BY <1>4, <1>5 DEF flush_batch, append_entries_without_batching
<1>7. PICK t : t = [u EXCEPT !.log = a, !.accepted_idx = k]
  OBVIOUS
<1>8. a \in Entries /\ k \in Nat
  BY <1>2, <1>3, <1>4
<1>9. /\ t \in Storage /\ t.log = a /\ t.accepted_idx = k /\ t.batched_entries = u.batched_entries
      /\ t.promise = u.promise /\ t.accepted_round = u.accepted_round /\ t.decided_idx = u.decided_idx
      /\ t.compacted_idx = u.compacted_idx /\ t.snapshot = u.snapshot /\ t.stopsign = u.stopsign
  BY <1>5, <1>7, <1>8 DEF Storage
<1>10. Appended(s, t, s.batched_entries)
  BY <1>4, <1>5, <1>9 DEF Appended
<1> QED BY <1>6, <1>7, <1>10

\* append_entries_with_batching.
LEMMA BatchAppends ==
  ASSUME NEW s \in Storage, NEW ents \in Entries, NEW t, t = append_entries_with_batching(s, ents)
  PROVE  /\ fills_batch(s, ents) => Appended(s, t, s.batched_entries \o ents)
         /\ ~ fills_batch(s, ents) => Batched(s, t, ents)
<1>1. s.batched_entries \o ents \in Entries
  BY StorageFields, ConcatProperties DEF Entries
<1>2. PICK b, u : b = s.batched_entries \o ents /\ u = [s EXCEPT !.batched_entries = b]
  OBVIOUS
<1>3. /\ u \in Storage /\ u.batched_entries = b /\ u.log = s.log /\ u.accepted_idx = s.accepted_idx
      /\ u.promise = s.promise /\ u.accepted_round = s.accepted_round /\ u.decided_idx = s.decided_idx
      /\ u.compacted_idx = s.compacted_idx /\ u.snapshot = s.snapshot /\ u.stopsign = s.stopsign
  BY <1>1, <1>2 DEF Storage
<1>4. t = IF fills_batch(s, ents) THEN flush_batch(u) ELSE u
  BY <1>2 DEF append_entries_with_batching
<1>5. Appended(u, flush_batch(u), b)
  BY <1>3, FlushAppends
<1>6. Appended(s, flush_batch(u), b)
  BY <1>3, <1>5 DEF Appended
<1>7. Batched(s, u, ents)
  BY <1>2, <1>3 DEF Batched
<1> QED BY <1>2, <1>4, <1>6, <1>7

\* The log of a storage goes on as that of the round does.
LEMMA AppendedSegment ==
  ASSUME NEW a \in Entries, NEW s \in Storage, s.accepted_idx = s.compacted_idx + Len(s.log),
         Segment(a, s.compacted_idx, s.log), NEW ents \in Entries, Segment(a, s.accepted_idx, ents),
         NEW t, Appended(s, t, ents)
  PROVE  /\ t.accepted_idx = t.compacted_idx + Len(t.log)
         /\ Segment(a, t.compacted_idx, t.log)
<1>1. /\ s.log \in Entries /\ s.compacted_idx \in Nat /\ Len(s.log) \in Nat /\ Len(ents) \in Nat
  BY StorageFields, LenProperties DEF Entries
<1>2. Len(s.log \o ents) = Len(s.log) + Len(ents) /\ Segment(a, s.compacted_idx, s.log \o ents)
  BY <1>1, SegmentConcat
<1> QED BY <1>1, <1>2 DEF Appended

\* accept_entries_leader and flush_batch_leader.
LEMMA AcceptsExplained ==
  ASSUME NEW h, From(h), NEW p \in Server, p \notin panicked, state[p] = << "Leader", "Accept" >>,
         NEW ents \in Entries, NEW s, Appended(storage[p], s, ents),
         \/ accepts(p, s, ents, net)
         \/ \E x \in Peers(p) : net[x][p] # << >> /\ accepts(p, s, ents, Consume(p, x)),
         UNCHANGED << state, follower_state, panicked >>
  PROVE  \E g : Succeeds(h, g)
<1> DEFINE l1 == set_accepted_idx(leader_state[p], p, s.accepted_idx)
           l == accdec_leader_state(l1, outgoing[p])
           out == accdec_outgoing(l1, outgoing[p], s.decided_idx, ents)
<1>1. /\ storage' = [storage EXCEPT ![p] = s]
      /\ leader_state' = [leader_state EXCEPT ![p] = l]
      /\ Ended(p, out)
  BY DEF accepts, Ended
<1>2. /\ TypeOK /\ Inv /\ Explains(h) /\ outgoing[p] = NoMessages /\ leader_state[p] \in LeaderStates /\ Plain
      /\ h \in History /\ storage[p] \in Storage /\ LogOK(h, p, storage[p])
      /\ \A r \in Slots : leader_state[p].latest_accept_meta[r] = 0
  BY FromFacts
<1>3. PICK n : n = storage[p].promise
  OBVIOUS
<1>4. /\ n \in Ballot /\ n \in h.est /\ n.pid = p /\ leader_state[p].n_leader = n
      /\ storage[p].accepted_round = n /\ h.rlog[n] \in Entries
      /\ Len(h.rlog[n]) = storage[p].accepted_idx /\ storage[p].accepted_idx \in Nat
  BY <1>3, LeaderAccepts
<1>5. PICK log : log = h.rlog[n] \o ents
  OBVIOUS
<1>6. /\ log \in Entries /\ Extends(h.rlog[n], log) /\ Len(log) = storage[p].accepted_idx + Len(ents)
      /\ Segment(log, storage[p].accepted_idx, ents) /\ Len(ents) \in Nat
  BY <1>4, <1>5, AppendExtends, LenProperties DEF Entries
<1>7. PICK g : LeadsOn(h, g, p, n, log)
  BY <1>3, <1>6, LeaderAccepts
<1>8. /\ s \in Storage /\ s.promise = n /\ s.accepted_round = n /\ s.accepted_idx = Len(log)
      /\ s.decided_idx = storage[p].decided_idx /\ s.snapshot = None /\ s.stopsign = None
  BY <1>2, <1>3, <1>4, <1>6 DEF Appended, LogOK
<1>9. p \in Slots /\ s.accepted_idx \in Nat
  BY <1>8, ServersHaveSlots, StorageFields
<1>10. CountsAs(leader_state[p], l1, p, s.accepted_idx)
  BY <1>2, <1>9, CountsAsFields
<1>11. l1.n_leader = n /\ get_promised_followers(l1) = get_promised_followers(leader_state[p])
       /\ l1.follower_seq_nums = leader_state[p].follower_seq_nums
       /\ \A y \in Slots : \A o : ~ has_latest_accdec(l1, o, y)
  BY <1>4, <1>10 DEF CountsAs
<1> HIDE DEF l1
<1>12. Announces(leader_state[p], l, p, s.accepted_idx)
  BY <1>2, <1>10, AccdecAnnounces
<1> HIDE DEF l
<1>13. Updates(p, s, state[p], l, follower_state[p])
  BY <1>1, <1>2, Unchanged DEF Updates
<1>14. l \in LeaderStates /\ l.n_leader = n /\ l.max_promise_meta = leader_state[p].max_promise_meta
  BY <1>4, <1>12 DEF Announces
<1>15. Leading(p, h, g, n, log, s, l)
  BY <1>3, <1>6, <1>7, <1>8, <1>13, <1>14 DEF Leading
<1>16. /\ s.accepted_idx <= g.acc[p][n]
       /\ \A r \in Ballot, d \in Nat : DecidedIn(h, r, d) => DecidedIn(g, r, d)
  <2>1. Grows(p, h, g) /\ g.acc[p][n] = Len(log)
    BY <1>7 DEF LeadsOn, Continues
  <2> QED BY <1>2, <1>8, <1>9, <2>1, ChosenGrows
<1>17. LogOK(g, p, s)
  <2>1. /\ storage[p].accepted_idx = storage[p].compacted_idx + Len(storage[p].log)
        /\ Segment(h.rlog[n], storage[p].compacted_idx, storage[p].log)
        /\ storage[p].decided_idx <= storage[p].accepted_idx /\ DecidedIn(h, n, storage[p].decided_idx)
        /\ storage[p].compacted_idx \in Nat /\ storage[p].log \in Entries /\ storage[p].decided_idx \in Nat
    BY <1>2, <1>4, StorageFields DEF LogOK
  <2>2. Segment(log, storage[p].compacted_idx, storage[p].log)
    BY <1>4, <1>6, <2>1, SegmentExtends
  <2>3. s.accepted_idx = s.compacted_idx + Len(s.log) /\ Segment(log, s.compacted_idx, s.log)
    BY <1>2, <1>6, <2>1, <2>2, AppendedSegment
  <2>4. s.decided_idx <= s.accepted_idx
    BY <1>4, <1>6, <1>8, <2>1
  <2>5. DecidedIn(g, n, s.decided_idx)
    BY <1>4, <1>8, <1>16, <2>1
  <2>6. s.compacted_idx = storage[p].compacted_idx
    BY <1>2 DEF Appended
  <2> QED BY <1>3, <1>6, <1>7, <1>8, <2>3, <2>4, <2>5, <2>6, LeaderLogOK
<1>18. Announced(p, out, leader_state[p], l, n, s.decided_idx, ents)
  <2> SUFFICES ASSUME NEW y \in Peers(p)
               PROVE  out[y] = IF y \in get_promised_followers(leader_state[p])
                                 THEN << AcceptDecide(n, l.follower_seq_nums[y], s.decided_idx, ents) >>
                                 ELSE << >>
    BY DEF Announced
  <2>1. y \in Server /\ y \in Slots /\ outgoing[p][y] = << >>
    BY <1>2, ServersHaveSlots DEF Peers, NoMessages
  <2>2. out[y] = IF y \notin get_promised_followers(leader_state[p]) THEN << >>
                 ELSE << AcceptDecide(n, next_seq_num(leader_state[p].follower_seq_nums[y]), s.decided_idx, ents) >>
    <3>1. PICK k : k = AcceptDecide(n, next_seq_num(leader_state[p].follower_seq_nums[y]), s.decided_idx, ents)
      OBVIOUS
    <3>2. ~ has_latest_accdec(l1, outgoing[p], y)
      BY <1>11, <2>1
    <3>3. out[y] = IF y \notin get_promised_followers(l1) THEN outgoing[p][y]
                   ELSE Append(outgoing[p][y], AcceptDecide(l1.n_leader, next_seq_num(l1.follower_seq_nums[y]),
                                                            s.decided_idx, ents))
      BY <2>1, <3>2 DEF accdec_outgoing
    <3> HIDE DEF out
    <3>4. out[y] = IF y \notin get_promised_followers(leader_state[p]) THEN << >> ELSE Append(<< >>, k)
      BY <1>11, <2>1, <3>1, <3>3
    <3> QED BY <3>1, <3>4
  <2>3. y \in get_promised_followers(leader_state[p]) =>
          l.follower_seq_nums[y] = next_seq_num(leader_state[p].follower_seq_nums[y])
    BY <1>12, <2>1 DEF Announces
  <2> HIDE DEF out
  <2> QED BY <2>2, <2>3
<1> HIDE DEF out
<1> QED BY <1>1, <1>6, <1>12, <1>15, <1>16, <1>17, <1>18, AnnounceExplained

\* accept_entries_leader while the batch is not full.
LEMMA BatchingExplained ==
  ASSUME NEW h, From(h), NEW p \in Server, p \notin panicked, state[p] = << "Leader", "Accept" >>,
         NEW ents \in Entries, NEW s, Batched(storage[p], s, ents),
         storage' = [storage EXCEPT ![p] = s], Ended(p, outgoing[p]),
         UNCHANGED << state, leader_state, follower_state, panicked >>
  PROVE  \E g : Succeeds(h, g)
<1>2. /\ TypeOK /\ Inv /\ Explains(h) /\ outgoing[p] = NoMessages /\ leader_state[p] \in LeaderStates
      /\ h \in History /\ storage[p] \in Storage /\ LogOK(h, p, storage[p]) /\ CountsOK(h, leader_state[p])
  BY FromFacts
<1>3. PICK n : n = storage[p].promise
  OBVIOUS
<1>4. /\ n \in Ballot /\ n \in h.est /\ n.pid = p /\ leader_state[p].n_leader = n
      /\ storage[p].accepted_round = n /\ h.rlog[n] \in Entries
      /\ Len(h.rlog[n]) = storage[p].accepted_idx /\ storage[p].accepted_idx \in Nat
  BY <1>3, LeaderAccepts
<1>5. PICK log : log \in Entries /\ log = h.rlog[n] /\ Extends(h.rlog[n], log) /\ Len(log) = storage[p].accepted_idx
  BY <1>4, ExtendsSelf
<1>6. PICK g : LeadsOn(h, g, p, n, log)
  BY <1>3, <1>5, LeaderAccepts
<1>8. /\ s \in Storage /\ s.promise = n /\ s.accepted_round = n /\ s.accepted_idx = Len(log)
      /\ s.decided_idx = storage[p].decided_idx /\ s.snapshot = None /\ s.stopsign = None
      /\ s.log = storage[p].log /\ s.compacted_idx = storage[p].compacted_idx
  BY <1>2, <1>3, <1>4, <1>5 DEF Batched, LogOK
<1>9. Updates(p, s, state[p], leader_state[p], follower_state[p])
  BY <1>2, Unchanged DEF Updates
<1>10. Leading(p, h, g, n, log, s, leader_state[p])
  BY <1>2, <1>3, <1>4, <1>5, <1>6, <1>8, <1>9 DEF Leading
<1>11. SeqNumsOK(p, leader_state[p], leader_state[p], FALSE)
  <2>1. \A y \in Server : leader_state[p].follower_seq_nums[y] \in SequenceNumber
    BY <1>2, LeaderFields, ServersHaveSlots
  <2> QED BY <2>1, SeqNumReflexive DEF SeqNumsOK, Peers
<1>12. Counted(g, leader_state[p], leader_state[p])
  BY DEF Counted
<1>13. LogOK(g, p, s)
  <2>1. /\ s.accepted_idx = s.compacted_idx + Len(s.log) /\ Segment(log, s.compacted_idx, s.log)
        /\ s.decided_idx <= s.accepted_idx /\ DecidedIn(h, n, s.decided_idx) /\ s.decided_idx \in Nat
    BY <1>2, <1>4, <1>5, <1>8, StorageFields DEF LogOK
  <2>2. DecidedIn(g, n, s.decided_idx)
    <3>1. Grows(p, h, g)
      BY <1>6 DEF LeadsOn
    <3> QED BY <1>2, <1>4, <2>1, <3>1, ChosenGrows
  <2> QED BY <1>3, <1>5, <1>6, <1>8, <2>1, <2>2, LeaderLogOK
<1>14. Fresh(p, g, NoMessages) /\ Ended(p, NoMessages)
  BY <1>2 DEF Fresh, NoMessages, Peers
<1>15. PICK new : new = FALSE
  OBVIOUS
<1>16. SeqNumsOK(p, leader_state[p], leader_state[p], new)
  BY <1>11, <1>15, Zenon
<1>17. Succeeds(h, g)
  BY <1>2, <1>4, <1>5, <1>10, <1>12, <1>13, <1>14, <1>16, LeadingExplained
<1> QED BY <1>17

\* propose_entry and handle_forwarded_proposal.
LEMMA ProposeExplained ==
  ASSUME NEW h, From(h), NEW p \in Server, p \notin panicked, NEW entries \in Entries,
         \/ propose_entries(p, entries, net)
         \/ \E x \in Peers(p) : net[x][p] # << >> /\ propose_entries(p, entries, Consume(p, x)),
         UNCHANGED << state, follower_state, panicked >>
  PROVE  \E g : Succeeds(h, g)
<1>1. CASE state[p] # << "Leader", "Accept" >>
  BY <1>1, ForwardExplained
<1>2. CASE state[p] = << "Leader", "Accept" >>
  <2>1. PICK chan : /\ accept_entries_leader(p, entries, chan)
                    /\ chan = net \/ \E x \in Peers(p) : net[x][p] # << >> /\ chan = Consume(p, x)
    BY <1>2 DEF propose_entries
  <2>2. storage[p] \in Storage
    BY FromFacts
  <2>3. PICK s : s = append_entries_with_batching(storage[p], entries)
    OBVIOUS
  <2>4. CASE fills_batch(storage[p], entries)
    <3>1. PICK ents : ents = storage[p].batched_entries \o entries
      OBVIOUS
    <3>2. ents \in Entries
      BY <2>2, <3>1, StorageFields, AppendExtends
    <3>3. Appended(storage[p], s, ents)
      BY <2>2, <2>3, <2>4, <3>1, BatchAppends
    <3>4. accepts(p, s, ents, chan)
      BY <2>1, <2>3, <2>4, <3>1 DEF accept_entries_leader
    <3>5. \/ accepts(p, s, ents, net)
          \/ \E x \in Peers(p) : net[x][p] # << >> /\ accepts(p, s, ents, Consume(p, x))
      BY <2>1, <3>4
    <3> QED BY <1>2, <3>2, <3>3, <3>5, AcceptsExplained
  <2>5. CASE ~ fills_batch(storage[p], entries)
    <3>1. Batched(storage[p], s, entries)
      BY <2>2, <2>3, <2>5, BatchAppends
    <3>2. storage' = [storage EXCEPT ![p] = s] /\ EndCall(p, outgoing[p], chan) /\ UNCHANGED leader_state
      BY <2>1, <2>3, <2>5 DEF accept_entries_leader
    <3>3. Ended(p, outgoing[p])
      BY <2>1, <3>2 DEF Ended
    <3> QED BY <1>2, <3>1, <3>2, <3>3, BatchingExplained
  <2> QED BY <2>4, <2>5
<1> QED BY <1>1, <1>2

\* flush_batch_leader.
LEMMA FlushLeaderExplained ==
  ASSUME NEW h, From(h), NEW p \in Server, p \notin panicked, flush_batch_leader(p), UNCHANGED << state, panicked >>
  PROVE  \E g : Succeeds(h, g)
<1>1. storage[p] \in Storage /\ storage[p].batched_entries \in Entries
  BY FromFacts, StorageFields
<1>2. Appended(storage[p], flush_batch(storage[p]), storage[p].batched_entries)
  BY <1>1, FlushAppends
<1> QED BY <1>1, <1>2, AcceptsExplained DEF flush_batch_leader

------------------------------------------------------------------------------
(* AcceptSync *)

\* The log of round n began with the largest log among the promises.
MaxAgrees(g, n, max) ==
  /\ max \in PromiseMetaData
  /\ max.n_accepted \prec n /\ max.accepted_idx <= g.base[n]
  /\ Agree(g.rlog[max.n_accepted], g.rlog[n], max.accepted_idx)

\* No server accepted more of a round than its log has.
AccBounded(g) == \A q \in Server, r \in Ballot : g.acc[q][r] <= Len(g.rlog[r])

\* followers_valid_entries_idx: so much of its log the follower shares with the
\* leader.
LEMMA ValidEntries ==
  ASSUME NEW g \in History, ChosenInv(g), AccBounded(g), NEW n \in g.est, g.base[n] <= Len(g.rlog[n]),
         NEW y \in Server, NEW l \in LeaderStates, l.n_leader = n,
         MaxAgrees(g, n, l.max_promise_meta),
         NEW meta, meta = l.promises_meta[y].meta, MetaOK(g, y, n, meta)',
         NEW idx, idx = followers_valid_entries_idx(l, y)
  PROVE  /\ idx \in Nat /\ idx <= meta.accepted_idx /\ idx <= Len(g.rlog[n]) /\ meta \in PromiseMetaData
         /\ meta.n_accepted # n => idx <= g.base[n] /\ Agree(g.rlog[meta.n_accepted], g.rlog[n], idx)
<1> DEFINE max == l.max_promise_meta
<1>1. y \in Slots /\ meta \in PromiseMetaData
  BY ServersHaveSlots, LeaderFields
<1>2. /\ meta.n_accepted \in Ballot /\ meta.accepted_idx \in Nat /\ meta.decided_idx \in Nat
      /\ max.n_accepted \in Ballot /\ max.accepted_idx \in Nat
  BY <1>1 DEF PromiseMetaData, MaxAgrees
<1>3. /\ n \in Ballot /\ g.base[n] \in Nat /\ Len(g.rlog[n]) \in Nat /\ g.rlog[n] \in Entries
      /\ g.rlog[meta.n_accepted] \in Entries /\ g.acc[y][n] \in Nat /\ g.acc[y][n] <= Len(g.rlog[n])
      /\ g.acc[y][meta.n_accepted] <= Len(g.rlog[meta.n_accepted])
  BY <1>2, HistoryFields DEF AccBounded
<1>4. meta.decided_idx <= meta.accepted_idx /\ DecidedIn(g, meta.n_accepted, meta.decided_idx)
      /\ meta.n_accepted \preceq n /\ meta.n_accepted \in g.est \cup {DefaultBallot}
  BY DEF MetaOK
<1>5. CASE meta.n_accepted = n
  <2>1. idx = meta.accepted_idx
    BY <1>5 DEF followers_valid_entries_idx
  <2>2. meta.accepted_idx <= g.acc[y][n]
    BY <1>5 DEF MetaOK
  <2> QED BY <1>1, <1>2, <1>3, <1>5, <2>1, <2>2
<1>6. CASE meta.n_accepted # n /\ meta.n_accepted = max.n_accepted
  <2>1. idx = minimum(max.accepted_idx, meta.accepted_idx)
    BY <1>6 DEF followers_valid_entries_idx
  <2>2. idx \in Nat /\ idx <= max.accepted_idx /\ idx <= meta.accepted_idx
    BY <1>2, <2>1 DEF minimum
  <2>3. max.accepted_idx <= g.base[n] /\ Agree(g.rlog[meta.n_accepted], g.rlog[n], max.accepted_idx)
    BY <1>6 DEF MaxAgrees
  <2>4. Agree(g.rlog[meta.n_accepted], g.rlog[n], idx)
    BY <1>2, <1>3, <2>2, <2>3, AgreeShorter
  <2>5. idx <= g.base[n] /\ idx <= Len(g.rlog[n])
    BY SMTT(30), <1>2, <1>3, <2>2, <2>3
  <2> QED BY <1>1, <2>2, <2>4, <2>5
<1>7. CASE meta.n_accepted # n /\ meta.n_accepted # max.n_accepted
  <2>1. idx = meta.decided_idx
    BY <1>7 DEF followers_valid_entries_idx
  <2>2. meta.n_accepted \prec n
    BY <1>4, <1>7 DEF \preceq
  <2>3. idx <= g.base[n] /\ Agree(g.rlog[meta.n_accepted], g.rlog[n], idx)
    BY <1>2, <1>4, <2>1, <2>2, DecidedAgree
  <2>4. idx <= Len(g.rlog[n])
    BY SMTT(30), <1>2, <1>3, <2>1, <2>3
  <2> QED BY <1>1, <1>2, <1>4, <2>1, <2>3, <2>4
<1> QED BY <1>5, <1>6, <1>7

\* The log in t may be cut at idx and go on as that of round n.
Fits(g, n, t, idx) ==
  /\ idx <= t.accepted_idx
  /\ t.accepted_round = n => t.accepted_idx + Len(t.batched_entries) <= Len(g.rlog[n])
  /\ t.accepted_round # n => Agree(g.rlog[t.accepted_round], g.rlog[n], idx)

\* The follower shares the first idx entries of round n, as its promise tells.
Shares(g, n, meta, idx) ==
  /\ idx \in Nat /\ idx <= meta.accepted_idx
  /\ meta.n_accepted # n => idx <= g.base[n] /\ Agree(g.rlog[meta.n_accepted], g.rlog[n], idx)

\* What its promise tells of the storage t of y, while y has promised nothing newer.
Tells(g, y, n, meta, t) ==
  /\ meta \in PromiseMetaData /\ meta.n_accepted \preceq n
  /\ t.accepted_round \in {meta.n_accepted, n}
  /\ meta.n_accepted \prec n => g.acc[y][meta.n_accepted] = meta.accepted_idx
  /\ meta.n_accepted = n => meta.accepted_idx <= g.acc[y][n]

\* Its log may be cut and go on as the AcceptSync says.
LEMMA ValidTarget ==
  ASSUME NEW g \in History, NEW n \in g.est, NEW y \in Server, n.pid # y, NEW t \in Storage,
         LogOK(g, y, t), BatchOK(g, y, t),
         NEW meta, Tells(g, y, n, meta, t), NEW idx, Shares(g, n, meta, idx)
  PROVE  /\ Fits(g, n, t, idx)
         /\ meta.n_accepted = n => t.accepted_round = n
<1> USE DEF Shares, Fits, Tells
<1>1. /\ meta.n_accepted \in Ballot /\ meta.accepted_idx \in Nat /\ t.accepted_idx \in Nat
      /\ Len(t.batched_entries) \in Nat
  BY StorageFields DEF PromiseMetaData
<1>2. g.base[n] \in Nat /\ n \in Ballot
  BY HistoryFields
<1>3. t.accepted_round \in {meta.n_accepted, n} /\ meta.n_accepted \preceq n
  OBVIOUS
<1>4. CASE t.accepted_round = n
  <2>1. g.base[n] <= t.accepted_idx /\ g.acc[y][n] = t.accepted_idx
    BY <1>4 DEF LogOK
  <2>2. Segment(g.rlog[n], t.accepted_idx, t.batched_entries)
    BY <1>4 DEF BatchOK
  <2>3. meta.n_accepted = n => meta.accepted_idx <= t.accepted_idx
    BY <2>1
  <2>4. idx <= t.accepted_idx
    BY <1>1, <1>2, <2>1, <2>3
  <2> QED BY <1>4, <2>2, <2>4 DEF Segment
<1>5. CASE t.accepted_round # n
  <2>1. t.accepted_round = meta.n_accepted /\ meta.n_accepted \prec n
    BY <1>3, <1>5 DEF \preceq
  <2>2. t.accepted_idx = meta.accepted_idx
    BY <2>1 DEF LogOK
  <2> QED BY <1>5, <2>1, <2>2
<1> QED BY <1>4, <1>5

\* create_log_sync without snapshots, if it does not panic.
LEMMA LogSyncFields ==
  ASSUME Plain, NEW a \in Entries, NEW s \in Storage, s.accepted_idx = s.compacted_idx + Len(s.log),
         Segment(a, s.compacted_idx, s.log), NEW idx \in Nat, idx <= s.accepted_idx, s.stopsign = None,
         ~ create_log_sync_panics(s, idx), NEW d, NEW sync, sync = create_log_sync(s, idx, d)
  PROVE  /\ sync \in LogSync /\ sync.decided_snapshot.kind = "None" /\ sync.sync_idx = idx
         /\ sync.suffix \in Entries /\ Len(sync.suffix) \in Nat /\ sync.stopsign = None
         /\ sync.sync_idx + Len(sync.suffix) = s.accepted_idx
         /\ Segment(a, sync.sync_idx, sync.suffix)
<1>1. ~ syncs_with_snapshot(s, idx)
  BY DEF Plain, syncs_with_snapshot
<1>2. s.compacted_idx \in Nat /\ s.log \in Entries /\ Len(s.log) \in Nat
  BY StorageFields
<1>3. s.compacted_idx <= idx
  BY <1>1, <1>2 DEF create_log_sync_panics, get_suffix_panics
<1>4. PICK j : j = idx - s.compacted_idx
  OBVIOUS
<1>5. j \in Nat /\ j <= Len(s.log) /\ s.compacted_idx + j = idx /\ idx + (Len(s.log) - j) = s.accepted_idx
  BY <1>2, <1>3, <1>4
<1>6. PICK suffix : suffix = drain(s.log, j)
  OBVIOUS
<1>7. suffix \in Entries /\ Len(suffix) = Len(s.log) - j /\ Segment(a, s.compacted_idx + j, suffix)
  BY ZenonT(30), <1>2, <1>5, <1>6, SegmentDrain
<1>8. sync = [decided_snapshot |-> [kind |-> "None", snapshot |-> None], suffix |-> suffix, sync_idx |-> idx, stopsign |-> s.stopsign]
  <2>1. get_suffix(s, idx) = suffix
    BY <1>4, <1>6 DEF get_suffix
  <2> QED BY <1>1, <2>1 DEF create_log_sync
<1>9. sync \in LogSync
  BY <1>7, <1>8 DEF LogSync, SnapshotType
<1>10. sync.decided_snapshot.kind = "None" /\ sync.sync_idx = idx /\ sync.suffix = suffix /\ sync.stopsign = None
  BY <1>8
<1>11. Len(suffix) \in Nat
  BY <1>7, LenProperties DEF Entries
<1> QED BY <1>5, <1>7, <1>9, <1>10, <1>11

\* What p may send as the leader of round n with the storage s and the bookkeeping l.
Syncs(p, g, n, s, l) ==
  /\ n \in g.est /\ n.pid = p /\ g.base[n] <= Len(g.rlog[n])
  /\ s \in Storage /\ LogOK(g, p, s) /\ s.accepted_round = n /\ s.accepted_idx = Len(g.rlog[n])
  /\ l \in LeaderStates /\ l.n_leader = n /\ MaxAgrees(g, n, l.max_promise_meta)
  /\ ChosenInv(g) /\ AccBounded(g)

\* send_accsync.
LEMMA AccSyncFresh ==
  ASSUME NEW p \in Server, NEW h, NEW g, Step(p, h, g), NEW n, NEW s, NEW l, Syncs(p, g, n, s, l),
         NEW y \in Peers(p), NEW meta, meta = l.promises_meta[y].meta, MetaOK(g, y, n, meta)',
         leader_state'[p].follower_seq_nums = l.follower_seq_nums,
         g.start[n][y][next_seq_num(l.follower_seq_nums[y])] = Len(g.rlog[n]),
         ~ send_accsync_panics(s, l, y), NEW m, m = accsync_message(s, l, y)
  PROVE  m \in Message /\ FreshOK(p, g, y, m)
<1>1. /\ n \in g.est /\ n.pid = p /\ g.base[n] <= Len(g.rlog[n]) /\ n \in Ballot
      /\ s \in Storage /\ LogOK(g, p, s) /\ s.accepted_round = n /\ s.accepted_idx = Len(g.rlog[n])
      /\ l \in LeaderStates /\ l.n_leader = n /\ MaxAgrees(g, n, l.max_promise_meta)
      /\ ChosenInv(g) /\ AccBounded(g) /\ g \in History /\ y \in Server /\ y # p /\ Plain
  BY StepFacts, HistoryFields DEF Syncs, Peers, Step, Explains
<1>2. PICK idx : idx = followers_valid_entries_idx(l, y)
  OBVIOUS
<1>3. /\ idx \in Nat /\ idx <= meta.accepted_idx /\ idx <= Len(g.rlog[n]) /\ meta \in PromiseMetaData
      /\ meta.n_accepted # n => idx <= g.base[n] /\ Agree(g.rlog[meta.n_accepted], g.rlog[n], idx)
  BY <1>1, <1>2, ValidEntries
<1>4. PICK sn : sn = l.follower_seq_nums[y]
  OBVIOUS
<1>5. sn \in SequenceNumber /\ meta.decided_idx \in Nat /\ s.decided_idx \in Nat
  BY <1>1, <1>3, <1>4, LeaderFields, ServersHaveSlots, StorageFields DEF PromiseMetaData
<1>6. PICK sync : sync = create_log_sync(s, idx, meta.decided_idx)
  OBVIOUS
<1>7. m = AcceptSync(n, sn, s.decided_idx, sync)
  BY <1>1, <1>2, <1>4, <1>6 DEF accsync_message
<1>8. /\ sync \in LogSync /\ sync.decided_snapshot.kind = "None" /\ sync.sync_idx = idx
      /\ sync.suffix \in Entries /\ Len(sync.suffix) \in Nat
      /\ sync.sync_idx + Len(sync.suffix) = s.accepted_idx
      /\ Segment(g.rlog[n], sync.sync_idx, sync.suffix)
  <2>1. /\ s.accepted_idx = s.compacted_idx + Len(s.log) /\ s.stopsign = None
        /\ Segment(g.rlog[n], s.compacted_idx, s.log) /\ g.rlog[n] \in Entries
    BY <1>1, HistoryFields DEF LogOK
  <2>2. ~ create_log_sync_panics(s, idx)
    BY <1>2 DEF send_accsync_panics
  <2>3. idx <= s.accepted_idx
    BY <1>1, <1>3
  <2> QED BY <1>1, <1>3, <1>6, <2>1, <2>2, <2>3, LogSyncFields
<1>9. m \in Message
  BY <1>1, <1>5, <1>7, <1>8 DEF AcceptSync, Message
<1>10. m.type = "AcceptSync" /\ m.n = n /\ m.seq_num = sn /\ m.decided_idx = s.decided_idx /\ m.log_sync = sync
  BY <1>7 DEF AcceptSync
<1>11. End(g, y, m) = Len(g.rlog[n]) /\ Len(g.rlog[n]) \in Nat /\ g.base[n] \in Nat
  BY <1>1, <1>4, <1>10, HistoryFields DEF End
<1>12. Sent(p, n, y, sn)'
  BY <1>4, <1>5, SeqNumReflexive DEF Sent
<1>13. DecidedIn(g, n, s.decided_idx) /\ s.decided_idx <= Len(g.rlog[n])
  BY <1>1 DEF LogOK
<1>14. AcceptMsgOK(g, p, y, m)'
  BY <1>1, <1>10, <1>11, <1>12, <1>13 DEF AcceptMsgOK
<1>15. SyncMsgOK(g, y, m)
  BY <1>1, <1>8, <1>10, <1>11, <1>13 DEF SyncMsgOK
<1>16. MsgOK(g, p, y, m)'
  BY <1>10, <1>14, <1>15 DEF MsgOK
<1>17. ASSUME storage'[y].promise = n
       PROVE  /\ TargetOK(g, storage'[y], m)
              /\ meta.n_accepted = n => storage'[y].accepted_round = n
  <2>1. PICK t : t = storage'[y] /\ t \in Storage /\ t = storage[y]
    BY <1>1, StepFacts DEF Moves, Same
  <2>2. LogOK(g, y, t) /\ BatchOK(g, y, t)
    <3>1. LogOK(h, y, t) /\ BatchOK(h, y, t)
      BY <1>1, <2>1 DEF Step, Explains, LogInv
    <3>2. t.accepted_round \in Ballot /\ Grows(p, h, g)
      BY <2>1, StorageFields DEF Step
    <3>3. /\ g.acc[y][t.accepted_round] = h.acc[y][t.accepted_round]
          /\ t.accepted_round.pid = y => g.rlog[t.accepted_round] = h.rlog[t.accepted_round]
      BY <1>1, <3>2 DEF Grows
    <3> QED BY <1>1, <2>1, <3>1, <3>3, LogKept
  <2>3. /\ idx <= t.accepted_idx
        /\ t.accepted_round = n => t.accepted_idx + Len(t.batched_entries) <= Len(g.rlog[n])
        /\ t.accepted_round # n => Agree(g.rlog[t.accepted_round], g.rlog[n], idx)
        /\ meta.n_accepted = n => t.accepted_round = n
    <3>1. Shares(g, n, meta, idx)
      BY <1>3 DEF Shares
    <3>2. n.pid # y /\ Tells(g, y, n, meta, t)
      BY <1>1, <1>3, <1>17, <2>1 DEF Tells, MetaOK
    <3>3. Fits(g, n, t, idx) /\ (meta.n_accepted = n => t.accepted_round = n)
      BY <1>1, <1>3, <2>1, <2>2, <3>1, <3>2, ValidTarget
    <3> QED BY <3>3 DEF Fits
  <2>4. TargetOK(g, t, m)
    BY <1>1, <1>8, <1>10, <2>3 DEF TargetOK
  <2> QED BY <2>1, <2>3, <2>4
<1>18. SyncTargetOK(g, y, m)'
  BY <1>10, <1>17 DEF SyncTargetOK
<1>19. ASSUME NEW j \in 1 .. Len(net[p][y]), NEW a \in Message, a = net[p][y][j]
       PROVE  OrderOK(g, y, a, m)'
  <2> SUFFICES ASSUME a.type \in AcceptTypes, a.n = n, storage'[y].promise = n
               PROVE  /\ End(g, y, a) <= End(g, y, m)
                      /\ a.type = "AcceptSync" => m.log_sync.sync_idx <= End(g, y, a)
    BY <1>10 DEF OrderOK
  <2>1. MsgOK(h, p, y, a) /\ SyncTargetOK(h, y, a)
    BY <1>19 DEF Step, Explains, MessageInv
  <2>2. MsgOK(g, p, y, a)' /\ End(g, y, a) = End(h, y, a)
    BY <2>1, MsgKept
  <2>3. End(g, y, a) <= Len(g.rlog[n])
    BY <2>2 DEF MsgOK, AcceptMsgOK
  <2>4. ASSUME a.type = "AcceptSync" PROVE m.log_sync.sync_idx <= End(g, y, a)
    <3>1. SyncMsgOK(g, y, a)
      BY <2>2, <2>4 DEF MsgOK
    <3>2. a.log_sync.sync_idx \in Nat /\ Len(a.log_sync.suffix) \in Nat
      BY <1>1, <2>4, AcceptFields
    <3>3. g.base[n] <= End(g, y, a) /\ End(g, y, a) = a.log_sync.sync_idx + Len(a.log_sync.suffix)
      BY <3>1 DEF SyncMsgOK
    <3>4. End(g, y, a) \in Nat
      BY <3>2, <3>3
    <3>5. CASE meta.n_accepted # n
      BY <1>3, <1>8, <1>10, <1>11, <3>3, <3>4, <3>5
    <3>6. CASE meta.n_accepted = n
      <4>1. PICK t : t = storage'[y] /\ t \in Storage /\ t = storage[y]
        BY <1>1, StepFacts DEF Moves, Same
      <4>2. t.accepted_round = n /\ t.accepted_idx \in Nat /\ Len(t.batched_entries) \in Nat
        BY <1>17, <3>6, <4>1, StorageFields
      <4>3. TargetOK(h, t, a)
        BY <2>1, <2>4, <4>1 DEF SyncTargetOK
      <4>4. t.accepted_idx + Len(t.batched_entries) <= a.log_sync.sync_idx + Len(a.log_sync.suffix)
        BY <4>2, <4>3 DEF TargetOK
      <4>5. idx <= t.accepted_idx
        BY <1>8, <1>10, <1>17, <4>1 DEF TargetOK
      <4> QED BY <1>3, <1>8, <1>10, <3>2, <3>3, <3>4, <4>2, <4>4, <4>5
    <3> QED BY <3>5, <3>6
  <2> QED BY <1>11, <2>3, <2>4
<1> QED BY <1>9, <1>10, <1>16, <1>18, <1>19 DEF FreshOK

\* From l to m the leader opens a new session with everyone in Q.
Resyncs(l, m, Q) ==
  /\ m \in LeaderStates /\ m.n_leader = l.n_leader
  /\ m.promises_meta = l.promises_meta /\ m.max_promise_meta = l.max_promise_meta
  /\ m.accepted_indexes = l.accepted_indexes /\ m.latest_accept_meta = l.latest_accept_meta
  /\ \A r \in Slots :
       /\ r \in Q => m.follower_seq_nums[r] = next_seq_num(increment_seq_num_session(l.follower_seq_nums[r]))
       /\ r \notin Q => m.follower_seq_nums[r] = l.follower_seq_nums[r]

\* accsync_leader_state.
LEMMA ResyncFields ==
  ASSUME NEW l \in LeaderStates, NEW Q, NEW m, m = accsync_leader_state(l, Q)
  PROVE  Resyncs(l, m, Q)
<1>1. PICK f : f = [r \in Slots |-> IF r \in Q THEN next_seq_num(increment_seq_num_session(l.follower_seq_nums[r]))
                                               ELSE l.follower_seq_nums[r]]
  OBVIOUS
<1>2. f \in [Slots -> SequenceNumber]
  <2>1. \A r \in Slots : l.follower_seq_nums[r] \in SequenceNumber
    BY LeaderFields
  <2> QED BY <1>1, <2>1, SeqNumSession
<1>3. m = [l EXCEPT !.follower_seq_nums = f]
  BY <1>1 DEF accsync_leader_state
<1>4. m \in LeaderStates
  BY <1>2, <1>3 DEF LeaderStates
<1>5. /\ m.n_leader = l.n_leader
      /\ m.promises_meta = l.promises_meta /\ m.max_promise_meta = l.max_promise_meta
      /\ m.accepted_indexes = l.accepted_indexes /\ m.latest_accept_meta = l.latest_accept_meta
      /\ m.follower_seq_nums = f
  BY <1>3 DEF LeaderStates
<1> QED BY <1>1, <1>4, <1>5 DEF Resyncs

\* A new session is ahead of the old one.
LEMMA ResyncSeqNums ==
  ASSUME NEW l \in LeaderStates, NEW m, NEW Q, Resyncs(l, m, Q), NEW y \in Server
  PROVE  /\ seq_num_leq(l.follower_seq_nums[y], m.follower_seq_nums[y])
         /\ y \in Q => ~ seq_num_leq(next_seq_num(m.follower_seq_nums[y]), next_seq_num(l.follower_seq_nums[y]))
         /\ next_seq_num(m.follower_seq_nums[y]) \in SequenceNumber
<1>1. PICK a : a = l.follower_seq_nums[y] /\ a \in SequenceNumber /\ next_seq_num(a) \in SequenceNumber
  BY ServersHaveSlots, LeaderFields
<1>2. y \in Slots
  BY ServersHaveSlots
<1>3. CASE y \in Q
  <2>1. PICK b : b = next_seq_num(increment_seq_num_session(a)) /\ b = m.follower_seq_nums[y]
    BY <1>1, <1>2, <1>3 DEF Resyncs
  <2>2. b \in SequenceNumber /\ seq_num_leq(a, b) /\ seq_num_leq(next_seq_num(a), b)
    BY <1>1, <2>1, SeqNumSession
  <2>3. ~ seq_num_leq(next_seq_num(b), next_seq_num(a)) /\ next_seq_num(b) \in SequenceNumber
    BY <1>1, <2>2, SeqNumNext, SequenceNumberType
  <2> QED BY <1>1, <2>1, <2>2, <2>3
<1>4. CASE y \notin Q
  <2>1. m.follower_seq_nums[y] = a
    BY <1>1, <1>2, <1>4 DEF Resyncs
  <2> QED BY <1>1, <1>4, <2>1, SeqNumReflexive
<1> QED BY <1>3, <1>4

\* The promise of q is counted, and it is not looked for the largest one.
Hears(l, m, q, meta) ==
  /\ m \in LeaderStates /\ m.n_leader = l.n_leader
  /\ m.follower_seq_nums = l.follower_seq_nums /\ m.max_promise_meta = l.max_promise_meta
  /\ m.promises_meta[q].meta = meta
  /\ \A r \in Slots : r # q => m.promises_meta[r] = l.promises_meta[r]

\* handle_promise_accept, when it does not panic.
LEMMA PromiseSyncedExplained ==
  ASSUME NEW p \in Server, NEW q \in Peers(p), NEW h, From(h),
         Incoming(p, q, "Promise"), state[p] = << "Leader", "Accept" >>,
         NEW a, a = Head(net[q][p]), counts_promise(p, a),
         NEW l1, Hears(leader_state[p], l1, q, PromiseMeta(a)), CountsOK(h, l1),
         NEW l, Resyncs(l1, l, {q}), ~ send_accsync_panics(storage[p], l, q),
         leader_state' = [leader_state EXCEPT ![p] = l],
         NEW m, m = accsync_message(storage[p], l, q), Handled(p, q, send(outgoing[p], q, m)),
         UNCHANGED << storage, state, follower_state, panicked >>
  PROVE  \E g : Succeeds(h, g)
<1>1. PICK n, s, l0, meta : n = storage[p].promise /\ s = storage[p] /\ l0 = leader_state[p] /\ meta = PromiseMeta(a)
  OBVIOUS
<1>2. /\ TypeOK /\ Inv /\ Explains(h) /\ h \in History /\ Plain /\ s \in Storage /\ l0 \in LeaderStates
      /\ outgoing[p] = NoMessages /\ LogOK(h, p, s) /\ BatchOK(h, p, s) /\ CountsOK(h, l0) /\ RoundInv(h)
  BY <1>1, FromFacts
<1>3. p \notin panicked /\ net[q][p] # << >> /\ q \in Server /\ q # p /\ q \in Slots
  BY ServersHaveSlots DEF Incoming, Peers
<1>4. /\ n \in Ballot /\ n \in h.est /\ n.pid = p /\ l0.n_leader = n /\ Leads(p, n)
      /\ s.accepted_round = n /\ h.rlog[n] \in Entries /\ Len(h.rlog[n]) = s.accepted_idx
      /\ h.acc[p][n] = s.accepted_idx /\ s.accepted_idx \in Nat
  BY <1>1, <1>3, LeaderAccepts
<1>5. meta \in PromiseMetaData /\ MetaOK(h, q, n, meta)
  <2>1. /\ PromiseMeta(a) \in PromiseMetaData /\ a.n = leader_state[p].n_leader /\ PromiseOK(h, q, p, a)
    BY <1>2, PromiseArrives
  <2> QED BY <1>1, <1>4, <2>1 DEF PromiseOK
<1>6. l1 \in LeaderStates /\ l1.n_leader = n
  BY <1>1, <1>4 DEF Hears
<1>8. PICK log : log \in Entries /\ log = h.rlog[n] /\ Extends(h.rlog[n], log) /\ Len(log) = s.accepted_idx
  BY <1>4, ExtendsSelf
<1>9. PICK g : LeadsOn(h, g, p, n, log)
  BY <1>1, <1>3, <1>8, LeaderAccepts
<1>10. Updates(p, s, state[p], l, follower_state[p])
  BY <1>1, <1>2, Unchanged DEF Updates
<1>11. l \in LeaderStates /\ l.n_leader = n /\ l.max_promise_meta = l0.max_promise_meta /\ l.promises_meta[q].meta = meta
  BY <1>1, <1>3, <1>6 DEF Resyncs, Hears
<1>12. Leading(p, h, g, n, log, s, l)
  BY <1>1, <1>2, <1>3, <1>4, <1>8, <1>9, <1>10, <1>11 DEF Leading
<1>13. \A y \in Server : l1.follower_seq_nums[y] = l0.follower_seq_nums[y]
  BY <1>1 DEF Hears
<1>14. SeqNumsOK(p, l0, l, FALSE)
  <2>1. \A y \in Server : seq_num_leq(l0.follower_seq_nums[y], l.follower_seq_nums[y])
    BY <1>6, <1>13, ResyncSeqNums
  <2>2. ASSUME NEW y \in Peers(p), is_promised(l, y)
        PROVE  \/ ~ seq_num_leq(next_seq_num(l.follower_seq_nums[y]), next_seq_num(l0.follower_seq_nums[y]))
               \/ is_promised(l0, y) /\ l.follower_seq_nums[y] = l0.follower_seq_nums[y]
    <3>1. y \in Server /\ y \in Slots
      BY ServersHaveSlots DEF Peers
    <3>2. CASE y = q
      BY <1>6, <1>13, <3>1, <3>2, ResyncSeqNums
    <3>3. CASE y # q
      <4>1. l.follower_seq_nums[y] = l1.follower_seq_nums[y] /\ l.promises_meta[y] = l1.promises_meta[y]
        BY <3>1, <3>3 DEF Resyncs
      <4>2. l1.promises_meta[y] = l0.promises_meta[y]
        BY <1>1, <3>1, <3>3 DEF Hears
      <4> QED BY <1>13, <2>2, <3>1, <4>1, <4>2 DEF is_promised
    <3> QED BY <3>2, <3>3
  <2> QED BY <2>1, <2>2 DEF SeqNumsOK
<1>15. PICK new : new = FALSE
  OBVIOUS
<1>16. SeqNumsOK(p, leader_state[p], l, new)
  BY <1>1, <1>14, <1>15
<1>17. /\ Step(p, h, g) /\ storage'[p] = s /\ leader_state'[p] = l
  <2>1. StepsTo(p, h, g, s, l)
    BY <1>12, <1>16, LeadingSteps
  <2> QED BY <2>1 DEF StepsTo
<1>18. /\ g \in History /\ g.est = h.est /\ g.rlog[n] = log /\ g.acc[p][n] = Len(log) /\ g.base[n] = h.base[n]
       /\ g.start[n] = Onwards(h, n, l0, Len(log))
  BY <1>1, <1>9 DEF LeadsOn, Continues
<1>19. VoteInv(g)' /\ ChoiceInv(g)'
  <2>1. Accepts(p, h, g) /\ Founds(h, g)
    BY <1>1, <1>4, <1>8, <1>18 DEF Accepts, Written, Founds
  <2> QED BY <1>17, <2>1, RoundsKept
<1>20. ChosenInv(g) /\ AccBounded(g)
  <2>1. ChosenInv(g)
    BY <1>19, ChosenFirst
  <2> QED BY <1>19, <2>1 DEF VoteInv, AccBounded
<1>21. LogOK(g, p, s)
  BY <1>2, <1>4, <1>8, <1>17, <1>18, LogKept
<1>22. MaxAgrees(g, n, l.max_promise_meta)
  <2>1. PICK max : max = l0.max_promise_meta /\ max \in PromiseMetaData /\ max.n_accepted \in Ballot
    BY <1>2, LeaderFields DEF PromiseMetaData
  <2>2. /\ max.n_accepted \prec n /\ max.accepted_idx <= h.base[n]
        /\ Agree(h.rlog[max.n_accepted], h.rlog[n], max.accepted_idx)
    <3>1. AcceptOK(h, p, storage[p], leader_state[p])
      BY <1>2, <1>3, LeaderRound
    <3> QED BY <1>1, <1>4, <2>1, <3>1 DEF AcceptOK
  <2>3. max.n_accepted # n
    BY <1>4, <2>2, BallotIrreflexive
  <2>4. g.rlog[max.n_accepted] = h.rlog[max.n_accepted]
    BY <1>9, <2>1, <2>3 DEF LeadsOn, Continues
  <2> QED BY <1>8, <1>11, <1>18, <2>1, <2>2, <2>4 DEF MaxAgrees
<1>23. Syncs(p, g, n, s, l)
  <2>1. g.base[n] <= Len(g.rlog[n])
    BY <1>2, <1>4, <1>8, <1>18 DEF RoundInv, RoundOK
  <2> QED BY <1>2, <1>4, <1>8, <1>11, <1>18, <1>20, <1>21, <1>22, <2>1 DEF Syncs
<1>24. g.start[n][q][next_seq_num(l.follower_seq_nums[q])] = Len(g.rlog[n])
  <2>1. PICK sn : sn = next_seq_num(l.follower_seq_nums[q]) /\ sn \in SequenceNumber
                  /\ ~ seq_num_leq(sn, next_seq_num(l0.follower_seq_nums[q]))
    BY <1>3, <1>6, <1>13, ResyncSeqNums
  <2> QED BY <1>3, <1>18, <2>1 DEF Onwards
<1>25. MetaOK(g, q, n, meta)'
  BY <1>3, <1>4, <1>5, <1>17, MetaKept
<1>26. m \in Message /\ FreshOK(p, g, q, m)
  BY <1>1, <1>11, <1>17, <1>23, <1>24, <1>25, AccSyncFresh
<1>27. PICK out : out = send(NoMessages, q, m) /\ Fresh(p, g, out) /\ Ended(p, out)
  <2>1. \A y \in Server : send(NoMessages, q, m)[y] = IF y = q THEN << m >> ELSE << >>
    BY <1>2, NothingWaits, SMTT(30)
  <2>2. Fresh(p, g, send(NoMessages, q, m))
    BY <1>26, <2>1 DEF Fresh, Peers
  <2> QED BY <1>2, <1>3, <2>2 DEF Ended, Handled
<1>28. Counted(g, l1, l)
  BY DEF Counted, Resyncs
<1>29. Succeeds(h, g)
  BY <1>1, <1>6, <1>8, <1>12, <1>16, <1>21, <1>27, <1>28, LeadingExplained
<1> QED BY <1>29

\* handle_promise_accept.
LEMMA PromiseAcceptExplained ==
  ASSUME NEW p \in Server, NEW q \in Peers(p), NEW h, From(h), handle_promise_accept(p, q)
  PROVE  \E g : Succeeds(h, g)
<1> DEFINE a == Head(net[q][p])
           l1 == set_promise(leader_state[p], q, PromiseMeta(a), a.log_sync, FALSE)
           l == accsync_leader_state(l1, {q})
           m == accsync_message(storage[p], l, q)
<1>1. /\ Incoming(p, q, "Promise") /\ state[p] = << "Leader", "Accept" >> /\ counts_promise(p, a)
      /\ UNCHANGED storage
      /\ IF send_accsync_panics(storage[p], l, q)
           THEN Panic(p, q)
           ELSE /\ leader_state' = [leader_state EXCEPT ![p] = l]
                /\ Handled(p, q, send(outgoing[p], q, m))
                /\ UNCHANGED << state, follower_state, buffered_proposals, buffered_stopsign, panicked >>
  BY Zenon DEF handle_promise_accept
<1>2. /\ PromiseMeta(a) \in PromiseMetaData /\ a.log_sync \in LogSync \cup {None} /\ CountsOK(h, leader_state[p])
      /\ q \in Slots /\ q \in Server /\ leader_state[p] \in LeaderStates /\ MetaOK(h, q, leader_state[p].n_leader, PromiseMeta(a))
  <2>1. /\ Inv /\ Explains(h)
    BY FromFacts
  <2> QED BY <1>1, <2>1, PromiseArrives DEF PromiseOK
<1>5. Records(leader_state[p], l1, q, PromiseMeta(a), a.log_sync, FALSE)
  BY <1>2, RecordsFields, Zenon
<1>6. CountsOK(h, l1)
  BY <1>2, <1>5, RecordsCounts, Zenon
<1>7. Hears(leader_state[p], l1, q, PromiseMeta(a))
  BY <1>5, Zenon DEF Records, Hears
<1> HIDE DEF a, l1
<1>8. Resyncs(l1, l, {q})
  BY <1>7, ResyncFields DEF Hears
<1> HIDE DEF l
<1>3. CASE send_accsync_panics(storage[p], l, q)
  <2>1. net[q][p] # << >>
    BY <1>1 DEF Incoming
  <2>2. Succeeds(h, h)
    BY <1>1, <1>3, <2>1, ConsumeExplained DEF Panic
  <2> QED BY <2>2
<1>4. CASE ~ send_accsync_panics(storage[p], l, q)
  <2>1. /\ leader_state' = [leader_state EXCEPT ![p] = l]
        /\ Handled(p, q, send(outgoing[p], q, m))
        /\ UNCHANGED << storage, state, follower_state, panicked >>
    BY <1>1, <1>4
  <2>2. a = Head(net[q][p])
    BY DEF a
  <2> HIDE DEF m
  <2>3. m = accsync_message(storage[p], l, q)
    BY DEF m
  <2> QED BY <1>1, <1>4, <1>6, <1>7, <1>8, <2>1, <2>2, <2>3, PromiseSyncedExplained
<1> QED BY <1>3, <1>4

------------------------------------------------------------------------------
(* Adopting the log of the largest promise *)

\* t is s with its log cut and gone on with as b does, up to idx.
Synced(b, s, t, n, d, idx) ==
  /\ t \in Storage
  /\ t.promise = s.promise /\ t.accepted_round = n /\ t.decided_idx = d /\ t.accepted_idx = idx
  /\ t.compacted_idx = s.compacted_idx /\ t.snapshot = s.snapshot /\ t.stopsign = None
  /\ t.batched_entries = s.batched_entries
  /\ t.accepted_idx = t.compacted_idx + Len(t.log) /\ Segment(b, t.compacted_idx, t.log)

\* The log of s follows a, which agrees with b up to where sync begins, and sync
\* goes on as b.
Joins(a, b, s, sync) ==
  /\ s.accepted_idx = s.compacted_idx + Len(s.log) /\ Segment(a, s.compacted_idx, s.log)
  /\ sync.decided_snapshot.kind = "None" /\ sync.sync_idx <= s.accepted_idx
  /\ Agree(a, b, sync.sync_idx) /\ Segment(b, sync.sync_idx, sync.suffix)

\* sync_log without snapshots and stop signs.
LEMMA SyncLogFields ==
  ASSUME Plain, NEW s \in Storage, NEW n \in Ballot, NEW d \in Nat, NEW sync \in LogSync,
         ~ sync_log_panics(s, d, sync), NEW a \in Entries, NEW b \in Entries, Joins(a, b, s, sync),
         NEW t, t = sync_log(s, n, d, sync)
  PROVE  Synced(b, s, t, n, d, sync.sync_idx + Len(sync.suffix))
<1>1. /\ sync.sync_idx \in Nat /\ sync.suffix \in Entries /\ sync.stopsign = None
      /\ Len(sync.suffix) \in Nat
  BY LenProperties DEF LogSync, Plain, Entries
<1>2. s.compacted_idx \in Nat /\ s.log \in Entries /\ Len(s.log) \in Nat
  BY StorageFields
<1>3. sync # None /\ sync.decided_snapshot.kind = "None"
  BY NoneAssumption DEF Joins
<1>4. s.compacted_idx <= sync.sync_idx
  BY <1>1, <1>2, <1>3 DEF sync_log_panics
<1> DEFINE kind == sync.decided_snapshot.kind
           newsnap == CASE kind = "None" -> s.snapshot
                        [] kind = "Complete" -> sync.decided_snapshot.snapshot
                        [] kind = "Delta" -> merge(create_snapshot(s, create_decided_snapshot_idx(s, d)),
                                                   sync.decided_snapshot.snapshot)
           newlog == IF kind = "None"
                       THEN truncate(s.log, sync.sync_idx - s.compacted_idx) \o sync.suffix
                       ELSE sync.suffix
           compacted == IF kind = "None" THEN s.compacted_idx ELSE sync.sync_idx
           accepted == sync.sync_idx + Len(sync.suffix) + IF sync.stopsign = None THEN 0 ELSE 1
<1>5. t = [s EXCEPT !.accepted_round = n, !.decided_idx = d, !.compacted_idx = compacted,
                    !.snapshot = newsnap, !.log = newlog, !.stopsign = sync.stopsign, !.accepted_idx = accepted]
  BY <1>3, Zenon DEF sync_log
<1>6. PICK c, idx, log : /\ c = s.compacted_idx /\ idx = sync.sync_idx + Len(sync.suffix)
                         /\ log = truncate(s.log, sync.sync_idx - c) \o sync.suffix
  OBVIOUS
<1>7. log \in Entries /\ c + Len(log) = idx /\ Segment(b, c, log)
  <2>1. PICK old, i, suffix : old = s.log /\ i = sync.sync_idx /\ suffix = sync.suffix
    OBVIOUS
  <2>2. /\ c \in Nat /\ i \in Nat /\ old \in Entries /\ suffix \in Entries /\ Len(old) \in Nat
        /\ Segment(a, c, old) /\ Agree(a, b, i) /\ Segment(b, i, suffix) /\ c <= i /\ i <= c + Len(old)
    BY <1>1, <1>2, <1>4, <1>6, <2>1 DEF Joins
  <2>3. LET new == truncate(old, i - c) \o suffix
        IN  new \in Entries /\ c + Len(new) = i + Len(suffix) /\ Segment(b, c, new)
    BY <2>2, SegmentSync
  <2> QED BY <1>6, <2>1, <2>3, Zenon
<1>8. compacted = c /\ newsnap = s.snapshot /\ newlog = log /\ accepted = idx /\ idx \in Nat
  BY <1>1, <1>3, <1>6
<1> HIDE DEF kind, newsnap, newlog, compacted, accepted
<1>10. /\ t \in Storage
       /\ t.promise = s.promise /\ t.accepted_round = n /\ t.decided_idx = d /\ t.accepted_idx = idx
       /\ t.compacted_idx = c /\ t.snapshot = s.snapshot /\ t.stopsign = None
       /\ t.batched_entries = s.batched_entries /\ t.log = log
  BY ZenonT(30), <1>1, <1>2, <1>5, <1>6, <1>7, <1>8 DEF Storage
<1> QED BY <1>6, <1>7, <1>10 DEF Synced

\* sync_log with what the leader got with the largest promise.
LEMMA AdoptedStorage ==
  ASSUME Plain, NEW h \in History, NEW p \in Server, NEW s \in Storage, LogOK(h, p, s),
         NEW l \in LeaderStates, MaxOK(h, s, l), NEW max, max = l.max_promise_meta,
         NEW n \in Ballot, NEW d \in Nat, NEW sync, sync = l.max_promise_sync,
         ~ sync_log_panics(s, d, sync), NEW t, t = sync_log(s, n, d, sync)
  PROVE  Synced(h.rlog[max.n_accepted], s, t, n, d, max.accepted_idx)
<1>1. /\ max.n_accepted \in Ballot /\ max.accepted_idx \in Nat /\ sync \in LogSync \cup {None}
      /\ s.accepted_round \in Ballot
  BY LeaderFields, StorageFields DEF PromiseMetaData
<1>2. PICK a, b : a = h.rlog[s.accepted_round] /\ b = h.rlog[max.n_accepted] /\ a \in Entries /\ b \in Entries
  BY <1>1, HistoryFields
<1>3. CASE sync = None
  <2>1. max.n_accepted = s.accepted_round /\ max.accepted_idx = s.accepted_idx
    BY <1>3 DEF MaxOK
  <2>2. t = [s EXCEPT !.accepted_round = n, !.decided_idx = d]
    BY <1>3 DEF sync_log
  <2>3. /\ t \in Storage
        /\ t.promise = s.promise /\ t.accepted_round = n /\ t.decided_idx = d /\ t.accepted_idx = s.accepted_idx
        /\ t.compacted_idx = s.compacted_idx /\ t.snapshot = s.snapshot /\ t.stopsign = s.stopsign
        /\ t.batched_entries = s.batched_entries /\ t.log = s.log
    BY <2>2 DEF Storage
  <2>4. /\ s.stopsign = None /\ s.accepted_idx = s.compacted_idx + Len(s.log)
        /\ Segment(b, s.compacted_idx, s.log)
    BY <1>2, <2>1 DEF LogOK
  <2> QED BY <1>2, <2>1, <2>3, <2>4 DEF Synced
<1>4. CASE sync # None
  <2>1. sync \in LogSync /\ AdoptOK(h, s, max, sync)
    BY <1>1, <1>4 DEF MaxOK
  <2>2. Joins(a, b, s, sync)
    BY <1>2, <2>1 DEF Joins, AdoptOK, LogOK
  <2>3. Synced(b, s, t, n, d, sync.sync_idx + Len(sync.suffix))
    BY <1>2, <2>1, <2>2, SyncLogFields
  <2>4. sync.sync_idx + Len(sync.suffix) = max.accepted_idx
    BY <2>1 DEF AdoptOK
  <2> QED BY <1>2, <2>3, <2>4
<1> QED BY <1>3, <1>4

\* max_promise_meta is the largest of the promises.
LEMMA LargestPromise ==
  ASSUME NEW h, NEW s, NEW l \in LeaderStates, MaxOK(h, s, l), NEW x \in Slots, is_promised(l, x),
         NEW meta, meta = l.promises_meta[x].meta, NEW max, max = l.max_promise_meta
  PROVE  /\ meta \in PromiseMetaData /\ max \in PromiseMetaData
         /\ meta.n_accepted \in Ballot /\ meta.accepted_idx \in Nat /\ meta.decided_idx \in Nat
         /\ max.n_accepted \in Ballot /\ max.accepted_idx \in Nat
         /\ meta.n_accepted \preceq max.n_accepted
         /\ meta.n_accepted = max.n_accepted => meta.accepted_idx <= max.accepted_idx
         /\ max.n_accepted \prec l.n_leader
<1>1. meta \in PromiseMetaData /\ max \in PromiseMetaData
  BY LeaderFields
<1>2. /\ meta.n_accepted \in Ballot /\ meta.accepted_idx \in Nat /\ meta.decided_idx \in Nat
      /\ max.n_accepted \in Ballot /\ max.accepted_idx \in Nat
  BY <1>1 DEF PromiseMetaData
<1>3. ~ greater_meta(meta, max) /\ max.n_accepted \prec l.n_leader
  BY DEF MaxOK
<1>4. ~ (max.n_accepted \prec meta.n_accepted)
  BY <1>3 DEF greater_meta
<1>5. meta.n_accepted \preceq max.n_accepted
  BY <1>2, <1>4, BallotTotal
<1>6. meta.n_accepted = max.n_accepted => meta.accepted_idx <= max.accepted_idx
  BY <1>2, <1>3 DEF greater_meta
<1> QED BY <1>1, <1>2, <1>3, <1>5, <1>6

\* What may be chosen in an earlier round is in the log of the largest promise:
\* one of those who may vote for it has promised, and the leader counted it.
LEMMA ChoosableIsAdopted ==
  ASSUME TypeOK, NEW h \in History, ChoiceInv(h), VoteInv(h), NEW s, NEW l \in LeaderStates,
         CountsOK(h, l), MaxOK(h, s, l), has_prepare_quorum(l),
         NEW max, max = l.max_promise_meta,
         NEW r \in Ballot, r \prec l.n_leader, NEW i \in Nat \ {0}, Choosable(h, r, i)
  PROVE  i <= max.accepted_idx /\ Agree(h.rlog[r], h.rlog[max.n_accepted], i)
<1> DEFINE R == {x \in Slots : is_promised(l, x)}
<1>1. R \in SUBSET Server /\ Cardinality(R) >= ReadQuorum
  BY DEF CountsOK, has_prepare_quorum, is_prepare_quorum
<1>2. MayVote(h, r, i) \in SUBSET Server /\ Cardinality(MayVote(h, r, i)) >= WriteQuorum
  BY DEF MayVote, Choosable
<1>3. PICK x \in R : x \in MayVote(h, r, i)
  BY <1>1, <1>2, QuorumsIntersect
<1>4. x \in Server /\ x \in Slots /\ is_promised(l, x)
  BY <1>1
<1>5. PICK meta, n : meta = l.promises_meta[x].meta /\ n = l.n_leader /\ MetaOK(h, x, n, meta)
  BY <1>4 DEF CountsOK
<1>6. /\ meta.n_accepted \in Ballot /\ meta.accepted_idx \in Nat
      /\ max.n_accepted \in Ballot /\ max.accepted_idx \in Nat
      /\ meta.n_accepted \preceq max.n_accepted
      /\ meta.n_accepted = max.n_accepted => meta.accepted_idx <= max.accepted_idx
      /\ max.n_accepted \prec n
  BY <1>4, <1>5, LargestPromise
<1>7. n \in Ballot /\ storage[x].promise \in Ballot /\ n \preceq storage[x].promise /\ h.acc[x][r] \in Nat
  BY <1>4, <1>5, LeaderFields, StorageFields, HistoryFields DEF TypeOK, MetaOK
<1>8. h.acc[x][r] >= i
  <2>1. r \prec storage[x].promise
    BY <1>5, <1>7, BallotStrictlyTransitive
  <2>2. ~ (storage[x].promise \preceq r)
    BY <1>7, <2>1, BallotAsymmetric
  <2> QED BY <1>3, <2>2 DEF MayVote
<1>9. meta.n_accepted \prec n
  BY <1>6, <1>7, BallotStrictlyTransitive
<1>10. r \preceq meta.n_accepted
  <2> SUFFICES ASSUME meta.n_accepted \prec r PROVE FALSE
    BY <1>6, BallotTotal
  <2>1. h.acc[x][r] = 0
    BY <1>5, <1>9 DEF MetaOK
  <2> QED BY <1>8, <2>1
<1>11. r \preceq max.n_accepted
  BY <1>6, <1>10, BallotTransitive
<1>12. h.rlog[r] \in Entries /\ Len(h.rlog[r]) \in Nat /\ h.acc[x][r] <= Len(h.rlog[r])
  BY <1>4, HistoryFields DEF VoteInv
<1>13. CASE r = max.n_accepted
  <2>1. meta.n_accepted = r
    BY <1>6, <1>10, <1>13, BallotAsymmetric DEF \preceq
  <2>2. h.acc[x][r] = meta.accepted_idx
    BY <1>5, <1>9, <2>1 DEF MetaOK
  <2>3. i <= max.accepted_idx
    BY <1>6, <1>8, <1>13, <2>1, <2>2
  <2>4. Agree(h.rlog[r], h.rlog[r], i)
    <3>1. i <= Len(h.rlog[r])
      BY <1>7, <1>8, <1>12
    <3> QED BY <1>12, <3>1, AgreeSelf
  <2> QED BY <1>13, <2>3, <2>4
<1>14. CASE r # max.n_accepted
  <2>1. r \prec max.n_accepted
    BY <1>11, <1>14 DEF \preceq
  <2>2. max.n_accepted \in h.est /\ h.base[max.n_accepted] <= max.accepted_idx
    <3>1. max.n_accepted # DefaultBallot
      BY <2>1, DefaultBallotSmallest, DefaultBallotType, BallotAsymmetric
    <3> QED BY <3>1 DEF MaxOK
  <2>3. i <= h.base[max.n_accepted] /\ Agree(h.rlog[r], h.rlog[max.n_accepted], i)
    BY <2>1, <2>2 DEF ChoiceInv
  <2>4. h.base[max.n_accepted] \in Nat
    BY <1>6, HistoryFields
  <2>5. i <= max.accepted_idx
    BY <1>6, <2>2, <2>3, <2>4
  <2> QED BY <2>3, <2>5
<1> QED BY <1>13, <1>14

\* get_max_decided_idx: what a promise tells is decided, the largest one has.
LEMMA DecidedIsAdopted ==
  ASSUME NEW h \in History, ChosenInv(h), NEW s, NEW l \in LeaderStates, CountsOK(h, l), MaxOK(h, s, l),
         NEW max, max = l.max_promise_meta, NEW d, d = get_max_decided_idx(l)
  PROVE  d \in Nat /\ d <= max.accepted_idx /\ DecidedIn(h, l.n_leader, d)
<1>1. d \in Nat /\ d \in promised_decided_idxs(l) \cup {0} /\ max.accepted_idx \in Nat
  BY MaxDecidedIdxType, MaxDecidedIdxIsPromised, LeaderFields DEF PromiseMetaData
<1>2. CASE d = 0
  BY <1>1, <1>2 DEF DecidedIn
<1>3. CASE d # 0
  <2>1. PICK x \in Slots : is_promised(l, x) /\ d = l.promises_meta[x].meta.decided_idx
    BY <1>1, <1>3 DEF promised_decided_idxs
  <2>2. PICK meta, n : meta = l.promises_meta[x].meta /\ n = l.n_leader /\ x \in Server /\ MetaOK(h, x, n, meta)
    BY <2>1 DEF CountsOK
  <2>3. /\ meta.n_accepted \in Ballot /\ meta.accepted_idx \in Nat
        /\ max.n_accepted \in Ballot /\ max.accepted_idx \in Nat
        /\ meta.n_accepted \preceq max.n_accepted
        /\ meta.n_accepted = max.n_accepted => meta.accepted_idx <= max.accepted_idx
    BY <2>1, <2>2, LargestPromise
  <2>4. d <= meta.accepted_idx /\ DecidedIn(h, meta.n_accepted, d) /\ meta.n_accepted \preceq n
        /\ meta.n_accepted \in h.est \cup {DefaultBallot}
    BY <2>1, <2>2 DEF MetaOK
  <2>5. DecidedIn(h, n, d)
    BY <1>1, <2>2, <2>3, <2>4, DecidedBefore, LeaderFields
  <2>6. d <= max.accepted_idx
    <3>1. CASE meta.n_accepted = max.n_accepted
      BY <1>1, <2>3, <2>4, <3>1
    <3>2. CASE meta.n_accepted # max.n_accepted
      <4>1. meta.n_accepted \prec max.n_accepted
        BY <2>3, <3>2 DEF \preceq
      <4>2. max.n_accepted \in h.est /\ h.base[max.n_accepted] <= max.accepted_idx /\ h.base[max.n_accepted] \in Nat
        <5>1. max.n_accepted # DefaultBallot
          BY <2>3, <4>1, DefaultBallotSmallest, DefaultBallotType, BallotAsymmetric
        <5> QED BY <2>3, <5>1, HistoryFields DEF MaxOK
      <4>3. d <= h.base[max.n_accepted]
        BY <1>1, <2>3, <2>4, <4>1, <4>2, DecidedAgree
      <4> QED BY <1>1, <4>2, <4>3
    <3> QED BY <3>1, <3>2
  <2> QED BY <1>1, <2>2, <2>5, <2>6
<1> QED BY <1>2, <1>3

------------------------------------------------------------------------------
(* The leader leaves the Prepare phase *)

\* The first k entries of a log.
LEMMA PrefixAgrees ==
  ASSUME NEW a \in Entries, NEW k \in Nat, k <= Len(a), NEW b, b = SubSeq(a, 1, k)
  PROVE  /\ b \in Entries /\ Len(b) = k /\ Agree(a, b, k)
         /\ \A c \in Nat : \A s \in Entries : Segment(a, c, s) /\ c + Len(s) <= k => Segment(b, c, s)
<1>1. PICK n \in Nat : n = Len(a)
  BY LenProperties DEF Entries
<1>2. \A i \in 1 .. k : a[i] \in Value
  BY <1>1, ElementOfSeq DEF Entries
<1>3. b \in Entries /\ Len(b) = k /\ \A i \in 1 .. k : b[i] = a[i]
  BY <1>1, <1>2, SubSeqProperties DEF Entries
<1>4. Agree(a, b, k)
  BY <1>1, <1>3 DEF Agree
<1>5. ASSUME NEW c \in Nat, NEW s \in Entries, Segment(a, c, s), c + Len(s) <= k
      PROVE  Segment(b, c, s)
  <2>1. Len(s) \in Nat
    BY LenProperties DEF Entries
  <2> QED BY <1>3, <1>5, <2>1 DEF Segment
<1> QED BY <1>3, <1>4, <1>5

\* With the bookkeeping l, p has a quorum of promises for round n.
Elected(h, p, n, l) ==
  /\ p \notin panicked /\ state[p] = << "Leader", "Prepare" >> /\ n = storage[p].promise
  /\ l \in LeaderStates /\ PrepareOK(h, p, storage[p], l) /\ CountsOK(h, l) /\ has_prepare_quorum(l)
  /\ l.follower_seq_nums = leader_state[p].follower_seq_nums

\* From h to g round n begins with log, in which the log of the largest promise
\* comes first.
Establishes(h, g, p, n, l, log) ==
  /\ log \in Entries
  /\ l.max_promise_meta.accepted_idx <= Len(log)
  /\ Agree(h.rlog[l.max_promise_meta.n_accepted], log, l.max_promise_meta.accepted_idx)
  /\ Continues(h, g, p, n, log, Len(log), h.est \cup {n}, Len(log), Onwards(h, n, leader_state[p], Len(log)))
  /\ Grows(p, h, g)

\* The round is new, and the largest promise is of an earlier one.
LEMMA ElectedFacts ==
  ASSUME NEW h, From(h), NEW p \in Server, NEW n, NEW l, Elected(h, p, n, l), NEW max, max = l.max_promise_meta
  PROVE  /\ n \in Ballot /\ l.n_leader = n /\ n.pid = p /\ n \notin h.est /\ Leads(p, n)
         /\ h.rlog[n] = << >> /\ h.acc[p][n] = 0
         /\ max \in PromiseMetaData /\ max.n_accepted \in Ballot /\ max.accepted_idx \in Nat
         /\ max.n_accepted \prec n /\ max.n_accepted # n
         /\ h.rlog[max.n_accepted] \in Entries /\ max.accepted_idx <= Len(h.rlog[max.n_accepted])
<1>1. /\ storage[p] \in Storage /\ storage[p].promise \in Ballot /\ h \in History /\ RoundInv(h)
  BY FromFacts
<1>2. n \in Ballot /\ n = storage[p].promise /\ l \in LeaderStates /\ PrepareOK(h, p, storage[p], l)
  BY <1>1 DEF Elected
<1>3. l.n_leader = n /\ n.pid = p /\ n \notin h.est /\ MaxOK(h, storage[p], l)
  BY <1>2 DEF PrepareOK
<1>4. Leads(p, n)
  BY DEF Elected, Leads
<1>5. h.rlog[n] = << >> /\ h.acc[p][n] = 0
  BY <1>1, <1>2, <1>3 DEF RoundInv, Unused
<1>6. max \in PromiseMetaData /\ max.n_accepted \in Ballot /\ max.accepted_idx \in Nat
  BY <1>2, LeaderFields DEF PromiseMetaData
<1>7. max.n_accepted \prec n /\ max.accepted_idx <= Len(h.rlog[max.n_accepted])
  BY <1>3 DEF MaxOK
<1>8. h.rlog[max.n_accepted] \in Entries
  BY <1>1, <1>6, HistoryFields
<1> QED BY <1>2, <1>3, <1>4, <1>5, <1>6, <1>7, <1>8, BallotIrreflexive

\* The history can go on so.
LEMMA EstablishExists ==
  ASSUME NEW h, From(h), NEW p \in Server, NEW n, NEW l, Elected(h, p, n, l), NEW log \in Entries,
         l.max_promise_meta.accepted_idx <= Len(log),
         Agree(h.rlog[l.max_promise_meta.n_accepted], log, l.max_promise_meta.accepted_idx)
  PROVE  \E g : Establishes(h, g, p, n, l, log)
<1>1. /\ TypeOK /\ h \in History /\ n = storage[p].promise /\ n \in Ballot /\ n.pid = p /\ n \notin h.est /\ Leads(p, n)
      /\ h.rlog[n] = << >> /\ h.acc[p][n] = 0
  BY FromFacts, ElectedFacts DEF Elected
<1>2. PICK E, b : E = h.est \cup {n} /\ b = Len(log) /\ b \in Nat /\ E \in SUBSET Ballot
  <2>1. h.est \cup {n} \in SUBSET Ballot
    BY <1>1, HistoryFields
  <2>2. Len(log) \in Nat
    BY LenProperties DEF Entries
  <2> QED BY <2>1, <2>2
<1>3. Extends(h.rlog[n], log)
  BY <1>1, <1>2 DEF Extends, Agree
<1>4. h.acc[p][n] <= Len(log) /\ h.est \subseteq E /\ E \subseteq h.est \cup {n} /\ n \in E
  BY <1>1, <1>2
<1>5. PICK g : /\ Continues(h, g, p, n, log, Len(log), E, b, Onwards(h, n, leader_state[p], Len(log)))
               /\ Grows(p, h, g)
  BY <1>1, <1>2, <1>3, <1>4, GoesOnLeading
<1> QED BY <1>2, <1>5 DEF Establishes

\* What p stores as it leaves the Prepare phase: the largest log, and behind it
\* the entries ents.
Adopts(h, p, l, ents, log, s) ==
  LET max == l.max_promise_meta
      b == SubSeq(h.rlog[max.n_accepted], 1, max.accepted_idx)
  IN  /\ ents \in Entries /\ log = b \o ents
      /\ \E t : /\ Synced(h.rlog[max.n_accepted], storage[p], t, l.n_leader, get_max_decided_idx(l), max.accepted_idx)
                /\ Appended(t, s, ents)

\* The log that begins with the largest one, and the history that has it.
LEMMA AdoptedLog ==
  ASSUME NEW h, From(h), NEW p \in Server, NEW n, NEW l, Elected(h, p, n, l),
         NEW ents, NEW log, NEW s, Adopts(h, p, l, ents, log, s)
  PROVE  /\ \E g : Establishes(h, g, p, n, l, log)
         /\ s \in Storage /\ s.promise = n /\ s.accepted_round = n /\ s.accepted_idx = Len(log)
         /\ s.accepted_idx = s.compacted_idx + Len(s.log) /\ Segment(log, s.compacted_idx, s.log)
         /\ s.stopsign = None /\ s.snapshot = None /\ s.batched_entries = << >>
         /\ s.decided_idx = get_max_decided_idx(l) /\ s.compacted_idx = storage[p].compacted_idx
<1>1. PICK max, a, b, d : /\ max = l.max_promise_meta /\ a = h.rlog[max.n_accepted]
                          /\ b = SubSeq(a, 1, max.accepted_idx) /\ d = get_max_decided_idx(l)
  OBVIOUS
<1>2. PICK t : Synced(a, storage[p], t, l.n_leader, d, max.accepted_idx) /\ Appended(t, s, ents)
  BY <1>1 DEF Adopts
<1>3. ents \in Entries /\ log = b \o ents
  BY <1>1 DEF Adopts
<1>4. /\ n = l.n_leader /\ n = storage[p].promise /\ max.accepted_idx \in Nat /\ a \in Entries /\ max.accepted_idx <= Len(a)
  BY <1>1, ElectedFacts DEF Elected
<1>5. /\ b \in Entries /\ Len(b) = max.accepted_idx /\ Agree(a, b, max.accepted_idx)
      /\ \A c \in Nat : \A x \in Entries : Segment(a, c, x) /\ c + Len(x) <= max.accepted_idx => Segment(b, c, x)
  <2>1. PICK k \in Nat : k = max.accepted_idx /\ k <= Len(a) /\ b = SubSeq(a, 1, k)
    BY <1>1, <1>4
  <2>2. /\ b \in Entries /\ Len(b) = k /\ Agree(a, b, k)
        /\ \A c \in Nat : \A x \in Entries : Segment(a, c, x) /\ c + Len(x) <= k => Segment(b, c, x)
    BY <1>4, <2>1, PrefixAgrees
  <2> QED BY <2>1, <2>2
<1>6. /\ log \in Entries /\ Len(log) = Len(b) + Len(ents) /\ Extends(b, log) /\ Segment(log, Len(b), ents)
  BY <1>3, <1>5, AppendExtends
<1>7. storage[p] \in Storage /\ LogOK(h, p, storage[p])
  BY FromFacts
<1>8. /\ t \in Storage /\ t.promise = n /\ t.accepted_round = n /\ t.decided_idx = d
      /\ t.accepted_idx = max.accepted_idx /\ t.stopsign = None /\ t.snapshot = None
      /\ t.accepted_idx = t.compacted_idx + Len(t.log) /\ Segment(a, t.compacted_idx, t.log)
  BY <1>2, <1>4, <1>7 DEF Synced, LogOK
<1>9. t.compacted_idx \in Nat /\ t.log \in Entries /\ Len(t.log) \in Nat
  BY <1>8, StorageFields
<1>10. Segment(b, t.compacted_idx, t.log)
  BY <1>5, <1>8, <1>9
<1>11. Segment(log, t.compacted_idx, t.log)
  BY <1>5, <1>6, <1>9, <1>10, SegmentExtends
<1>12. s.accepted_idx = s.compacted_idx + Len(s.log) /\ Segment(log, s.compacted_idx, s.log)
  BY <1>2, <1>3, <1>5, <1>6, <1>8, <1>11, AppendedSegment
<1>13. /\ s \in Storage /\ s.promise = n /\ s.accepted_round = n /\ s.accepted_idx = max.accepted_idx + Len(ents)
       /\ s.stopsign = None /\ s.snapshot = None /\ s.batched_entries = << >> /\ s.decided_idx = d
       /\ s.compacted_idx = storage[p].compacted_idx
  BY <1>2, <1>8 DEF Appended, Synced
<1>14. max.accepted_idx <= Len(log)
  BY <1>5, <1>6, ExtendsLonger
<1>15. Agree(a, log, max.accepted_idx)
  BY <1>4, <1>5, <1>6, ExtendsSelf, AgreeExtends
<1>16. \E g : Establishes(h, g, p, n, l, log)
  BY <1>1, <1>6, <1>14, <1>15, EstablishExists
<1> QED BY <1>1, <1>5, <1>6, <1>12, <1>13, <1>16

\* The established round keeps what was or may be chosen, and has its quorum.
LEMMA EstablishFounds ==
  ASSUME NEW h, From(h), NEW p \in Server, NEW n, NEW l, Elected(h, p, n, l), NEW log, NEW g,
         Establishes(h, g, p, n, l, log), Step(p, h, g), NEW s, storage'[p] = s, s.accepted_round = n,
         NEW ents, ents = buffered_proposals[p], Adopts(h, p, l, ents, log, s)
  PROVE  Accepts(p, h, g) /\ Founds(h, g)
<1>1. PICK max : max = l.max_promise_meta
  OBVIOUS
<1>2. /\ n \in Ballot /\ l.n_leader = n /\ n.pid = p /\ n \notin h.est /\ n = storage[p].promise
      /\ max.n_accepted \in Ballot /\ max.accepted_idx \in Nat /\ max.n_accepted # n
      /\ h.rlog[max.n_accepted] \in Entries /\ h.acc[p][n] = 0
      /\ l \in LeaderStates /\ CountsOK(h, l) /\ has_prepare_quorum(l) /\ MaxOK(h, storage[p], l)
  BY <1>1, ElectedFacts DEF Elected, PrepareOK
<1>3. /\ log \in Entries /\ Len(log) \in Nat /\ g \in History /\ g.est = h.est \cup {n} /\ g.rlog[n] = log
      /\ g.acc[p][n] = Len(log) /\ g.base[n] = Len(log)
      /\ max.accepted_idx <= Len(log) /\ Agree(h.rlog[max.n_accepted], log, max.accepted_idx)
  BY <1>1, LenProperties DEF Establishes, Continues, Entries
<1>4. TypeOK /\ h \in History /\ ChoiceInv(h) /\ VoteInv(h) /\ TypeOK'
  BY FromFacts, StepFacts
<1>5. \A q \in Server : /\ storage[q].promise \in Ballot /\ storage'[q].promise \in Ballot
                        /\ storage[q].promise \preceq storage'[q].promise
  BY StepFacts
<1>6. RoundOK(g, n)'
  <2>1. n.pid \in Server /\ n \preceq storage'[n.pid].promise
    BY <1>2, <1>5
  <2>2. g.base[n] <= Len(g.rlog[n])
    BY <1>3
  <2>3. Cardinality({q \in Server : n \preceq storage'[q].promise}) >= ReadQuorum
    <3> DEFINE A == {q \in Server : n \preceq storage'[q].promise}
               B == {r \in Slots : is_promised(l, r)}
    <3>1. ASSUME NEW r \in Slots, is_promised(l, r)
          PROVE  r \in Server /\ n \preceq storage'[r].promise
      <4>1. r \in Server /\ n \preceq storage[r].promise
        BY <1>2, <3>1 DEF CountsOK, MetaOK
      <4> QED BY <1>2, <1>5, <4>1, BallotTransitive
    <3>2. B \in SUBSET A /\ A \in SUBSET Server
      BY <3>1
    <3>3. Cardinality(B) >= ReadQuorum
      BY <1>2 DEF has_prepare_quorum, is_prepare_quorum
    <3> HIDE DEF A, B
    <3>4. Cardinality(A) >= ReadQuorum
      BY <3>2, <3>3, QuorumGrows, QuorumSizes
    <3> QED BY <3>4 DEF A
  <2> QED BY <2>1, <2>2, <2>3 DEF RoundOK, Joined
<1>7. ASSUME NEW r \in Ballot, NEW i \in Nat \ {0}, r \prec n, Choosable(h, r, i)
      PROVE  i <= g.base[n] /\ Agree(h.rlog[r], g.rlog[n], i)
  <2>1. r \prec l.n_leader
    BY <1>2, <1>7
  <2>2. i <= max.accepted_idx /\ Agree(h.rlog[r], h.rlog[max.n_accepted], i)
    BY <1>1, <1>2, <1>4, <1>7, <2>1, ChoosableIsAdopted
  <2>3. i \in Nat /\ i <= Len(log)
    BY <1>2, <1>3, <2>2
  <2>4. Agree(h.rlog[max.n_accepted], log, i)
    BY <1>2, <1>3, <2>2, <2>3, AgreeShorter
  <2>5. Agree(h.rlog[r], log, i)
    BY <2>2, <2>4, AgreeTransitive
  <2> QED BY <1>3, <2>3, <2>5
<1>8. Begun(h, g, n)
  <2>1. PICK a, b, k : /\ a = h.rlog[max.n_accepted] /\ k = max.accepted_idx /\ k \in Nat /\ a \in Entries
                       /\ k <= Len(a) /\ b = SubSeq(a, 1, k)
    <3>1. max.accepted_idx <= Len(h.rlog[max.n_accepted])
      BY <1>1, ElectedFacts
    <3> QED BY <1>2, <3>1
  <2>2. b \in Entries /\ Len(b) = k
    BY <2>1, PrefixAgrees
  <2>3. ents \in Entries /\ log = b \o ents
    BY <1>1, <2>1 DEF Adopts
  <2>4. Segment(log, k, ents) /\ Len(log) = k + Len(ents)
    BY <2>2, <2>3, AppendExtends
  <2>5. /\ Agree(h.rlog[max.n_accepted], g.rlog[n], k)
        /\ Segment(g.rlog[n], k, buffered_proposals[n.pid])
        /\ Len(g.rlog[n]) = k + Len(buffered_proposals[n.pid])
    BY <1>2, <1>3, <2>1, <2>4
  <2> QED BY <1>2, <2>1, <2>5 DEF Begun
<1>9. Founds(h, g)
  BY <1>3, <1>6, <1>7, <1>8 DEF Founds
<1>10. Accepts(p, h, g)
  BY <1>2, <1>3 DEF Accepts, Written
<1> QED BY <1>9, <1>10

\* p has the storage s now, and the bookkeeping l2 if it did not panic.
Begins(p, s, l2) ==
  \/ /\ panicked' = panicked
     /\ Updates(p, s, << "Leader", "Accept" >>, l2, follower_state[p])
     /\ \A q \in Server : seq_num_leq(leader_state[p].follower_seq_nums[q], l2.follower_seq_nums[q])
  \/ /\ panicked' = panicked \cup {p}
     /\ Updates(p, s, state[p], leader_state[p], follower_state[p])

\* It is a step from h to g.
LEMMA EstablishStep ==
  ASSUME NEW h, From(h), NEW p \in Server, NEW n, NEW l, Elected(h, p, n, l), NEW log, NEW g,
         Establishes(h, g, p, n, l, log), NEW s, s.promise = n, s.accepted_round = n, NEW l2, Begins(p, s, l2)
  PROVE  Step(p, h, g) /\ storage'[p] = s /\ follower_state'[p] = follower_state[p]
<1>1. TypeOK /\ n = storage[p].promise /\ Leads(p, n)
  BY FromFacts, ElectedFacts DEF Elected
<1>2. CASE /\ panicked' = panicked
           /\ Updates(p, s, << "Leader", "Accept" >>, l2, follower_state[p])
           /\ \A q \in Server : seq_num_leq(leader_state[p].follower_seq_nums[q], l2.follower_seq_nums[q])
  <2>1. /\ \A q \in Peers(p) : Same(q)
        /\ storage'[p] = s /\ state'[p] = << "Leader", "Accept" >> /\ leader_state'[p] = l2
        /\ follower_state'[p] = follower_state[p]
    BY <1>1, <1>2, OthersSame
  <2>2. \A k \in Ballot : (Leads(p, k)' => Leads(p, k)) /\ ~ Prepares(p, k)'
    BY <1>1, <1>2, <2>1 DEF Leads, Prepares
  <2>3. \A q \in Server : seq_num_leq(leader_state[p].follower_seq_nums[q], leader_state'[p].follower_seq_nums[q])
    BY <1>2, <2>1
  <2>4. Moves(p)
    BY <1>1, <2>1, <2>2, <2>3 DEF Moves
  <2> QED BY <2>1, <2>4 DEF Step, From, Establishes
<1>3. CASE /\ panicked' = panicked \cup {p}
           /\ Updates(p, s, state[p], leader_state[p], follower_state[p])
  <2>1. /\ \A q \in Peers(p) : Same(q)
        /\ storage'[p] = s /\ follower_state'[p] = follower_state[p]
    BY <1>1, <1>3, OthersSame
  <2>2. \A k \in Ballot : ~ Leads(p, k)' /\ ~ Prepares(p, k)'
    BY <1>3 DEF Leads, Prepares
  <2>3. Moves(p)
    BY <1>1, <2>1, <2>2 DEF Moves
  <2> QED BY <2>1, <2>3 DEF Step, From, Establishes
<1> QED BY <1>2, <1>3 DEF Begins

\* Its log is the log of the round.
LEMMA EstablishedLog ==
  ASSUME NEW h, From(h), NEW p \in Server, NEW n, NEW l, Elected(h, p, n, l), NEW log, NEW g,
         Establishes(h, g, p, n, l, log), NEW ents, NEW s, Adopts(h, p, l, ents, log, s), Step(p, h, g)
  PROVE  LogOK(g, p, s) /\ BatchOK(g, p, s)
<1>1. /\ s \in Storage /\ s.accepted_round = n /\ s.accepted_idx = Len(log)
      /\ s.accepted_idx = s.compacted_idx + Len(s.log) /\ Segment(log, s.compacted_idx, s.log)
      /\ s.stopsign = None /\ s.snapshot = None /\ s.batched_entries = << >>
      /\ s.decided_idx = get_max_decided_idx(l) /\ s.compacted_idx = storage[p].compacted_idx
  BY AdoptedLog
<1>2. PICK max, d : max = l.max_promise_meta /\ d = get_max_decided_idx(l)
  OBVIOUS
<1>3. /\ n \in Ballot /\ n.pid = p /\ l.n_leader = n /\ max.accepted_idx \in Nat
      /\ l \in LeaderStates /\ CountsOK(h, l) /\ MaxOK(h, storage[p], l)
  BY <1>2, ElectedFacts DEF Elected, PrepareOK
<1>4. h \in History /\ ChosenInv(h)
  BY FromFacts, ChosenFirst
<1>5. d \in Nat /\ d <= max.accepted_idx /\ DecidedIn(h, n, d)
  BY <1>2, <1>3, <1>4, DecidedIsAdopted
<1>6. DecidedIn(g, n, d)
  BY <1>3, <1>5, StepGrows
<1>7. /\ log \in Entries /\ Len(log) \in Nat /\ max.accepted_idx <= Len(log)
      /\ n \in g.est /\ g.rlog[n] = log /\ g.acc[p][n] = Len(log) /\ g.base[n] = Len(log)
  BY <1>2, LenProperties DEF Establishes, Continues, Entries
<1>8. d <= Len(log)
  BY <1>3, <1>5, <1>7
<1>9. LogOK(g, p, s)
  <2>1. s.decided_idx <= s.accepted_idx /\ DecidedIn(g, n, s.decided_idx)
    BY <1>1, <1>2, <1>6, <1>8
  <2>2. g.base[n] <= s.accepted_idx /\ g.acc[p][n] = s.accepted_idx
    <3>1. PICK k \in Nat : k = Len(log)
      BY <1>7
    <3>2. s.accepted_idx = k /\ g.base[n] = k /\ g.acc[p][n] = k
      BY <1>1, <1>7, <3>1
    <3> QED BY <3>2
  <2>3. Segment(g.rlog[n], s.compacted_idx, s.log)
    BY <1>1, <1>7
  <2>4. HeldByAll(g, s.compacted_idx)
    <3>1. LogOK(h, p, storage[p]) /\ storage[p] \in Storage
      BY FromFacts
    <3>2. HeldByAll(h, s.compacted_idx) /\ s.compacted_idx \in Nat
      BY <3>1, <1>1, StorageFields DEF LogOK
    <3> QED BY <3>2, StepGrows
  <2> QED BY <1>1, <1>7, <2>1, <2>2, <2>3, <2>4, Zenon DEF LogOK
<1>10. BatchOK(g, p, s)
  BY <1>1, <1>3, <1>7 DEF BatchOK
<1> QED BY <1>9, <1>10

\* The leader stored the log, and panicked.
LEMMA EstablishPanics ==
  ASSUME NEW h, From(h), NEW p \in Server, NEW q \in Peers(p), net[q][p] # << >>, NEW n, NEW l, Elected(h, p, n, l),
         NEW log, NEW ents, ents = buffered_proposals[p], NEW s, Adopts(h, p, l, ents, log, s),
         storage' = [storage EXCEPT ![p] = s], panicked' = panicked \cup {p}, net' = Consume(p, q),
         UNCHANGED << state, leader_state, follower_state, outgoing >>
  PROVE  \E g : Succeeds(h, g)
<1>1. s \in Storage /\ s.promise = n /\ s.accepted_round = n
  BY AdoptedLog
<1>2. PICK g : Establishes(h, g, p, n, l, log)
  BY AdoptedLog
<1>3. /\ TypeOK /\ Explains(h) /\ leader_state[p] \in LeaderStates /\ CountsOK(h, leader_state[p]) /\ FollowingOK(h, p)
      /\ n = storage[p].promise /\ n.pid = p
  BY FromFacts, ElectedFacts DEF Elected
<1>4. Begins(p, s, l)
  BY <1>3, Unchanged DEF Begins, Updates
<1>5. Step(p, h, g) /\ storage'[p] = s /\ follower_state'[p] = follower_state[p]
  BY <1>1, <1>2, <1>4, EstablishStep
<1>6. Accepts(p, h, g) /\ Founds(h, g)
  BY <1>1, <1>2, <1>5, EstablishFounds
<1>7. LogOK(g, p, s) /\ BatchOK(g, p, s)
  BY <1>2, <1>5, EstablishedLog
<1>8. outgoing' = [x \in Server |-> NoMessages]
  BY <1>3 DEF Explains
<1>9. PICK out : out = NoMessages /\ Delivers(p, out) /\ SendsOK(p, g, out)
  <2>1. \A y \in Server : NoMessages[y] = << >>
    BY DEF NoMessages
  <2>2. Fresh(p, g, NoMessages)
    BY <2>1 DEF Fresh, Peers
  <2>3. SendsOK(p, g, NoMessages) /\ \A y \in Peers(p) : NoMessages[y] \in Seq(Message)
    BY <2>2, SendsOne
  <2>4. Delivers(p, NoMessages)
    BY <1>3, <2>3, ConsumeDelivers
  <2> QED BY <2>3, <2>4
<1>10. ReceivesOK(p, g)
  BY <1>3, <1>5, <1>9, ReceivesKept
<1>11. KeptPromiseOK(g, p)'
  BY <1>5, KeptPromiseKept
<1>12. CountsOK(g, leader_state[p])'
  <2>1. PICK l0 \in LeaderStates : l0 = leader_state[p] /\ l0 = leader_state'[p] /\ CountsOK(h, l0)
    BY <1>3
  <2>2. CountsOK(g, l0)'
    BY <1>5, <2>1, CountsKept
  <2> QED BY <2>1, <2>2
<1>13. LeadingOK(g, p)'
  BY DEF LeadingOK, Elected
<1>14. FollowingOK(g, p)'
  BY <1>3, <1>5 DEF FollowingOK
<1> QED BY <1>5, <1>6, <1>7, <1>8, <1>9, <1>10, <1>11, <1>12, <1>13, <1>14, StepExplained

\* The leader stored the log, and synchronises everyone who promised.
LEMMA EstablishSyncs ==
  ASSUME NEW h, From(h), NEW p \in Server, NEW q \in Peers(p), net[q][p] # << >>, NEW n, NEW l, Elected(h, p, n, l),
         NEW log, NEW ents, ents = buffered_proposals[p], NEW s, Adopts(h, p, l, ents, log, s),
         NEW l1, CountsAs(l, l1, p, s.accepted_idx), NEW Q, Q = get_promised_followers(l) \cap Server,
         NEW l2, Resyncs(l1, l2, Q), \A r \in Q : ~ send_accsync_panics(s, l2, r),
         storage' = [storage EXCEPT ![p] = s], state' = [state EXCEPT ![p] = << "Leader", "Accept" >>],
         leader_state' = [leader_state EXCEPT ![p] = l2],
         Handled(p, q, push(outgoing[p], [r \in Q |-> accsync_message(s, l2, r)])),
         UNCHANGED << follower_state, panicked >>
  PROVE  \E g : Succeeds(h, g)
<1>1. /\ s \in Storage /\ s.promise = n /\ s.accepted_round = n /\ s.accepted_idx = Len(log)
  BY AdoptedLog
<1>2. PICK g : Establishes(h, g, p, n, l, log)
  BY AdoptedLog
<1>3. /\ TypeOK /\ Explains(h) /\ FollowingOK(h, p) /\ outgoing[p] = NoMessages
      /\ n = storage[p].promise /\ n.pid = p /\ n \in Ballot /\ l.n_leader = n
      /\ l \in LeaderStates /\ CountsOK(h, l) /\ l.follower_seq_nums = leader_state[p].follower_seq_nums
  BY FromFacts, ElectedFacts DEF Elected
<1>4. /\ l1 \in LeaderStates /\ l1.n_leader = n /\ l1.promises_meta = l.promises_meta
      /\ l1.max_promise_meta = l.max_promise_meta /\ l1.follower_seq_nums = leader_state[p].follower_seq_nums
  BY <1>3 DEF CountsAs
<1>5. /\ l2 \in LeaderStates /\ l2.n_leader = n /\ l2.promises_meta = l.promises_meta
      /\ l2.max_promise_meta = l.max_promise_meta /\ l2.latest_accept_meta = l1.latest_accept_meta
      /\ l2.accepted_indexes = l1.accepted_indexes
  BY <1>4 DEF Resyncs
<1>6. \A y \in Server : seq_num_leq(leader_state[p].follower_seq_nums[y], l2.follower_seq_nums[y])
  BY <1>4, ResyncSeqNums
<1>7. Begins(p, s, l2)
  BY <1>3, <1>6, Unchanged DEF Begins, Updates
<1>8. Step(p, h, g) /\ storage'[p] = s /\ follower_state'[p] = follower_state[p]
  BY <1>1, <1>2, <1>7, EstablishStep
<1>9. leader_state'[p] = l2 /\ state'[p] = << "Leader", "Accept" >>
  BY <1>3 DEF TypeOK
<1>10. Accepts(p, h, g) /\ Founds(h, g)
  BY <1>1, <1>2, <1>8, EstablishFounds
<1>11. LogOK(g, p, s) /\ BatchOK(g, p, s)
  BY <1>2, <1>8, EstablishedLog
<1>12. /\ log \in Entries /\ Len(log) \in Nat /\ g \in History /\ g.est = h.est \cup {n} /\ n \in g.est /\ g.rlog[n] = log
       /\ g.acc[p][n] = Len(log) /\ g.base[n] = Len(log) /\ g.start[n] = Onwards(h, n, leader_state[p], Len(log))
  BY <1>2, LenProperties DEF Establishes, Continues, Entries
<1>13. MaxAgrees(g, n, l2.max_promise_meta)
  <2>1. PICK max : /\ max = l.max_promise_meta /\ max \in PromiseMetaData /\ max.n_accepted \in Ballot
                   /\ max.n_accepted \prec n /\ max.n_accepted # n
    BY ElectedFacts
  <2>2. /\ max.accepted_idx <= Len(log) /\ Agree(h.rlog[max.n_accepted], log, max.accepted_idx)
        /\ g.rlog[max.n_accepted] = h.rlog[max.n_accepted]
    BY <1>2, <2>1 DEF Establishes, Continues
  <2> QED BY <1>5, <1>12, <2>1, <2>2 DEF MaxAgrees
<1>14. Syncs(p, g, n, s, l2)
  <2>1. VoteInv(g)' /\ ChoiceInv(g)'
    BY <1>8, <1>10, RoundsKept
  <2>2. ChosenInv(g)
    BY <2>1, ChosenFirst
  <2>3. AccBounded(g)
    BY <2>1 DEF VoteInv, AccBounded
  <2> QED BY <1>1, <1>3, <1>5, <1>11, <1>12, <1>13, <2>2, <2>3 DEF Syncs
<1>15. \A y \in Q : y \in Server /\ y # p /\ y \in Slots /\ is_promised(l, y)
  BY <1>3 DEF get_promised_followers
<1>16. \A y \in Q : g.start[n][y][next_seq_num(l2.follower_seq_nums[y])] = Len(g.rlog[n])
  <2> SUFFICES ASSUME NEW y \in Q PROVE g.start[n][y][next_seq_num(l2.follower_seq_nums[y])] = Len(g.rlog[n])
    OBVIOUS
  <2>1. PICK sn : sn = next_seq_num(l2.follower_seq_nums[y]) /\ sn \in SequenceNumber
                  /\ ~ seq_num_leq(sn, next_seq_num(leader_state[p].follower_seq_nums[y]))
    BY <1>4, <1>15, ResyncSeqNums
  <2> QED BY <1>12, <1>15, <2>1 DEF Onwards
<1>17. ASSUME NEW y \in Q
       PROVE  accsync_message(s, l2, y) \in Message /\ FreshOK(p, g, y, accsync_message(s, l2, y))
  <2>1. PICK meta, m : meta = l2.promises_meta[y].meta /\ m = accsync_message(s, l2, y)
    OBVIOUS
  <2>2. y \in Peers(p) /\ y \in Slots /\ is_promised(l, y)
    BY <1>15 DEF Peers
  <2>3. meta \in PromiseMetaData /\ MetaOK(h, y, n, meta)
    BY <1>3, <1>5, <1>15, <2>1, <2>2, LeaderFields DEF CountsOK
  <2>4. MetaOK(g, y, n, meta)'
    BY <1>3, <1>8, <1>15, <2>3, MetaKept
  <2>5. leader_state'[p].follower_seq_nums = l2.follower_seq_nums
    BY <1>9
  <2>6. ~ send_accsync_panics(s, l2, y)
    OBVIOUS
  <2>7. g.start[n][y][next_seq_num(l2.follower_seq_nums[y])] = Len(g.rlog[n])
    BY <1>16
  <2>8. m \in Message /\ FreshOK(p, g, y, m)
    BY <1>8, <1>14, <2>1, <2>2, <2>4, <2>5, <2>6, <2>7, AccSyncFresh
  <2> QED BY <2>1, <2>8
<1>18. PICK out : out = push(outgoing[p], [r \in Q |-> accsync_message(s, l2, r)]) /\ Fresh(p, g, out) /\ Ended(p, out)
  <2>1. PICK msgs : msgs = [r \in Q |-> accsync_message(s, l2, r)]
    OBVIOUS
  <2>2. \A y \in Server : push(NoMessages, msgs)[y] = IF y \in DOMAIN msgs THEN << msgs[y] >> ELSE << >>
    BY <1>3, NothingWaits, SMTT(30)
  <2>3. Fresh(p, g, push(NoMessages, msgs))
    BY <1>17, <2>1, <2>2 DEF Fresh, Peers
  <2> QED BY <1>3, <2>1, <2>3 DEF Ended, Handled
<1>19. Delivers(p, out) /\ SendsOK(p, g, out) /\ outgoing' = [x \in Server |-> NoMessages]
  BY <1>18, CallEnds
<1>20. ReceivesOK(p, g)
  BY <1>3, <1>8, <1>19, ReceivesKept
<1>21. KeptPromiseOK(g, p)'
  BY <1>8, KeptPromiseKept
<1>22. CountsOK(g, l2)'
  <2>1. CountsOK(g, l)'
    BY <1>3, <1>8, CountsKept
  <2>2. \A x \in Slots : /\ l2.latest_accept_meta[x] = 0
                         /\ l2.accepted_indexes[x] = IF x = p THEN s.accepted_idx ELSE l.accepted_indexes[x]
    BY <1>5 DEF CountsAs
  <2>3. s.accepted_idx <= g.acc[p][n]
    BY <1>1, <1>12
  <2> QED BY <1>3, <1>5, <2>1, <2>2, <2>3 DEF CountsOK, is_promised
<1>23. LeaderOK(g, p, s, l2)
  BY <1>1, <1>3, <1>5, <1>12 DEF LeaderOK
<1>24. AcceptOK(g, p, s, l2)
  <2>1. \A y \in Peers(p) : is_promised(l2, y) => y \in Q
    BY <1>3, <1>5, ServersHaveSlots DEF is_promised, Peers, get_promised_followers
  <2>2. \A y \in Peers(p) : is_promised(l2, y) =>
          g.start[n][y][next_seq_num(l2.follower_seq_nums[y])] = s.accepted_idx
    BY <1>1, <1>12, <1>16, <2>1
  <2> QED BY <1>1, <1>5, <1>13, <2>2 DEF AcceptOK, MaxAgrees
<1>25. LeadingOK(g, p)'
  BY <1>8, <1>9, <1>23, <1>24 DEF LeadingOK
<1>26. FollowingOK(g, p)'
  BY <1>3, <1>8, <1>9 DEF FollowingOK
<1> QED BY <1>8, <1>9, <1>10, <1>11, <1>19, <1>20, <1>21, <1>22, <1>25, <1>26, StepExplained

\* append_entries_without_batching, when nothing is batched.
LEMMA DirectAppends ==
  ASSUME NEW s \in Storage, NEW ents \in Entries, s.batched_entries = << >>,
         NEW t, t = append_entries_without_batching(s, ents)
  PROVE  Appended(s, t, ents)
<1>1. PICK log, idx : log = s.log \o ents /\ idx = s.accepted_idx + Len(ents)
  OBVIOUS
<1>2. s.log \in Entries /\ s.accepted_idx \in Nat /\ Len(ents) \in Nat
  BY StorageFields, LenProperties DEF Entries
<1>3. log \in Entries /\ idx \in Nat
  BY <1>1, <1>2, ConcatProperties DEF Entries
<1>4. t = [s EXCEPT !.log = log, !.accepted_idx = idx]
  BY <1>1 DEF append_entries_without_batching, Storage
<1>5. t \in Storage
  BY <1>3, <1>4 DEF Storage
<1>6. /\ t.promise = s.promise /\ t.accepted_round = s.accepted_round /\ t.decided_idx = s.decided_idx
      /\ t.compacted_idx = s.compacted_idx /\ t.snapshot = s.snapshot /\ t.stopsign = s.stopsign
      /\ t.log = log /\ t.accepted_idx = idx /\ t.batched_entries = s.batched_entries
  BY <1>4 DEF Storage
<1> QED BY <1>1, <1>5, <1>6 DEF Appended

\* What the largest promise brought is not needed any more.
LEMMA CountsAsWithoutSync ==
  ASSUME NEW l \in LeaderStates, NEW m, NEW q, NEW idx, CountsAs(l, m, q, idx),
         NEW k, k = [m EXCEPT !.max_promise_sync = None]
  PROVE  CountsAs(l, k, q, idx)
<1>1. /\ k \in LeaderStates /\ k.n_leader = m.n_leader
      /\ k.follower_seq_nums = m.follower_seq_nums /\ k.promises_meta = m.promises_meta
      /\ k.max_promise_meta = m.max_promise_meta /\ k.accepted_indexes = m.accepted_indexes
      /\ k.latest_accept_meta = m.latest_accept_meta
  BY DEF CountsAs, LeaderStates
<1>2. get_promised_followers(k) = get_promised_followers(m)
  BY <1>1, Zenon DEF get_promised_followers, is_promised
<1>3. \A r \in Slots : \A out : has_latest_accdec(k, out, r) = has_latest_accdec(m, out, r)
  BY <1>1, Zenon DEF has_latest_accdec
<1>4. \A r \in Slots : \A out : ~ has_latest_accdec(k, out, r)
  BY <1>3 DEF CountsAs
<1> QED BY <1>1, <1>2, <1>4 DEF CountsAs

\* handle_majority_promises.
LEMMA MajorityExplained ==
  ASSUME NEW h, From(h), NEW p \in Server, NEW q \in Peers(p), net[q][p] # << >>, NEW n, NEW l, Elected(h, p, n, l),
         handle_majority_promises(p, q, l)
  PROVE  \E g : Succeeds(h, g)
<1> DEFINE bp == buffered_proposals[p]
           d == get_max_decided_idx(l)
           sync == l.max_promise_sync
           s1 == sync_log(storage[p], l.n_leader, d, sync)
           stopped == accepted_reconfiguration(s1)
           s2 == IF stopped THEN s1 ELSE append_entries_without_batching(s1, bp)
           s3 == IF stopped \/ buffered_stopsign[p] = None
                   THEN s2 ELSE append_stopsign(s2, buffered_stopsign[p])
           Q == get_promised_followers(l) \cap Server
           l1 == set_accepted_idx(l, p, s3.accepted_idx)
           l2 == [l1 EXCEPT !.max_promise_sync = None]
           l3 == accsync_leader_state(l2, Q)
           sync_panics == sync_log_panics(storage[p], d, sync)
<1>1. /\ storage' = IF sync_panics THEN storage ELSE [storage EXCEPT ![p] = s3]
      /\ IF sync_panics \/ \E r \in Q : send_accsync_panics(s3, l3, r)
           THEN Panic(p, q)
           ELSE /\ state' = [state EXCEPT ![p] = << "Leader", "Accept" >>]
                /\ leader_state' = [leader_state EXCEPT ![p] = l3]
                /\ buffered_proposals' =
                     IF stopped THEN buffered_proposals ELSE [buffered_proposals EXCEPT ![p] = << >>]
                /\ buffered_stopsign' =
                     IF stopped THEN buffered_stopsign ELSE [buffered_stopsign EXCEPT ![p] = None]
                /\ Handled(p, q, push(outgoing[p], [r \in Q |-> accsync_message(s3, l3, r)]))
                /\ UNCHANGED << follower_state, panicked >>
  BY Zenon DEF handle_majority_promises
<1>2. CASE sync_panics
  <2>1. Succeeds(h, h)
    BY <1>1, <1>2, ConsumeExplained DEF Panic
  <2> QED BY <2>1
<1>3. CASE ~ sync_panics
  <2>1. /\ TypeOK /\ Plain /\ h \in History /\ storage[p] \in Storage /\ LogOK(h, p, storage[p])
        /\ \A r \in Slots : l.latest_accept_meta[r] = 0
        /\ l \in LeaderStates /\ CountsOK(h, l) /\ MaxOK(h, storage[p], l) /\ storage[p].batched_entries = << >>
        /\ p \in Slots /\ l.n_leader \in Ballot
    BY FromFacts, ElectedFacts, ServersHaveSlots DEF Elected, PrepareOK, CountsOK
  <2>2. d \in Nat
    BY <2>1, MaxDecidedIdxType
  <2>3. PICK max, b : max = l.max_promise_meta /\ b = SubSeq(h.rlog[max.n_accepted], 1, max.accepted_idx)
    OBVIOUS
  <2>4. Synced(h.rlog[max.n_accepted], storage[p], s1, l.n_leader, d, max.accepted_idx)
    BY <1>3, <2>1, <2>2, <2>3, AdoptedStorage
  <2>5. s1 \in Storage /\ s1.stopsign = None /\ s1.batched_entries = << >>
    BY <2>1, <2>4 DEF Synced
  <2>6. bp = buffered_proposals[p] /\ bp \in Entries /\ buffered_stopsign[p] = None
    BY <2>1 DEF TypeOK, Plain
  <2>7. ~ stopped
    BY <2>5 DEF accepted_reconfiguration
  <2>8. s3 = append_entries_without_batching(s1, bp)
    BY <2>6, <2>7
  <2> HIDE DEF s1, stopped, s2, sync, sync_panics, bp
  <2> HIDE DEF s3
  <2>9. Appended(s1, s3, bp)
    BY <2>5, <2>6, <2>8, DirectAppends
  <2> HIDE DEF d
  <2>10. PICK log : log = b \o bp
    OBVIOUS
  <2>11. Adopts(h, p, l, bp, log, s3)
    BY <2>3, <2>4, <2>6, <2>9, <2>10 DEF Adopts, d
  <2>12. s3 \in Storage /\ s3.accepted_idx \in Nat
    BY <2>9, StorageFields DEF Appended
  <2>13. CountsAs(l, l1, p, s3.accepted_idx)
    BY <2>1, <2>12, CountsAsFields
  <2> HIDE DEF l1
  <2>14. CountsAs(l, l2, p, s3.accepted_idx)
    BY <2>1, <2>13, CountsAsWithoutSync
  <2> HIDE DEF l2
  <2>15. Resyncs(l2, l3, Q)
    BY <2>14, ResyncFields DEF CountsAs
  <2> HIDE DEF l3
  <2>16. storage' = [storage EXCEPT ![p] = s3]
    BY <1>1, <1>3
  <2>17. Q = get_promised_followers(l) \cap Server
    OBVIOUS
  <2> HIDE DEF Q
  <2>18. CASE \E r \in Q : send_accsync_panics(s3, l3, r)
    <3>1. Panic(p, q)
      BY <1>1, <2>18
    <3> QED BY <2>6, <2>11, <2>16, <3>1, EstablishPanics DEF Panic
  <2>19. CASE ~ \E r \in Q : send_accsync_panics(s3, l3, r)
    <3>1. /\ state' = [state EXCEPT ![p] = << "Leader", "Accept" >>]
          /\ leader_state' = [leader_state EXCEPT ![p] = l3]
          /\ Handled(p, q, push(outgoing[p], [r \in Q |-> accsync_message(s3, l3, r)]))
          /\ UNCHANGED << follower_state, panicked >>
      BY <1>1, <1>3, <2>19
    <3>2. \A r \in Q : ~ send_accsync_panics(s3, l3, r)
      BY <2>19
    <3> QED BY <2>6, <2>11, <2>14, <2>15, <2>16, <2>17, <3>1, <3>2, EstablishSyncs
  <2> QED BY <2>18, <2>19
<1> QED BY <1>2, <1>3

\* handle_promise_prepare.
LEMMA PromisePrepareExplained ==
  ASSUME NEW p \in Server, NEW q \in Peers(p), NEW h, From(h), handle_promise_prepare(p, q)
  PROVE  \E g : Succeeds(h, g)
<1> DEFINE a == Head(net[q][p])
           l == set_promise(leader_state[p], q, PromiseMeta(a), a.log_sync, TRUE)
<1>1. /\ Incoming(p, q, "Promise") /\ state[p] = << "Leader", "Prepare" >> /\ counts_promise(p, a)
      /\ \/ /\ has_prepare_quorum(l)
            /\ handle_majority_promises(p, q, l)
         \/ /\ ~ has_prepare_quorum(l)
            /\ leader_state' = [leader_state EXCEPT ![p] = l]
            /\ Handled(p, q, outgoing[p])
            /\ UNCHANGED << storage, state, follower_state, buffered_proposals, buffered_stopsign, panicked >>
  BY Zenon DEF handle_promise_prepare
<1>2. /\ TypeOK /\ Inv /\ Explains(h)
  BY FromFacts
<1>3. a = Head(net[q][p])
  BY Zenon
<1>4. net[q][p] # << >> /\ p \notin panicked
  BY <1>1 DEF Incoming
<1>5. CASE has_prepare_quorum(l) /\ handle_majority_promises(p, q, l)
  <2>1. /\ PromiseMeta(a) \in PromiseMetaData /\ a.log_sync \in LogSync \cup {None} /\ CountsOK(h, leader_state[p])
        /\ a \in PromiseMessage /\ a.n = leader_state[p].n_leader /\ PromiseOK(h, q, p, a)
        /\ q \in Slots /\ q \in Server /\ leader_state[p] \in LeaderStates
        /\ MetaOK(h, q, leader_state[p].n_leader, PromiseMeta(a))
    BY <1>1, <1>2, PromiseArrives DEF PromiseOK
  <2>2. Records(leader_state[p], l, q, PromiseMeta(a), a.log_sync, TRUE)
    BY <2>1, RecordsFields, Zenon
  <2> HIDE DEF a, l
  <2>3. CountsOK(h, l)
    BY <2>1, <2>2, RecordsCounts, Zenon
  <2>4. PrepareOK(h, p, storage[p], leader_state[p])
    BY <1>1, <1>2, <1>4, LeaderRound
  <2>5. PICK l0 : l0 = leader_state[p]
    OBVIOUS
  <2>6. PrepareOK(h, p, storage[p], l)
    BY <1>1, <1>2, <1>4, <2>1, <2>2, <2>4, <2>5, RecordsPrepare, Zenon
  <2>7. l \in LeaderStates /\ l.follower_seq_nums = leader_state[p].follower_seq_nums
    BY <2>2, Zenon DEF Records
  <2>8. PICK n : n = storage[p].promise
    OBVIOUS
  <2>9. Elected(h, p, n, l)
    BY <1>1, <1>4, <1>5, <2>3, <2>6, <2>7, <2>8 DEF Elected
  <2> QED BY <1>4, <1>5, <2>9, MajorityExplained
<1>6. CASE /\ leader_state' = [leader_state EXCEPT ![p] = l]
           /\ Handled(p, q, outgoing[p])
           /\ UNCHANGED << storage, state, follower_state, buffered_proposals, buffered_stopsign, panicked >>
  <2>1. PICK l0 : l0 = leader_state[p]
    OBVIOUS
  <2>2. l = set_promise(l0, q, PromiseMeta(a), a.log_sync, TRUE)
    BY <2>1, Zenon
  <2> HIDE DEF a, l
  <2>3. Succeeds(h, h)
    BY <1>1, <1>3, <1>6, <2>1, <2>2, PromiseCountedExplained, Zenon
  <2> QED BY <2>3
<1> QED BY <1>1, <1>5, <1>6

------------------------------------------------------------------------------
(* A new promise *)

\* The default ballot is no round.
LEMMA DefaultNeverEstablished ==
  ASSUME NEW h, RoundInv(h)
  PROVE  DefaultBallot \notin h.est
<1>1. DefaultBallot \in Ballot /\ DefaultBallot.pid = 0
  BY DefaultBallotType DEF DefaultBallot
<1>2. 0 \notin Server
  BY ServerAssumption
<1> QED BY <1>1, <1>2 DEF RoundInv, RoundOK

\* p writes its batch and has the storage s, and the history goes on with that.
Flushes(p, h, g, s) ==
  /\ Grows(p, h, g) /\ g.est = h.est
  /\ g.acc[p][storage[p].promise] <= Len(g.rlog[storage[p].promise])
  /\ g.acc[p][storage[p].promise] # h.acc[p][storage[p].promise] => s.accepted_round = storage[p].promise
  /\ g.rlog[storage[p].promise] # h.rlog[storage[p].promise] =>
       s.accepted_round = storage[p].promise /\ storage[p].accepted_round = storage[p].promise
  /\ LogOK(g, p, s) /\ BatchOK(g, p, s)

\* An empty batch.
LEMMA NothingFlushed ==
  ASSUME NEW h, From(h), NEW p \in Server, NEW s, Appended(storage[p], s, << >>)
  PROVE  Flushes(p, h, h, s)
<1>1. PICK t, r : t = storage[p] /\ r = storage[p].accepted_round
  OBVIOUS
<1>2. /\ TypeOK /\ Explains(h) /\ h \in History /\ t \in Storage /\ t.promise \in Ballot /\ VoteInv(h)
      /\ LogOK(h, p, t) /\ BatchOK(h, p, t)
  BY <1>1, FromFacts
<1>3. /\ r \in Ballot /\ h.rlog[r] \in Entries /\ Len(h.rlog[r]) \in Nat /\ t.accepted_idx \in Nat
      /\ t.compacted_idx \in Nat /\ Len(t.log) \in Nat /\ t.log \in Entries /\ t.decided_idx \in Nat
      /\ t.accepted_round = r
  BY <1>1, <1>2, StorageFields, HistoryFields
<1>4. PICK e : e = << >> /\ e \in Entries /\ Len(e) = 0
  <2>1. << >> \in Entries /\ Len(<< >>) = 0
    BY DEF Entries
  <2> QED BY <2>1
<1>5. /\ s.accepted_round = r /\ s.decided_idx = t.decided_idx
      /\ s.snapshot = t.snapshot /\ s.stopsign = t.stopsign /\ s.batched_entries = << >>
      /\ s.accepted_idx = t.accepted_idx + Len(e) /\ s.compacted_idx = t.compacted_idx
  BY <1>1, <1>4 DEF Appended
<1>6. s.accepted_idx = t.accepted_idx
  BY <1>3, <1>4, <1>5
<1>7. /\ t.accepted_idx = t.compacted_idx + Len(t.log) /\ Segment(h.rlog[r], t.compacted_idx, t.log)
  BY <1>2, <1>3 DEF LogOK
<1>8. t.accepted_idx <= Len(h.rlog[r])
  BY <1>3, <1>7 DEF Segment
<1>9. Segment(h.rlog[r], t.accepted_idx, e)
  BY <1>3, <1>4, <1>8 DEF Segment
<1>10. s.accepted_idx = s.compacted_idx + Len(s.log) /\ Segment(h.rlog[r], s.compacted_idx, s.log)
  BY <1>1, <1>2, <1>3, <1>4, <1>7, <1>9, AppendedSegment
<1>11. LogOK(h, p, s)
  BY <1>2, <1>3, <1>5, <1>6, <1>10 DEF LogOK
<1>12. BatchOK(h, p, s)
  BY <1>2, <1>3, <1>4, <1>5, <1>6, <1>9 DEF BatchOK
<1>13. Grows(p, h, h) /\ h.acc[p][t.promise] <= Len(h.rlog[t.promise])
  BY <1>2, HistoryStays DEF VoteInv
<1> QED BY <1>1, <1>11, <1>12, <1>13 DEF Flushes

\* A batch is of the round that was promised.
LEMMA BatchedRound ==
  ASSUME NEW h, From(h), NEW p \in Server, storage[p].batched_entries # << >>, NEW n, n = storage[p].promise
  PROVE  n \in Ballot /\ n \in h.est /\ storage[p].accepted_round = n
<1>1. PICK s, r, b : s = storage[p] /\ r = s.accepted_round /\ b = s.batched_entries
  OBVIOUS
<1>2. h \in History /\ s \in Storage /\ RoundInv(h) /\ LogOK(h, p, s) /\ BatchOK(h, p, s)
  BY <1>1, FromFacts
<1>3. /\ r \in Ballot /\ r = n /\ b \in Entries /\ Len(b) \in Nat /\ Len(b) # 0 /\ s.accepted_idx \in Nat
  <2>1. b \in Entries /\ r \in Ballot /\ s.accepted_idx \in Nat
    BY <1>1, <1>2, StorageFields
  <2>2. Len(b) \in Nat /\ Len(b) # 0
    BY <1>1, <2>1, LenProperties, EmptySeq DEF Entries
  <2> QED BY <1>1, <1>2, <2>1, <2>2 DEF BatchOK
<1>4. CASE r = DefaultBallot
  <2>1. r.pid = 0 /\ r.pid # p
    BY <1>4, ServerAssumption DEF DefaultBallot
  <2>2. h.rlog[r] = << >>
    BY <1>2, <1>3, <1>4, DefaultNeverEstablished DEF RoundInv, Unused
  <2>3. s.accepted_idx + Len(b) <= 0
    BY <1>1, <1>2, <2>1, <2>2 DEF BatchOK, Segment
  <2> QED BY <1>3, <2>3
<1> QED BY <1>1, <1>2, <1>3, <1>4 DEF LogOK

\* A batch that is not empty: a leader's goes behind the log of its round.
LEMMA BatchFlushed ==
  ASSUME NEW h, From(h), NEW p \in Server, NEW b, b = storage[p].batched_entries, b # << >>,
         NEW s, Appended(storage[p], s, b)
  PROVE  \E g : Flushes(p, h, g, s)
<1>1. PICK t, n : t = storage[p] /\ n = storage[p].promise
  OBVIOUS
<1>2. /\ TypeOK /\ h \in History /\ t \in Storage /\ LogOK(h, p, t) /\ BatchOK(h, p, t)
  BY <1>1, FromFacts
<1>3. n \in Ballot /\ n \in h.est /\ t.accepted_round = n
  BY <1>1, BatchedRound
<1>4. /\ h.rlog[n] \in Entries /\ Len(h.rlog[n]) \in Nat /\ t.accepted_idx \in Nat /\ b \in Entries /\ Len(b) \in Nat
      /\ t.compacted_idx \in Nat /\ t.log \in Entries /\ Len(t.log) \in Nat /\ t.decided_idx \in Nat /\ h.base[n] \in Nat
  BY <1>1, <1>2, <1>3, StorageFields, HistoryFields
<1>5. /\ t.accepted_idx = t.compacted_idx + Len(t.log) /\ Segment(h.rlog[n], t.compacted_idx, t.log)
      /\ h.acc[p][n] = t.accepted_idx /\ h.base[n] <= t.accepted_idx
      /\ t.snapshot = None /\ t.stopsign = None /\ t.decided_idx <= t.accepted_idx /\ DecidedIn(h, n, t.decided_idx)
  BY <1>2, <1>3 DEF LogOK
<1>6. PICK log \in Entries : /\ Extends(h.rlog[n], log) /\ Segment(log, t.accepted_idx, b)
                             /\ n.pid # p => log = h.rlog[n]
                             /\ n.pid = p => Len(log) = t.accepted_idx + Len(b)
  <2>1. CASE n.pid = p
    <3>1. Len(h.rlog[n]) = t.accepted_idx
      BY <1>2, <1>3, <2>1 DEF BatchOK
    <3>2. PICK a : a = h.rlog[n]
      OBVIOUS
    <3>3. /\ a \o b \in Entries /\ Len(a \o b) = Len(a) + Len(b) /\ Extends(a, a \o b) /\ Segment(a \o b, Len(a), b)
      BY <1>4, <3>2, AppendExtends
    <3> QED BY <2>1, <3>1, <3>2, <3>3
  <2>2. CASE n.pid # p
    <3>1. Segment(h.rlog[n], t.accepted_idx, b)
      BY <1>1, <1>2, <1>3, <2>2 DEF BatchOK
    <3> QED BY <1>4, <2>2, <3>1, ExtendsSelf
  <2> QED BY <2>1, <2>2
<1>7. PICK idx \in Nat : idx = t.accepted_idx + Len(b)
  BY <1>4
<1>8. Len(log) \in Nat /\ idx <= Len(log)
  BY <1>4, <1>6, <1>7, LenProperties DEF Segment, Entries
<1>9. PICK E, base, f : E = h.est /\ base = h.base[n] /\ f = h.start[n]
  OBVIOUS
<1>10. E \in SUBSET Ballot /\ base \in Nat /\ f \in [Server -> [SequenceNumber -> Nat]]
  BY <1>2, <1>3, <1>9 DEF History
<1>11. PICK g : Continues(h, g, p, n, log, idx, E, base, f)
  BY <1>2, <1>3, <1>10, ContinueFields
<1>12. Grows(p, h, g)
  <2>1. h.acc[p][n] <= idx
    BY <1>4, <1>5, <1>7
  <2>2. h.est \subseteq E /\ E \subseteq h.est \cup {n} /\ n \in E
    BY <1>3, <1>9
  <2> QED BY <1>1, <1>2, <1>6, <1>9, <1>11, <2>1, <2>2, GoesOn
<1>13. g.est = h.est /\ g.rlog[n] = log /\ g.acc[p][n] = idx /\ g.base[n] = h.base[n]
  BY <1>9, <1>11 DEF Continues
<1>14. /\ s.accepted_round = n /\ s.decided_idx = t.decided_idx
       /\ s.snapshot = None /\ s.stopsign = None /\ s.batched_entries = << >>
       /\ s.accepted_idx = idx
  BY <1>1, <1>3, <1>5, <1>7 DEF Appended
<1>15. Segment(log, t.compacted_idx, t.log)
  BY <1>4, <1>5, <1>6, SegmentExtends
<1>16. s.accepted_idx = s.compacted_idx + Len(s.log) /\ Segment(log, s.compacted_idx, s.log)
  BY <1>1, <1>2, <1>4, <1>5, <1>6, <1>15, AppendedSegment
<1>17. DecidedIn(g, n, s.decided_idx)
  BY <1>2, <1>3, <1>4, <1>5, <1>12, <1>14, ChosenGrows
<1>18. h.base[n] <= idx /\ t.decided_idx <= idx
  BY <1>4, <1>5, <1>7
<1>19. LogOK(g, p, s)
  <2>1. s.compacted_idx = t.compacted_idx
    BY <1>1 DEF Appended
  <2>2. HeldByAll(h, t.compacted_idx)
    BY <1>2 DEF LogOK
  <2>3. HeldByAll(g, s.compacted_idx)
    BY <1>2, <1>4, <1>12, <2>1, <2>2, HeldGrows
  <2> QED BY <1>3, <1>13, <1>14, <1>16, <1>17, <1>18, <2>3 DEF LogOK
<1>20. BatchOK(g, p, s)
  <2>1. n.pid = p => Len(log) = s.accepted_idx
    BY <1>6, <1>7, <1>14
  <2>2. PICK e : e = << >> /\ Len(e) = 0
    OBVIOUS
  <2>3. Segment(log, s.accepted_idx, e)
    BY <1>7, <1>8, <1>14, <2>2 DEF Segment
  <2> QED BY <1>13, <1>14, <2>1, <2>2, <2>3 DEF BatchOK
<1>21. g.acc[p][n] <= Len(g.rlog[n])
  BY <1>8, <1>13
<1> QED BY <1>1, <1>3, <1>12, <1>13, <1>14, <1>19, <1>20, <1>21 DEF Flushes

\* flush_batch at any server.
LEMMA FlushGoesOn ==
  ASSUME NEW h, From(h), NEW p \in Server, NEW s, s = flush_batch(storage[p])
  PROVE  (\E g : Flushes(p, h, g, s)) /\ Appended(storage[p], s, storage[p].batched_entries)
<1>1. PICK t, b : t = storage[p] /\ b = t.batched_entries
  OBVIOUS
<1>2. t \in Storage
  BY <1>1, FromFacts
<1>3. Appended(t, s, b)
  BY <1>1, <1>2, FlushAppends
<1>4. CASE b = << >>
  BY <1>1, <1>3, <1>4, NothingFlushed
<1>5. CASE b # << >>
  BY <1>1, <1>3, <1>5, BatchFlushed
<1> QED BY <1>1, <1>3, <1>4, <1>5

\* What p stores when it promises round k.
Promises(p, k, u) == u = [flush_batch(storage[p]) EXCEPT !.promise = k]

\* The history goes on with the batch.
LEMMA NewPromise ==
  ASSUME NEW h, From(h), NEW p \in Server, NEW k \in Ballot, NEW u, Promises(p, k, u)
  PROVE  /\ u \in Storage /\ u.promise = k /\ u.accepted_round = storage[p].accepted_round
         /\ u.batched_entries = << >> /\ u.decided_idx = storage[p].decided_idx
         /\ u.accepted_idx = storage[p].accepted_idx + Len(storage[p].batched_entries)
         /\ \E g : Flushes(p, h, g, u)
<1>1. PICK s : s = flush_batch(storage[p])
  OBVIOUS
<1>2. (\E g : Flushes(p, h, g, s)) /\ Appended(storage[p], s, storage[p].batched_entries)
  BY <1>1, FlushGoesOn
<1>3. /\ s \in Storage /\ s.accepted_round = storage[p].accepted_round /\ s.batched_entries = << >>
      /\ s.decided_idx = storage[p].decided_idx
      /\ s.accepted_idx = storage[p].accepted_idx + Len(storage[p].batched_entries)
  BY <1>2 DEF Appended
<1>4. u = [s EXCEPT !.promise = k]
  BY <1>1 DEF Promises
<1>5. /\ u \in Storage /\ u.promise = k /\ u.accepted_round = s.accepted_round
      /\ u.batched_entries = s.batched_entries /\ u.accepted_idx = s.accepted_idx
      /\ u.decided_idx = s.decided_idx /\ u.log = s.log /\ u.compacted_idx = s.compacted_idx
      /\ u.snapshot = s.snapshot /\ u.stopsign = s.stopsign
  BY <1>3, <1>4 DEF Storage
<1>6. PICK g : Flushes(p, h, g, s)
  BY <1>2
<1>7. LogOK(g, p, u)
  BY <1>5, <1>6 DEF LogOK, Flushes
<1>8. BatchOK(g, p, u)
  <2>1. BatchOK(g, p, s)
    BY <1>6 DEF Flushes
  <2> QED BY <1>3, <1>5, <2>1 DEF BatchOK
<1>9. Flushes(p, h, g, u)
  BY <1>5, <1>6, <1>7, <1>8 DEF Flushes
<1> QED BY <1>3, <1>5, <1>9

\* That is as the rounds allow.
LEMMA FlushAccepts ==
  ASSUME NEW h, NEW p \in Server, NEW g, NEW u, Flushes(p, h, g, u), storage'[p] = u
  PROVE  Accepts(p, h, g) /\ Founds(h, g)
BY DEF Flushes, Accepts, Written, Founds

\* The metadata that p tells of its storage.
LEMMA OwnMetaOK ==
  ASSUME NEW p \in Server, NEW h, NEW g, Step(p, h, g), Accepts(p, h, g), Founds(h, g),
         NEW u \in Storage, storage'[p] = u, LogOK(g, p, u), NEW meta, meta = Meta(u)
  PROVE  MetaOK(g, p, u.promise, meta)'
<1>1. PICK n, r : n = u.promise /\ r = u.accepted_round
  OBVIOUS
<1>2. VoteInv(g)' /\ RoundsStep /\ g \in History
  BY RoundsKept, StepFacts
<1>3. /\ n \in Ballot /\ r \in Ballot /\ u.accepted_idx \in Nat
      /\ meta.n_accepted = r /\ meta.accepted_idx = u.accepted_idx /\ meta.decided_idx = u.decided_idx
  BY <1>1, StorageFields DEF Meta
<1>4. r \preceq n /\ n \preceq n
  BY <1>1, <1>2, BallotReflexive DEF RoundsStep
<1>5. \A k \in Ballot : r \prec k => g.acc[p][k] = 0
  BY <1>1, <1>2 DEF VoteInv
<1>6. g.acc[p][r] = u.accepted_idx /\ g.acc[p][r] \in Nat
  BY <1>1, <1>2, <1>3, HistoryFields DEF LogOK
<1>7. /\ r \in g.est \cup {DefaultBallot}
      /\ r \in g.est => g.base[r] <= u.accepted_idx
      /\ u.decided_idx <= u.accepted_idx /\ DecidedIn(g, r, u.decided_idx)
  BY <1>1 DEF LogOK
<1>8. DecidedIn(g, meta.n_accepted, meta.decided_idx)'
  <2>1. DecidedIn(g, meta.n_accepted, meta.decided_idx)
    BY <1>3, <1>7
  <2> QED BY <2>1 DEF DecidedIn, Chosen, Voters
<1>9. meta.accepted_idx <= g.acc[p][r]
  BY <1>3, <1>6
<1>10. storage'[p].promise = n /\ storage'[p].accepted_round = r
  BY <1>1
<1>11. MetaOK(g, p, n, meta)'
  BY <1>3, <1>4, <1>5, <1>6, <1>7, <1>8, <1>9, <1>10 DEF MetaOK
<1> QED BY <1>1, <1>11

\* A new leader has promised itself only.
OwnPromise(p, n, u, l) ==
  /\ l \in LeaderStates /\ l.n_leader = n
  /\ \A r \in Slots : /\ l.latest_accept_meta[r] = 0 /\ l.accepted_indexes[r] = 0
                      /\ is_promised(l, r) => r = p
  /\ is_promised(l, p) /\ l.promises_meta[p].meta = Meta(u)
  /\ l.max_promise_sync = None
  /\ l.max_promise_meta \in PromiseMetaData
  /\ l.max_promise_meta.n_accepted = u.accepted_round
  /\ l.max_promise_meta.accepted_idx = u.accepted_idx

\* LeaderState::with and the promise of the leader to itself.
LEMMA OwnPromiseFields ==
  ASSUME NEW p \in Server, NEW n \in Ballot, NEW u \in Storage, NEW meta, meta = Meta(u),
         NEW l, l = set_promise(LeaderState_with(n), p, meta, None, TRUE)
  PROVE  OwnPromise(p, n, u, l)
<1>1. PICK l0 : l0 = LeaderState_with(n)
  OBVIOUS
<1>2. /\ l0 \in LeaderStates /\ l0.n_leader = n /\ \A r \in Slots : ~ is_promised(l0, r)
  BY <1>1, LeaderStateWithOK
<1>3. /\ \A r \in Slots : l0.latest_accept_meta[r] = 0 /\ l0.accepted_indexes[r] = 0
      /\ l0.max_promise_meta = DefaultPromiseMetaData /\ l0.max_promise_sync = None
  BY <1>1 DEF LeaderState_with
<1>4. meta \in PromiseMetaData /\ p \in Slots /\ u.accepted_round \in Ballot /\ u.accepted_idx \in Nat
  BY StorageFields, ServersHaveSlots
<1>5. None \in LogSync \cup {None} /\ TRUE \in BOOLEAN
  OBVIOUS
<1>6. Records(l0, l, p, meta, None, TRUE)
  BY <1>1, <1>2, <1>4, <1>5, RecordsFields, Zenon
<1>7. PICK default : default = DefaultPromiseMetaData
  OBVIOUS
<1>8. /\ default \in PromiseMetaData /\ default.n_accepted = DefaultBallot /\ default.accepted_idx = 0
  BY <1>7, DefaultBallotType DEF DefaultPromiseMetaData, PromiseMetaData
<1>9. meta.n_accepted = u.accepted_round /\ meta.accepted_idx = u.accepted_idx
  BY DEF Meta
<1>10. CASE greater_meta(meta, default)
  <2>1. l.max_promise_meta = meta /\ l.max_promise_sync = None
    BY <1>3, <1>6, <1>7, <1>10, Zenon DEF Records
  <2> QED BY ZenonT(30), <1>2, <1>3, <1>4, <1>6, <1>9, <2>1 DEF Records, OwnPromise, is_promised
<1>11. CASE ~ greater_meta(meta, default)
  <2>1. l.max_promise_meta = default /\ l.max_promise_sync = None
    BY <1>3, <1>6, <1>7, <1>11, Zenon DEF Records
  <2>2. ~ (DefaultBallot \prec u.accepted_round)
    BY <1>8, <1>9, <1>11 DEF greater_meta
  <2>3. u.accepted_round = DefaultBallot
    BY <1>4, <2>2, DefaultBallotSmallest DEF \preceq
  <2>4. u.accepted_idx = 0
    BY <1>4, <1>8, <1>9, <1>11, <2>3 DEF greater_meta
  <2> QED BY <1>2, <1>3, <1>6, <1>8, <2>1, <2>3, <2>4 DEF Records, OwnPromise, is_promised
<1> QED BY <1>10, <1>11

\* A new leader is in its Prepare phase.
LEMMA OwnPromisePrepares ==
  ASSUME NEW p \in Server, NEW h \in History, RoundInv(h), NEW g \in History, g.est = h.est,
         NEW n \in Ballot, n.pid = p, storage[p].promise \in Ballot, storage[p].promise \prec n,
         NEW u \in Storage, u.promise = n, u.accepted_round \prec n, u.batched_entries = << >>, LogOK(g, p, u),
         NEW l, OwnPromise(p, n, u, l)
  PROVE  PrepareOK(g, p, u, l)
<1>1. n \notin g.est
  <2> SUFFICES ASSUME n \in h.est PROVE FALSE
    OBVIOUS
  <2>1. n \preceq storage[p].promise
    BY DEF RoundInv, RoundOK
  <2> QED BY <2>1, BallotAsymmetric
<1>2. PICK max, r : max = l.max_promise_meta /\ r = u.accepted_round
  OBVIOUS
<1>3. /\ max \in PromiseMetaData /\ max.n_accepted = r /\ max.accepted_idx = u.accepted_idx /\ l.max_promise_sync = None
      /\ l.n_leader = n /\ is_promised(l, p) /\ l.promises_meta[p].meta = Meta(u)
      /\ \A x \in Slots : is_promised(l, x) => x = p
  BY <1>2 DEF OwnPromise
<1>4. /\ r \in Ballot /\ u.accepted_idx \in Nat /\ u.compacted_idx \in Nat /\ Len(u.log) \in Nat
      /\ g.rlog[r] \in Entries /\ Len(g.rlog[r]) \in Nat /\ Meta(u) \in PromiseMetaData
  BY <1>2, StorageFields, HistoryFields
<1>5. /\ u.accepted_idx = u.compacted_idx + Len(u.log) /\ Segment(g.rlog[r], u.compacted_idx, u.log)
      /\ r \in g.est \cup {DefaultBallot}
  BY <1>2 DEF LogOK
<1>6. r \in g.est => g.base[r] <= u.accepted_idx
  BY <1>2 DEF LogOK
<1>7. u.accepted_idx <= Len(g.rlog[r])
  BY <1>4, <1>5 DEF Segment
<1>8. ~ greater_meta(Meta(u), max)
  <2>1. Meta(u).n_accepted = r /\ Meta(u).accepted_idx = u.accepted_idx
    BY <1>2 DEF Meta
  <2> QED BY <1>3, <1>4, <2>1, BallotIrreflexive DEF greater_meta
<1>9. MaxOK(g, u, l)
  BY <1>2, <1>3, <1>5, <1>6, <1>7, <1>8 DEF MaxOK
<1> QED BY <1>1, <1>3, <1>9 DEF PrepareOK

\* The round of p moves on, and p leads it or follows.
LEMMA NewRoundStep ==
  ASSUME NEW h, From(h), NEW p \in Server, NEW g, NEW u \in Storage, Flushes(p, h, g, u),
         storage'[p] = u, storage[p].promise \prec u.promise, \A q \in Peers(p) : Same(q)
  PROVE  Step(p, h, g)
<1>1. /\ TypeOK /\ storage[p].promise \in Ballot /\ Inv /\ Explains(h)
  BY FromFacts
<1>2. Inv' /\ RoundsStep
  BY DEF From
<1>3. storage'[p].promise # storage[p].promise
  BY <1>1, BallotIrreflexive
<1>4. \A n \in Ballot : Leads(p, n)' \/ Prepares(p, n)' => storage[p].promise \prec n
  BY DEF Leads, Prepares
<1>5. Moves(p)
  BY <1>3, <1>4 DEF Moves
<1> QED BY <1>1, <1>2, <1>5 DEF Step, Flushes

\* handle_leader.
LEMMA HandleLeaderExplained ==
  ASSUME NEW h, From(h), NEW p \in Server, NEW n \in Ballot, handle_leader(p, n)
  PROVE  \E g : Succeeds(h, g)
<1> DEFINE s == [flush_batch(storage[p]) EXCEPT !.promise = n]
           l0 == set_promise(LeaderState_with(n), p, PromiseMeta(Promise(n, s, None)), None, TRUE)
           out0 == push(outgoing[p], [q \in Peers(p) |-> Prepare(n, s)])
<1>1. /\ p \notin panicked /\ n.pid = p /\ storage[p].promise \prec n
      /\ storage' = [storage EXCEPT ![p] = s] /\ leader_state' = [leader_state EXCEPT ![p] = l0]
      /\ state' = [state EXCEPT ![p] = << "Leader", "Prepare" >>]
      /\ Called(p, out0)
      /\ UNCHANGED << follower_state, panicked >>
  BY Zenon DEF handle_leader
<1>2. n \in Ballot
  OBVIOUS
<1>3. PICK u, l, out : u = s /\ l = l0 /\ out = out0
  OBVIOUS
<1>4. /\ u \in Storage /\ u.promise = n /\ u.accepted_round = storage[p].accepted_round
      /\ u.batched_entries = << >> /\ \E g : Flushes(p, h, g, u)
  <2>1. Promises(p, n, u)
    BY <1>3 DEF Promises
  <2> QED BY <1>2, <2>1, NewPromise
<1>5. PICK g : Flushes(p, h, g, u)
  BY <1>4
<1>6. PICK meta : meta = Meta(u)
  OBVIOUS
<1>7. l = set_promise(LeaderState_with(n), p, meta, None, TRUE)
  BY <1>3, <1>6 DEF Meta, PromiseMeta, Promise
<1>8. out = push(outgoing[p], [q \in Peers(p) |-> Prepare(n, u)])
  BY <1>3
<1>9. storage' = [storage EXCEPT ![p] = u]
  BY <1>1, <1>3
<1> HIDE DEF s, l0, out0
<1>10. OwnPromise(p, n, u, l)
  BY <1>2, <1>4, <1>6, <1>7, OwnPromiseFields
<1>11. /\ TypeOK /\ Explains(h) /\ h \in History /\ Plain /\ RoundInv(h) /\ Inv
       /\ storage[p] \in Storage /\ storage[p].promise \in Ballot
       /\ outgoing[p] = NoMessages /\ KeptPromiseOK(h, p) /\ FollowingOK(h, p)
  BY FromFacts
<1>12. Updates(p, u, << "Leader", "Prepare" >>, l, follower_state[p])
  BY <1>1, <1>3, <1>9, <1>11, Unchanged DEF Updates
<1>13. /\ \A q \in Peers(p) : Same(q)
       /\ storage'[p] = u /\ state'[p] = << "Leader", "Prepare" >> /\ leader_state'[p] = l
       /\ follower_state'[p] = follower_state[p]
  BY <1>1, <1>11, <1>12, OthersSame, Zenon
<1>14. Step(p, h, g)
  BY <1>1, <1>4, <1>5, <1>13, NewRoundStep
<1>15. Accepts(p, h, g) /\ Founds(h, g)
  BY <1>5, <1>13, FlushAccepts
<1>16. LogOK(g, p, u) /\ BatchOK(g, p, u) /\ g.est = h.est /\ g \in History
  BY <1>5, <1>14, StepFacts DEF Flushes
<1>17. MetaOK(g, p, n, meta)'
  BY <1>4, <1>6, <1>13, <1>14, <1>15, <1>16, OwnMetaOK
<1>18. CountsOK(g, l)'
  BY <1>6, <1>10, <1>17 DEF CountsOK, OwnPromise, is_promised
<1>19. u.accepted_round \prec n
  <2>1. storage[p].accepted_round \in Ballot /\ storage[p].accepted_round \preceq storage[p].promise
    BY <1>11, StorageFields DEF Inv, StorageInv
  <2> QED BY <1>1, <1>2, <1>4, <1>11, <2>1, BallotStrictlyTransitive
<1>20. PrepareOK(g, p, u, l)
  BY <1>1, <1>2, <1>4, <1>10, <1>11, <1>16, <1>19, OwnPromisePrepares
<1>21. LeadingOK(g, p)'
  <2>1. PrepareOK(g, p, u, l)'
    BY <1>20 DEF PrepareOK, MaxOK, AdoptOK
  <2>2. << "Leader", "Prepare" >> # << "Leader", "Accept" >>
    OBVIOUS
  <2> QED BY <1>13, <2>1, <2>2 DEF LeadingOK
<1>22. FollowingOK(g, p)'
  <2>1. << "Leader", "Prepare" >> # << "Follower", "Accept" >> /\ << "Leader", "Prepare" >> # << "Follower", "Prepare" >>
    OBVIOUS
  <2> QED BY <1>11, <1>13, <2>1 DEF FollowingOK
<1>23. KeptPromiseOK(g, p)'
  BY <1>13, <1>14, KeptPromiseKept
<1>24. Fresh(p, g, out)
  <2> SUFFICES ASSUME NEW y \in Peers(p)
               PROVE  \E m \in Message : out[y] = << m >> /\ FreshOK(p, g, y, m)
    BY DEF Fresh
  <2>1. PICK m : m = Prepare(n, u)
    OBVIOUS
  <2>2. n \preceq storage'[p].promise /\ (Prepares(p, n)' => Meta(storage'[p]) = Meta(u))
    BY <1>4, <1>13, BallotReflexive
  <2>3. m \in Message /\ FreshOK(p, g, y, m)
    BY <1>1, <1>2, <1>4, <2>1, <2>2, PrepareFresh
  <2>4. PICK msgs : msgs = [q \in Peers(p) |-> Prepare(n, u)]
    OBVIOUS
  <2>5. y \in Server /\ y \in DOMAIN msgs /\ msgs[y] = m
    BY <2>1, <2>4 DEF Peers
  <2>6. out = push(NoMessages, msgs)
    BY <1>8, <1>11, <2>4
  <2>7. out[y] = << m >>
    BY <1>11, <2>5, <2>6, NothingWaits
  <2> QED BY <2>3, <2>7
<1>25. Delivers(p, out) /\ SendsOK(p, g, out) /\ outgoing' = [q \in Server |-> NoMessages]
  <2>1. Ended(p, out)
    BY <1>1, <1>3 DEF Ended, Called
  <2> QED BY <1>24, <2>1, CallEnds
<1>26. ReceivesOK(p, g)
  <2>1. storage'[p].promise # storage[p].promise
    BY <1>1, <1>4, <1>11, <1>13, BallotIrreflexive
  <2> QED BY <1>14, <1>25, <2>1, ReceivesKept
<1>27. LogOK(g, p, storage'[p]) /\ BatchOK(g, p, storage'[p])
  BY <1>13, <1>16
<1>28. CountsOK(g, leader_state[p])'
  BY <1>13, <1>18
<1>29. Succeeds(h, g)
  BY <1>14, <1>15, <1>21, <1>22, <1>23, <1>25, <1>26, <1>27, <1>28, StepExplained
<1> QED BY <1>29
==============================================================================
