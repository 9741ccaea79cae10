------------------------- MODULE SequencePaxosProofs -------------------------
(***************************************************************************)
(* For every cluster, every set of ballots and proposals and any number of *)
(* losses, crashes and timeouts: the variables of SequencePaxos keep their *)
(* types, the rounds of a server never go back (RoundsAdvance), and nobody *)
(* is ever sent an accept message of a round it has not promised           *)
(* (NeverUnpromised).                                                      *)
(*                                                                         *)
(* The three are one induction.  An accept message goes to those whose     *)
(* promise the leader counted, a promise is counted when a Promise arrives *)
(* and a Promise is sent by who has promised: so the invariant speaks of   *)
(* the promises a leader counts, of the Promise messages on their way and  *)
(* of the one a follower keeps to send it again.                           *)
(*                                                                         *)
(* The first part is about the operators of InternalStorage and of         *)
(* LeaderState.  A storage operator keeps the storage well formed, and     *)
(* only those that the protocol uses for it change the promise and the     *)
(* accepted round.  The bookkeeping of a leader keeps its type, and only   *)
(* the promise that is recorded changes who counts as promised.            *)
(*                                                                         *)
(* SequencePaxosEC has the same handlers, and the lemmas serve it as well. *)
(* There, entries are pieces of what users propose and every server gets   *)
(* others, in AcceptDecide messages that also go to who has not promised.  *)
(***************************************************************************)
EXTENDS SequencePaxos, BallotsProofs, SequenceTheorems

CONSTANT Coded            \* entries are pieces, as in SequencePaxosEC

\* The accept messages that are sent to who has not promised, too.
Broadcast == IF Coded THEN {"AcceptDecide"} ELSE {}

(***************************************************************************)
(* A stop sign has an index of its own.  Without this                      *)
(* get_decided_idx_without_stopsign could be negative, so the type of the  *)
(* storage alone is not preserved.                                         *)
(***************************************************************************)
StorageOK(s) ==
  /\ s \in Storage
  /\ s.stopsign # None => s.accepted_idx > 0

\* The rounds of s and t are the same.
SameRounds(s, t) == s.promise = t.promise /\ s.accepted_round = t.accepted_round

------------------------------------------------------------------------------
(* Reads of the log *)

\* Vec::truncate returns entries.
LEMMA TruncateType ==
  ASSUME NEW S, NEW s \in Seq(S), NEW k \in Nat
  PROVE  truncate(s, k) \in Seq(S)
<1> DEFINE n == minimum(k, Len(s))
<1>1. Len(s) \in Nat /\ \A i \in 1 .. Len(s) : s[i] \in S
  BY LenProperties, ElementOfSeq
<1>2. n \in Int /\ n <= Len(s)
  BY <1>1 DEF minimum
<1>3. \A i \in 1 .. n : s[i] \in S
  BY <1>1, <1>2
<1>4. SubSeq(s, 1, n) \in Seq(S)
  BY <1>2, <1>3, SubSeqProperties
<1> QED BY <1>4 DEF truncate

\* Vec::drain returns entries, provided that the index does not underflow.
LEMMA DrainType ==
  ASSUME NEW S, NEW s \in Seq(S), NEW k \in Nat
  PROVE  drain(s, k) \in Seq(S)
<1> DEFINE m == minimum(k, Len(s)) + 1
<1>1. Len(s) \in Nat /\ \A i \in 1 .. Len(s) : s[i] \in S
  BY LenProperties, ElementOfSeq
<1>2. m \in Int /\ m >= 1
  BY <1>1 DEF minimum
<1>3. \A i \in m .. Len(s) : s[i] \in S
  BY <1>1, <1>2
<1>4. SubSeq(s, m, Len(s)) \in Seq(S)
  BY <1>1, <1>2, <1>3, SubSeqProperties
<1> QED BY <1>4 DEF drain

\* get_entries returns entries, also for indices that were compacted.
LEMMA GetEntriesType ==
  ASSUME NEW s \in Storage, NEW from \in Nat, NEW to \in Nat
  PROVE  get_entries(s, from, to) \in Entries
<1> DEFINE a == from - s.compacted_idx + 1
           b == to - s.compacted_idx
<1>1. s.log \in Seq(Value) /\ s.compacted_idx \in Nat
  BY DEF Storage, Entries
<1>2. Len(s.log) \in Nat /\ \A i \in 1 .. Len(s.log) : s.log[i] \in Value
  BY <1>1, LenProperties, ElementOfSeq
<1>3. CASE s.compacted_idx <= from /\ from <= to /\ to - s.compacted_idx <= Len(s.log)
  <2>1. a \in Int /\ b \in Int /\ \A i \in a .. b : s.log[i] \in Value
    BY <1>1, <1>2, <1>3
  <2>2. SubSeq(s.log, a, b) \in Seq(Value)
    BY <2>1, SubSeqProperties
  <2> QED BY <2>2, <1>3 DEF get_entries, Entries
<1>4. CASE ~ (s.compacted_idx <= from /\ from <= to /\ to - s.compacted_idx <= Len(s.log))
  BY <1>4, EmptySeq DEF get_entries, Entries
<1> QED BY <1>3, <1>4

\* get_suffix returns entries unless it panics.
LEMMA GetSuffixType ==
  ASSUME NEW s \in Storage, NEW from \in Nat, ~ get_suffix_panics(s, from)
  PROVE  get_suffix(s, from) \in Entries
<1>1. s.log \in Seq(Value) /\ from - s.compacted_idx \in Nat
  BY DEF Storage, Entries, get_suffix_panics
<1> QED BY <1>1, DrainType DEF get_suffix, Entries

\* The decided index without the stop sign is not negative.
LEMMA DecidedIdxWithoutStopSignType ==
  ASSUME NEW s, StorageOK(s)
  PROVE  get_decided_idx_without_stopsign(s) \in Nat
BY DEF StorageOK, Storage, get_decided_idx_without_stopsign, stopsign_is_decided

------------------------------------------------------------------------------
(* Appending *)

\* append_entries_without_batching keeps the storage well formed.
LEMMA AppendEntriesOK ==
  ASSUME NEW s, StorageOK(s), NEW entries \in Entries
  PROVE  LET t == append_entries_without_batching(s, entries)
         IN  StorageOK(t) /\ SameRounds(s, t)
<1> DEFINE log == s.log \o entries
           k == s.accepted_idx + Len(entries)
<1>1. s.accepted_idx \in Nat /\ log \in Entries /\ Len(entries) \in Nat
  BY ConcatProperties, LenProperties DEF StorageOK, Storage, Entries
<1>2. k \in Nat /\ (s.stopsign # None => k > 0)
  BY <1>1 DEF StorageOK
<1>3. append_entries_without_batching(s, entries) = [s EXCEPT !.log = log, !.accepted_idx = k]
  BY DEF append_entries_without_batching
<1> HIDE DEF log, k
<1> QED BY <1>1, <1>2, <1>3 DEF StorageOK, Storage, SameRounds

\* flush_batch keeps the storage well formed.
LEMMA FlushBatchOK ==
  ASSUME NEW s, StorageOK(s)
  PROVE  StorageOK(flush_batch(s)) /\ SameRounds(s, flush_batch(s))
<1> DEFINE e == [s EXCEPT !.batched_entries = << >>]
<1>1. << >> \in Entries
  BY EmptySeq DEF Entries
<1>2. StorageOK(e) /\ SameRounds(s, e) /\ s.batched_entries \in Entries
  BY <1>1 DEF StorageOK, Storage, SameRounds
<1>3. flush_batch(s) = append_entries_without_batching(e, s.batched_entries)
  BY DEF flush_batch
<1> HIDE DEF e
<1>4. StorageOK(append_entries_without_batching(e, s.batched_entries))
      /\ SameRounds(e, append_entries_without_batching(e, s.batched_entries))
  BY <1>2, AppendEntriesOK
<1> QED BY <1>2, <1>3, <1>4 DEF SameRounds

\* append_entries_with_batching keeps the storage well formed.
LEMMA AppendWithBatchingOK ==
  ASSUME NEW s, StorageOK(s), NEW entries \in Entries
  PROVE  LET t == append_entries_with_batching(s, entries)
         IN  StorageOK(t) /\ SameRounds(s, t)
<1> DEFINE b == [s EXCEPT !.batched_entries = @ \o entries]
<1>1. s.batched_entries \o entries \in Entries
  BY ConcatProperties DEF StorageOK, Storage, Entries
<1>2. StorageOK(b) /\ SameRounds(s, b)
  BY <1>1 DEF StorageOK, Storage, SameRounds
<1>3. append_entries_with_batching(s, entries) \in {b, flush_batch(b)}
  BY DEF append_entries_with_batching
<1> HIDE DEF b
<1>4. StorageOK(flush_batch(b)) /\ SameRounds(b, flush_batch(b))
  BY <1>2, FlushBatchOK
<1> QED BY <1>2, <1>3, <1>4 DEF SameRounds

\* append_stopsign keeps the storage well formed.
LEMMA AppendStopSignOK ==
  ASSUME NEW s, StorageOK(s), NEW ss \in StopSign
  PROVE  StorageOK(append_stopsign(s, ss)) /\ SameRounds(s, append_stopsign(s, ss))
<1> DEFINE f == flush_batch(s)
<1>1. StorageOK(f) /\ SameRounds(s, f)
  BY FlushBatchOK
<1>2. append_stopsign(s, ss) = [f EXCEPT !.stopsign = ss, !.accepted_idx = f.accepted_idx + 1]
  BY DEF append_stopsign
<1> HIDE DEF f
<1> DEFINE k == f.accepted_idx + 1
<1>3. k \in Nat /\ k > 0
  BY <1>1 DEF StorageOK, Storage
<1> HIDE DEF k
<1>4. append_stopsign(s, ss) = [f EXCEPT !.stopsign = ss, !.accepted_idx = k]
  BY <1>2 DEF k
<1> QED BY <1>1, <1>3, <1>4 DEF StorageOK, Storage, SameRounds

\* set_stopsign keeps the storage well formed.
LEMMA SetStopSignOK ==
  ASSUME NEW s, StorageOK(s), NEW ss \in StopSign
  PROVE  StorageOK(set_stopsign(s, ss)) /\ SameRounds(s, set_stopsign(s, ss))
<1> DEFINE k == IF s.stopsign = None THEN s.accepted_idx + 1 ELSE s.accepted_idx
<1>1. k \in Nat /\ k > 0
  BY DEF StorageOK, Storage
<1>2. set_stopsign(s, ss) = [s EXCEPT !.stopsign = ss, !.accepted_idx = k]
  BY DEF set_stopsign
<1> HIDE DEF k
<1> QED BY <1>1, <1>2 DEF StorageOK, Storage, SameRounds

------------------------------------------------------------------------------
(* Snapshots and log synchronisation *)

\* merge of what the log has into the snapshot is a snapshot.
LEMMA CreateSnapshotType ==
  ASSUME NEW s \in Storage, NEW idx \in Nat
  PROVE  create_snapshot(s, idx) \in Entries
<1>1. s.compacted_idx \in Nat /\ s.snapshot \in Entries \cup {None}
  BY DEF Storage
<1>2. get_entries(s, s.compacted_idx, idx) \in Entries
  BY <1>1, GetEntriesType
<1> QED BY <1>1, <1>2, ConcatProperties DEF create_snapshot, merge, Entries

\* create_diff_snapshot returns a snapshot, and one of kind None only if there
\* is nothing to put into it.
LEMMA CreateDiffSnapshotType ==
  ASSUME NEW s, StorageOK(s), NEW from \in Nat
  PROVE  create_diff_snapshot(s, from) \in SnapshotType
<1> DEFINE d == get_decided_idx_without_stopsign(s)
<1>1. s \in Storage /\ s.snapshot \in Entries \cup {None} /\ d \in Nat
  BY DecidedIdxWithoutStopSignType DEF StorageOK, Storage
<1>2. get_entries(s, from, d) \in Entries /\ create_snapshot(s, d) \in Entries
  BY <1>1, GetEntriesType, CreateSnapshotType
<1> HIDE DEF d
<1> QED BY <1>1, <1>2 DEF create_diff_snapshot, SnapshotType, d

\* create_log_sync returns a LogSync unless it panics.
LEMMA CreateLogSyncType ==
  ASSUME NEW s, StorageOK(s), NEW common_prefix_idx \in Nat, NEW other_decided_idx \in Nat,
         ~ create_log_sync_panics(s, common_prefix_idx)
  PROVE  create_log_sync(s, common_prefix_idx, other_decided_idx) \in LogSync
<1>1. s \in Storage /\ s.stopsign \in StopSign \cup {None} /\ s.decided_idx \in Nat
  BY DEF StorageOK, Storage
<1>2. get_decided_idx_without_stopsign(s) \in Nat
  BY DecidedIdxWithoutStopSignType
<1>3. create_diff_snapshot(s, other_decided_idx) \in SnapshotType
  BY CreateDiffSnapshotType
<1>4. [kind |-> "None", snapshot |-> None] \in SnapshotType
  BY DEF SnapshotType
<1>5. CASE syncs_with_snapshot(s, common_prefix_idx)
  <2>1. get_suffix(s, s.decided_idx) \in Entries
    BY <1>1, <1>5, GetSuffixType DEF create_log_sync_panics
  <2> QED BY <1>1, <1>2, <1>3, <1>5, <2>1 DEF create_log_sync, LogSync
<1>6. CASE ~ syncs_with_snapshot(s, common_prefix_idx)
  <2>1. get_suffix(s, common_prefix_idx) \in Entries
    BY <1>1, <1>6, GetSuffixType DEF create_log_sync_panics
  <2> QED BY <1>1, <1>4, <1>6, <2>1 DEF create_log_sync, LogSync
<1> QED BY <1>5, <1>6

\* sync_log keeps the storage well formed unless it panics, and moves it to the
\* accepted round it is given.
LEMMA SyncLogOK ==
  ASSUME NEW s, StorageOK(s), NEW n \in Ballot, NEW decided_idx \in Nat,
         NEW sync \in LogSync \cup {None}, ~ sync_log_panics(s, decided_idx, sync)
  PROVE  LET t == sync_log(s, n, decided_idx, sync)
         IN  StorageOK(t) /\ t.promise = s.promise /\ t.accepted_round = n
<1> DEFINE t == sync_log(s, n, decided_idx, sync)
<1>1. CASE sync = None
  BY <1>1 DEF sync_log, StorageOK, Storage
<1>2. CASE sync # None
  <2> DEFINE kind == sync.decided_snapshot.kind
             snap == sync.decided_snapshot.snapshot
             own == create_snapshot(s, create_decided_snapshot_idx(s, decided_idx))
             newsnap == CASE kind = "None" -> s.snapshot
                          [] kind = "Complete" -> snap
                          [] kind = "Delta" -> merge(own, snap)
             newlog == IF kind = "None"
                         THEN truncate(s.log, sync.sync_idx - s.compacted_idx) \o sync.suffix
                         ELSE sync.suffix
             compacted == IF kind = "None" THEN s.compacted_idx ELSE sync.sync_idx
             accepted == sync.sync_idx + Len(sync.suffix)
                         + IF sync.stopsign = None THEN 0 ELSE 1
  <2>1. /\ sync.suffix \in Entries /\ sync.sync_idx \in Nat
        /\ sync.stopsign \in StopSign \cup {None}
        /\ sync.decided_snapshot \in SnapshotType
    BY <1>2 DEF LogSync
  <2>2. /\ kind \in {"None", "Complete", "Delta"}
        /\ kind # "None" => snap \in Entries
    BY <2>1 DEF SnapshotType
  <2>3. s \in Storage /\ s.log \in Entries /\ s.snapshot \in Entries \cup {None}
        /\ s.compacted_idx \in Nat
    BY DEF StorageOK, Storage
  <2>4. Len(sync.suffix) \in Nat
    BY <2>1, LenProperties DEF Entries
  <2>5. accepted \in Nat /\ (sync.stopsign # None => accepted > 0)
    BY <2>1, <2>4
  <2>6. compacted \in Nat
    BY <2>1, <2>3
  <2>7. newlog \in Entries
    <3>1. sync.sync_idx - s.compacted_idx \in Nat
      BY <1>2, <2>1, <2>3 DEF sync_log_panics
    <3>2. truncate(s.log, sync.sync_idx - s.compacted_idx) \in Entries
      BY <3>1, <2>3, TruncateType DEF Entries
    <3> QED BY <3>2, <2>1, ConcatProperties DEF Entries
  <2>8. newsnap \in Entries \cup {None}
    <3>1. create_decided_snapshot_idx(s, decided_idx) \in Nat
      <4> DEFINE e == [s EXCEPT !.decided_idx = decided_idx]
      <4>1. StorageOK(e)
        BY DEF StorageOK, Storage
      <4> HIDE DEF e
      <4>2. get_decided_idx_without_stopsign(e) \in Nat
        BY <4>1, DecidedIdxWithoutStopSignType
      <4> QED BY <4>2 DEF create_decided_snapshot_idx, e
    <3>2. own \in Entries
      BY <3>1, <2>3, CreateSnapshotType
    <3> HIDE DEF own
    <3>3. kind = "Delta" => merge(own, snap) \in Entries
      BY <3>2, <2>2, ConcatProperties DEF merge, Entries
    <3> QED BY <3>3, <2>2, <2>3
  <2>9. t = [s EXCEPT !.accepted_round = n, !.decided_idx = decided_idx,
                      !.compacted_idx = compacted, !.snapshot = newsnap, !.log = newlog,
                      !.stopsign = sync.stopsign, !.accepted_idx = accepted]
    BY <1>2, Zenon DEF sync_log
  <2> HIDE DEF kind, snap, own, newsnap, newlog, compacted, accepted, t
  <2>10. StorageOK(t) /\ t.promise = s.promise /\ t.accepted_round = n
    BY <2>1, <2>5, <2>6, <2>7, <2>8, <2>9 DEF StorageOK, Storage
  <2> QED BY <2>10 DEF t
<1> QED BY <1>1, <1>2

------------------------------------------------------------------------------
(* Compaction and recovery *)

\* compact keeps the storage well formed when the index is ahead.
LEMMA CompactOK ==
  ASSUME NEW s, StorageOK(s), NEW idx \in Nat, idx > s.compacted_idx
  PROVE  StorageOK(compact(s, idx)) /\ SameRounds(s, compact(s, idx))
<1>1. s.log \in Entries /\ idx - s.compacted_idx \in Nat
  BY DEF StorageOK, Storage
<1>2. drain(s.log, idx - s.compacted_idx) \in Entries
  BY <1>1, DrainType DEF Entries
<1> QED BY <1>2 DEF compact, StorageOK, Storage, SameRounds

\* The index at which a compaction call cuts is not negative.
LEMMA CompactionIdxType ==
  ASSUME NEW s, StorageOK(s), NEW idx \in Nat
  PROVE  compaction_idx(s, idx) \in Nat
BY DecidedIdxWithoutStopSignType DEF compaction_idx

\* try_trim keeps the storage well formed.
LEMMA TryTrimOK ==
  ASSUME NEW s, StorageOK(s), NEW idx \in Nat
  PROVE  StorageOK(try_trim(s, idx)) /\ SameRounds(s, try_trim(s, idx))
<1> DEFINE k == compaction_idx(s, idx)
<1>1. k \in Nat
  BY CompactionIdxType
<1>2. k > s.compacted_idx => StorageOK(compact(s, k)) /\ SameRounds(s, compact(s, k))
  BY <1>1, CompactOK
<1>3. \/ try_trim(s, idx) = s
      \/ k > s.compacted_idx /\ try_trim(s, idx) = compact(s, k)
  BY DEF try_trim
<1> QED BY <1>2, <1>3 DEF SameRounds

\* try_snapshot keeps the storage well formed.
LEMMA TrySnapshotOK ==
  ASSUME NEW s, StorageOK(s), NEW snapshot_idx \in Nat \cup {None}
  PROVE  StorageOK(try_snapshot(s, snapshot_idx)) /\ SameRounds(s, try_snapshot(s, snapshot_idx))
<1> DEFINE i == IF snapshot_idx = None THEN s.decided_idx ELSE snapshot_idx
           k == compaction_idx(s, i)
           c == compact(s, k)
           snap == create_snapshot(s, k)
<1>1. i \in Nat /\ s \in Storage
  BY DEF StorageOK, Storage
<1>2. k \in Nat
  BY <1>1, CompactionIdxType
<1>3. k > s.compacted_idx => StorageOK(c) /\ SameRounds(s, c)
  BY <1>2, CompactOK
<1>4. snap \in Entries
  BY <1>1, <1>2, CreateSnapshotType
<1>5. \/ try_snapshot(s, snapshot_idx) = s
      \/ k > s.compacted_idx /\ try_snapshot(s, snapshot_idx) = [c EXCEPT !.snapshot = snap]
  BY DEF try_snapshot
<1> HIDE DEF k, c, snap
<1>6. StorageOK(c) /\ SameRounds(s, c) =>
        StorageOK([c EXCEPT !.snapshot = snap]) /\ SameRounds(s, [c EXCEPT !.snapshot = snap])
  BY <1>4 DEF StorageOK, Storage, SameRounds
<1> QED BY <1>3, <1>5, <1>6 DEF SameRounds

\* load_cache recovers a well-formed storage with the rounds that were
\* persisted.
LEMMA LoadCacheOK ==
  ASSUME NEW s, StorageOK(s)
  PROVE  StorageOK(load_cache(s)) /\ SameRounds(s, load_cache(s))
<1> DEFINE k == Len(s.log) + s.compacted_idx + IF s.stopsign = None THEN 0 ELSE 1
<1>1. << >> \in Entries
  BY EmptySeq DEF Entries
<1>2. s.log \in Seq(Value) /\ s.compacted_idx \in Nat
  BY DEF StorageOK, Storage, Entries
<1>3. Len(s.log) \in Nat
  BY <1>2, LenProperties
<1>4. k \in Nat /\ (s.stopsign # None => k > 0)
  BY <1>2, <1>3
<1>5. load_cache(s) = [s EXCEPT !.batched_entries = << >>, !.accepted_idx = k]
  BY DEF load_cache
<1> HIDE DEF k
<1> QED BY <1>1, <1>4, <1>5 DEF StorageOK, Storage, SameRounds

\* The storage of a new server is well formed.
LEMMA EmptyStorageOK == StorageOK(EmptyStorage)
<1>1. << >> \in Entries
  BY EmptySeq DEF Entries
<1> QED BY <1>1, DefaultBallotType DEF EmptyStorage, StorageOK, Storage

------------------------------------------------------------------------------
(* The bookkeeping of a leader *)

\* Every server has a slot.
LEMMA ServersHaveSlots == \A p \in Server : p \in Slots
BY ServerAssumption DEF Slots

\* Only q was added to those who count as promised, in the same round.
PromisesFrom(l, m, q) ==
  /\ m.n_leader = l.n_leader
  /\ \A r \in Slots : is_promised(m, r) => is_promised(l, r) \/ r = q

\* Nobody was added.
SamePromises(l, m) ==
  /\ m.n_leader = l.n_leader
  /\ \A r \in Slots : is_promised(m, r) <=> is_promised(l, r)

\* The bookkeeping of a new round is well formed and nobody has promised.
LEMMA LeaderStateWithOK ==
  ASSUME NEW n \in Ballot
  PROVE  /\ LeaderState_with(n) \in LeaderStates
         /\ LeaderState_with(n).n_leader = n
         /\ \A r \in Slots : ~ is_promised(LeaderState_with(n), r)
<1>1. DefaultPromiseMetaData \in PromiseMetaData /\ DefaultSequenceNumber \in SequenceNumber
  BY DefaultBallotType DEF DefaultPromiseMetaData, PromiseMetaData,
                           DefaultSequenceNumber, SequenceNumber
<1>2. NotPromised \in PromiseState /\ NotPromised.state = "NotPromised"
  BY <1>1 DEF NotPromised, PromiseState
<1> QED BY <1>1, <1>2 DEF LeaderState_with, LeaderStates, is_promised

\* set_promise records the promise of q.
LEMMA SetPromiseOK ==
  ASSUME NEW l \in LeaderStates, NEW q \in Slots, NEW meta \in PromiseMetaData,
         NEW sync \in LogSync \cup {None}, NEW check \in BOOLEAN
  PROVE  LET m == set_promise(l, q, meta, sync, check)
         IN  /\ m \in LeaderStates
             /\ PromisesFrom(l, m, q)
             /\ m.promises_meta[q].meta = meta
<1> DEFINE ps == [state |-> "Promised", meta |-> meta]
           l1 == [l EXCEPT !.promises_meta[q] = ps]
           l2 == [l1 EXCEPT !.max_promise_meta = meta, !.max_promise_sync = sync]
<1>1. ps \in PromiseState /\ ps.meta = meta
  BY DEF PromiseState
<1>2. set_promise(l, q, meta, sync, check) \in {l1, l2}
  BY DEF set_promise
<1> HIDE DEF ps
<1>3. /\ l1 \in LeaderStates
      /\ PromisesFrom(l, l1, q)
      /\ l1.promises_meta[q] = ps
  BY <1>1 DEF LeaderStates, PromisesFrom, is_promised
<1>4. /\ l2 \in LeaderStates
      /\ PromisesFrom(l, l2, q)
      /\ l2.promises_meta[q] = ps
  BY <1>1 DEF LeaderStates, PromisesFrom, is_promised
<1> QED BY <1>1, <1>2, <1>3, <1>4

\* reset_promise and lost_promise forget the promise of q.
LEMMA ForgetPromiseOK ==
  ASSUME NEW l \in LeaderStates, NEW q \in Slots
  PROVE  /\ reset_promise(l, q) \in LeaderStates
         /\ PromisesFrom(l, reset_promise(l, q), q) /\ ~ is_promised(reset_promise(l, q), q)
         /\ lost_promise(l, q) \in LeaderStates
         /\ PromisesFrom(l, lost_promise(l, q), q) /\ ~ is_promised(lost_promise(l, q), q)
<1> DEFINE higher == [NotPromised EXCEPT !.state = "PromisedHigher"]
<1>1. DefaultPromiseMetaData \in PromiseMetaData
  BY DefaultBallotType DEF DefaultPromiseMetaData, PromiseMetaData
<1>2. /\ NotPromised \in PromiseState /\ NotPromised.state = "NotPromised"
      /\ higher \in PromiseState /\ higher.state = "PromisedHigher"
  BY <1>1 DEF NotPromised, PromiseState
<1> HIDE DEF higher
<1>3. lost_promise(l, q) = [l EXCEPT !.promises_meta[q] = higher]
  BY DEF lost_promise, higher
<1> QED BY SMTT(30), <1>2, <1>3 DEF reset_promise, LeaderStates, PromisesFrom, is_promised

\* set_accepted_idx changes an accepted index only.
LEMMA SetAcceptedIdxOK ==
  ASSUME NEW l \in LeaderStates, NEW q \in Slots, NEW idx \in Nat
  PROVE  /\ set_accepted_idx(l, q, idx) \in LeaderStates
         /\ SamePromises(l, set_accepted_idx(l, q, idx))
BY DEF set_accepted_idx, LeaderStates, SamePromises, is_promised

\* Sequence numbers stay sequence numbers.
LEMMA SequenceNumberType ==
  ASSUME NEW sn \in SequenceNumber
  PROVE  next_seq_num(sn) \in SequenceNumber /\ increment_seq_num_session(sn) \in SequenceNumber
BY DEF next_seq_num, increment_seq_num_session, SequenceNumber

\* Finitely many indices have a largest one: Iterator::max in
\* get_max_decided_idx.
LEMMA MaximumExists ==
  ASSUME NEW N \in Nat, NEW P \in SUBSET (1 .. N), P # {}, NEW f \in [P -> Nat]
  PROVE  \E r \in P : \A s \in P : f[s] <= f[r]
<1> DEFINE Below(k) == {r \in P : r <= k}
           HasMax(k) == \E r \in Below(k) : \A s \in Below(k) : f[s] <= f[r]
           T == {k \in Nat : Below(k) # {} /\ ~ HasMax(k)}
<1>1. P \subseteq Nat \ {0} /\ \A r \in P : f[r] \in Nat
  OBVIOUS
<1>2. T = {}
  <2> SUFFICES ASSUME T # {} PROVE FALSE
    OBVIOUS
  <2>1. T \subseteq Nat
    OBVIOUS
  <2>2. PICK k \in T : \A j \in T : ~ (j < k)
    <3> DEFINE R == {ss \in Nat \X Nat : ss[1] < ss[2]}
    <3>1. IsWellFoundedOn(R, Nat)
      BY NatLessThanWellFounded, Zenon DEF OpToRel
    <3> HIDE DEF R
    <3>2. PICK k \in T : \A j \in T : ~ (<< j, k >> \in R)
      BY <2>1, <3>1, WFMin, Zenon
    <3>3. \A j \in T : j < k => << j, k >> \in R
      BY <2>1, <3>2 DEF R
    <3> QED BY <3>2, <3>3
  <2>3. k \in Nat /\ Below(k) # {} /\ ~ HasMax(k)
    OBVIOUS
  <2>4. k > 0 /\ k - 1 \in Nat
    <3>1. PICK r \in P : r <= k
      BY <2>3
    <3>2. r \in Nat /\ r > 0
      BY <1>1
    <3> QED BY <3>1, <3>2, <2>3
  <2>5. k - 1 \notin T
    BY <2>2, <2>4
  <2>6. Below(k) = Below(k - 1) \cup (P \cap {k})
    <3>1. \A r \in P : r <= k <=> r <= k - 1 \/ r = k
      BY <2>3, <1>1
    <3>2. \A r : r \in Below(k) <=> r \in Below(k - 1) \cup (P \cap {k})
      BY <3>1
    <3> QED BY <3>2, Zenon
  <2>7. CASE Below(k - 1) = {}
    <3>1. k \in P /\ Below(k) = {k} /\ f[k] <= f[k]
      BY <2>3, <2>6, <2>7, <1>1
    <3> QED BY <3>1, <2>3
  <2>8. CASE Below(k - 1) # {}
    <3>1. PICK m \in Below(k - 1) : \A s \in Below(k - 1) : f[s] <= f[m]
      BY <2>4, <2>5, <2>8
    <3>2. m \in P /\ m \in Below(k) /\ Below(k - 1) \subseteq P
      BY <2>6
    <3> HIDE DEF Below
    <3>3. CASE k \in P /\ f[m] <= f[k]
      BY <3>1, <3>2, <3>3, <2>3, <2>6, <1>1
    <3>4. CASE ~ (k \in P /\ f[m] <= f[k])
      BY <3>1, <3>2, <3>4, <2>3, <2>6, <1>1
    <3> QED BY <3>3, <3>4
  <2> QED BY <2>7, <2>8
<1>3. \A r \in P : r <= N
  OBVIOUS
<1>4. Below(N) = P
  BY <1>3
<1> QED BY <1>2, <1>4

\* get_max_decided_idx returns what some promise tells, or 0.
LEMMA MaxDecidedIdxIsPromised ==
  ASSUME NEW l \in LeaderStates
  PROVE  get_max_decided_idx(l) \in promised_decided_idxs(l) \cup {0}
<1> DEFINE P == {r \in Slots : is_promised(l, r)}
           f == [r \in P |-> l.promises_meta[r].meta.decided_idx]
           idxs == promised_decided_idxs(l)
<1>1. \A r \in Slots : l.promises_meta[r].meta.decided_idx \in Nat
  BY DEF LeaderStates, PromiseState, PromiseMetaData
<1>2. MaxPid \in Nat /\ P \in SUBSET (1 .. MaxPid)
  BY ServerAssumption DEF Slots
<1>3. f \in [P -> Nat] /\ idxs = {f[r] : r \in P}
  BY <1>1 DEF promised_decided_idxs
<1> HIDE DEF P, f
<1>4. P # {} => \E r \in P : \A s \in P : f[s] <= f[r]
  BY <1>2, <1>3, MaximumExists
<1> HIDE DEF idxs
<1>5. idxs # {} => \E i \in idxs : \A j \in idxs : j <= i
  BY <1>3, <1>4
<1> DEFINE largest == CHOOSE i \in idxs : \A j \in idxs : j <= i
<1>6. idxs # {} => largest \in idxs
  BY <1>5, Zenon
<1>8. get_max_decided_idx(l) = IF idxs = {} THEN 0 ELSE largest
  BY Zenon DEF get_max_decided_idx, idxs
<1> HIDE DEF largest
<1>9. get_max_decided_idx(l) \in idxs \cup {0}
  BY <1>6, <1>8
<1> QED BY <1>9 DEF idxs

\* get_max_decided_idx returns an index.
LEMMA MaxDecidedIdxType ==
  ASSUME NEW l \in LeaderStates
  PROVE  get_max_decided_idx(l) \in Nat
<1>1. \A r \in Slots : l.promises_meta[r].meta.decided_idx \in Nat
  BY DEF LeaderStates, PromiseState, PromiseMetaData
<1>2. \A x \in promised_decided_idxs(l) \cup {0} : x \in Nat
  BY <1>1 DEF promised_decided_idxs
<1> QED BY <1>2, MaxDecidedIdxIsPromised

------------------------------------------------------------------------------
(* The invariant *)

\* What p may send to q when its storage is s.
Sendable(p, s, q) ==
  {m \in Message :
     /\ m.type \in AcceptTypes =>
          /\ m.n.pid \in Server
          /\ \/ m.type \in Broadcast
             \/ m.n \preceq (IF q = p THEN s.promise ELSE storage[q].promise)
     /\ m.type = "Promise" => m.n \preceq s.promise}

\* Every storage is well formed and has accepted in a promised round only.
StorageInv ==
  \A p \in Server :
    /\ StorageOK(storage[p])
    /\ storage[p].accepted_round \preceq storage[p].promise

\* A leader leads the round it promised, and who accepts or leads has promised
\* to a server.
RoleOK(st, s, l) ==
  /\ st[1] = "Leader" => l.n_leader = s.promise
  /\ st[1] = "Leader" \/ st[2] = "Accept" => s.promise.pid \in Server

RoleInv ==
  \A p \in Server : p \notin panicked => RoleOK(state[p], storage[p], leader_state[p])

\* Who counts as promised has promised, in a round of some server.
PromiseInv ==
  \A p, q \in Server :
    is_promised(leader_state[p], q) =>
      /\ leader_state[p].n_leader.pid \in Server
      /\ leader_state[p].n_leader \preceq storage[q].promise

\* The Promise kept to be sent again is one that p gave.
CachedInv ==
  \A p \in Server :
    LET cached == follower_state[p].cached_promise_message
    IN  cached # None => cached.n \preceq storage[p].promise

\* Every message on its way is one that its sender may send.
ChannelInv ==
  \A p, q \in Server :
    /\ outgoing[p][q] \in Seq(Sendable(p, storage[p], q))
    /\ net[p][q] \in Seq(Sendable(p, storage[p], q))

\* The inductive invariant.
Inv == TypeOK /\ StorageInv /\ RoleInv /\ PromiseInv /\ CachedInv /\ ChannelInv

States == {"Leader", "Follower"} \X {"Prepare", "Accept", "Recover", "None"}

------------------------------------------------------------------------------
(* Messages *)

\* The fields of a message, by its type.
LEMMA MessageFields ==
  ASSUME NEW m \in Message
  PROVE  /\ m.type \in {"PrepareReq", "NotAccepted", "Prepare", "Promise", "Accepted"} \cup AcceptTypes
              => m.n \in Ballot
         /\ m.type \in AcceptTypes => m.type = "AcceptStopSign" \/ m.decided_idx \in Nat
         /\ m.type \in AcceptTypes => m.seq_num \in SequenceNumber
         /\ m.type = "AcceptSync" => m.log_sync \in LogSync
         /\ m.type = "AcceptDecide" => m.entries \in Entries
         /\ m.type = "AcceptStopSign" => m.ss \in StopSign
         /\ m.type = "Prepare" => /\ m.decided_idx \in Nat /\ m.accepted_idx \in Nat
                                  /\ m.n_accepted \in Ballot
         /\ m.type = "Promise" => m \in PromiseMessage
         /\ m.type = "Accepted" => m.accepted_idx \in Nat
         /\ m.type = "ProposalForward" => m.entries \in Entries
         /\ m.type = "ForwardStopSign" => m.ss \in StopSign
         /\ m.type = "Compaction" => \/ m.kind = "Trim" /\ m.idx \in Nat
                                     \/ m.kind = "Snapshot" /\ m.idx \in Nat \cup {None}
BY DEF Message, PromiseMessage, AcceptTypes

------------------------------------------------------------------------------
(* One call of the program at server p, which leaves p with the storage s, *)
(* the bookkeeping l and f, the state st and the outgoing messages out.    *)

OutOK(p, s, out) ==
  /\ out = [q \in Server |-> out[q]]
  /\ \A q \in Server : out[q] \in Seq(Sendable(p, s, q))

ChanOK(chan) ==
  /\ chan \in [Server -> [Server -> Seq(Message)]]
  /\ \A p, q \in Server : chan[p][q] \in Seq(Sendable(p, storage[p], q))

PromisesOK(p, s, l) ==
  \A q \in Server :
    is_promised(l, q) =>
      /\ l.n_leader.pid \in Server
      /\ l.n_leader \preceq (IF q = p THEN s.promise ELSE storage[q].promise)

CachedOK(s, f) == f.cached_promise_message # None => f.cached_promise_message.n \preceq s.promise

\* The rounds of p move forward from storage[p] to s.
RoundsOK(p, s) ==
  /\ StorageOK(s)
  /\ storage[p].promise \preceq s.promise
  /\ storage[p].accepted_round \preceq s.accepted_round
  /\ s.accepted_round \preceq s.promise

\* What a server may send only grows when its promise does.
LEMMA SendableGrows ==
  ASSUME StorageInv, NEW p \in Server, NEW q \in Server, NEW s, RoundsOK(p, s)
  PROVE  Sendable(p, storage[p], q) \subseteq Sendable(p, s, q)
<1>1. storage[p].promise \in Ballot /\ s.promise \in Ballot
  BY DEF StorageInv, RoundsOK, StorageOK, Storage
<1> SUFFICES ASSUME NEW m \in Sendable(p, storage[p], q) PROVE m \in Sendable(p, s, q)
  OBVIOUS
<1>2. m \in Message
  BY DEF Sendable
<1>3. m.type \in AcceptTypes \cup {"Promise"} => m.n \in Ballot
  BY <1>2, MessageFields
<1>4. m.type = "Promise" => m.n \preceq s.promise
  BY <1>1, <1>3, BallotTransitive DEF Sendable, RoundsOK
<1>5. m.type \in AcceptTypes =>
        /\ m.n.pid \in Server
        /\ m.type \in Broadcast \/ m.n \preceq (IF q = p THEN s.promise ELSE storage[q].promise)
  <2>1. CASE q = p
    BY <2>1, <1>1, <1>3, BallotTransitive DEF Sendable, RoundsOK
  <2>2. CASE q # p
    BY <2>2 DEF Sendable
  <2> QED BY <2>1, <2>2
<1> QED BY <1>2, <1>4, <1>5 DEF Sendable

\* The messages p had not handed over are still ones it may send.
LEMMA OutgoingOK ==
  ASSUME Inv, NEW p \in Server, NEW s, RoundsOK(p, s)
  PROVE  OutOK(p, s, outgoing[p]) /\ OutOK(p, s, NoMessages)
<1>1. outgoing[p] = [q \in Server |-> outgoing[p][q]]
  BY DEF Inv, TypeOK
<1>2. \A q \in Server : outgoing[p][q] \in Seq(Sendable(p, s, q))
  BY SendableGrows, SeqMonotonic DEF Inv, ChannelInv
<1>3. NoMessages = [q \in Server |-> NoMessages[q]] /\ \A q \in Server : NoMessages[q] = << >>
  BY DEF NoMessages
<1>4. \A q \in Server : NoMessages[q] \in Seq(Sendable(p, s, q))
  BY <1>3, EmptySeq
<1> QED BY <1>1, <1>2, <1>3, <1>4 DEF OutOK

\* One more message for q.
LEMMA SendOK ==
  ASSUME NEW p \in Server, NEW s, NEW out, OutOK(p, s, out), NEW q, NEW m,
         q \in Server => m \in Sendable(p, s, q)
  PROVE  OutOK(p, s, send(out, q, m))
<1>1. send(out, q, m) = [r \in Server |-> IF r = q THEN Append(out[r], m) ELSE out[r]]
  BY DEF send, OutOK
<1>2. \A r \in Server : r = q => Append(out[r], m) \in Seq(Sendable(p, s, r))
  BY AppendProperties DEF OutOK
<1> QED BY <1>1, <1>2 DEF OutOK

\* One more message for each server in the domain of msgs.
LEMMA PushOK ==
  ASSUME NEW p \in Server, NEW s, NEW out, OutOK(p, s, out), NEW msgs,
         \A q \in Server : q \in DOMAIN msgs => msgs[q] \in Sendable(p, s, q)
  PROVE  OutOK(p, s, push(out, msgs))
<1>1. push(out, msgs) = [q \in Server |-> IF q \in DOMAIN msgs THEN Append(out[q], msgs[q]) ELSE out[q]]
  BY DEF push
<1>2. \A q \in Server : q \in DOMAIN msgs => Append(out[q], msgs[q]) \in Seq(Sendable(p, s, q))
  BY AppendProperties DEF OutOK
<1> QED BY <1>1, <1>2 DEF OutOK

\* The network, and the network without the message that is handled.
LEMMA ChannelsOK ==
  ASSUME Inv
  PROVE  /\ ChanOK(net)
         /\ \A p, q \in Server : net[q][p] # << >> => ChanOK(Consume(p, q))
<1>1. ChanOK(net)
  BY DEF ChanOK, Inv, TypeOK, ChannelInv
<1>2. ASSUME NEW p \in Server, NEW q \in Server, net[q][p] # << >>
      PROVE  ChanOK(Consume(p, q))
  <2> DEFINE t == Tail(net[q][p])
  <2>1. t \in Seq(Message) /\ t \in Seq(Sendable(q, storage[q], p))
    BY <1>1, <1>2, HeadTailProperties DEF ChanOK
  <2>2. Consume(p, q) = [net EXCEPT ![q][p] = t]
    BY DEF Consume
  <2> HIDE DEF t
  <2> QED BY SMTT(30), <1>1, <2>1, <2>2 DEF ChanOK
<1> QED BY <1>1, <1>2

\* The variables a call may leave in any state of their type.
RestOK ==
  /\ buffered_proposals \in [Server -> Entries]
  /\ buffered_stopsign \in [Server -> StopSign \cup {None}]
  /\ proposed \subseteq Proposals
  /\ budget \in [Bounded -> [Server -> Nat]]

\* The rounds of every server move forward in a step.
RoundsStep ==
  \A p \in Server :
    /\ storage[p].promise \preceq storage'[p].promise
    /\ storage[p].accepted_round \preceq storage'[p].accepted_round
    /\ storage'[p].accepted_round \preceq storage'[p].promise

\* The messages of p stay where they are, or enter the network.
Ends(p, out, chan) ==
  /\ net' \in {chan, Transmit(chan, p, out)}
  /\ outgoing' \in {outgoing, [outgoing EXCEPT ![p] = out], [outgoing EXCEPT ![p] = NoMessages]}

\* A step of p that ends as described preserves the invariant, and moves the
\* rounds of p forward only.
LEMMA StepPreservesInv ==
  ASSUME Inv, NEW p \in Server, NEW s, NEW l, NEW f, NEW st, NEW out, NEW chan,
         RoundsOK(p, s), l \in LeaderStates, PromisesOK(p, s, l),
         f \in FollowerState, CachedOK(s, f), st \in States,
         p \notin panicked' => RoleOK(st, s, l),
         OutOK(p, s, out), ChanOK(chan),
         storage' = [storage EXCEPT ![p] = s],
         leader_state' = [leader_state EXCEPT ![p] = l],
         follower_state' = [follower_state EXCEPT ![p] = f],
         state' = [state EXCEPT ![p] = st],
         panicked' \in SUBSET Server, panicked' \ {p} = panicked \ {p},
         Ends(p, out, chan),
         RestOK'
  PROVE  Inv' /\ RoundsStep
<1> USE DEF States
<1>1. s \in Storage /\ s.promise \in Ballot /\ \A q \in Server : storage[q].promise \in Ballot
  BY DEF RoundsOK, StorageOK, Storage, Inv, StorageInv
<1>2. \A q \in Server : storage'[q] = IF q = p THEN s ELSE storage[q]
  BY DEF Inv, TypeOK
<1>3. \A q \in Server : storage[q].promise \preceq storage'[q].promise /\ storage'[q].promise \in Ballot
  BY <1>1, <1>2, BallotReflexive DEF RoundsOK
<1>4. StorageInv'
  BY <1>2 DEF RoundsOK, Inv, StorageInv
<1>5. \A q \in Server : leader_state'[q] = IF q = p THEN l ELSE leader_state[q]
  BY DEF Inv, TypeOK
<1>6. \A q \in Server : state'[q] = IF q = p THEN st ELSE state[q]
  BY DEF Inv, TypeOK
<1>7. RoleInv'
  <2> SUFFICES ASSUME NEW q \in Server, q \notin panicked'
               PROVE  RoleOK(state'[q], storage'[q], leader_state'[q])
    BY DEF RoleInv
  <2>1. CASE q = p
    BY <2>1, <1>2, <1>5, <1>6
  <2>2. CASE q # p
    BY <2>2, <1>2, <1>5, <1>6 DEF Inv, RoleInv
  <2> QED BY <2>1, <2>2
<1>8. PromiseInv'
  <2> SUFFICES ASSUME NEW q \in Server, NEW r \in Server, is_promised(leader_state'[q], r)
               PROVE  /\ leader_state'[q].n_leader.pid \in Server
                      /\ leader_state'[q].n_leader \preceq storage'[r].promise
    BY DEF PromiseInv
  <2>1. CASE q = p
    BY <2>1, <1>2, <1>5 DEF PromisesOK
  <2>2. CASE q # p
    <3>1. leader_state'[q] = leader_state[q] /\ leader_state[q].n_leader \in Ballot
      BY <2>2, <1>5 DEF Inv, TypeOK, LeaderStates
    <3>2. leader_state[q].n_leader \preceq storage[r].promise /\ leader_state[q].n_leader.pid \in Server
      BY <3>1 DEF Inv, PromiseInv
    <3> QED BY <3>1, <3>2, <1>1, <1>3, BallotTransitive
  <2> QED BY <2>1, <2>2
<1>9. CachedInv'
  <2> SUFFICES ASSUME NEW q \in Server, follower_state'[q].cached_promise_message # None
               PROVE  follower_state'[q].cached_promise_message.n \preceq storage'[q].promise
    BY DEF CachedInv
  <2>1. CASE q = p
    BY <2>1, <1>2 DEF CachedOK, Inv, TypeOK
  <2>2. CASE q # p
    BY <2>2, <1>2 DEF Inv, TypeOK, CachedInv
  <2> QED BY <2>1, <2>2
<1>10. \A q, r \in Server : Sendable(q, storage[q], r) \subseteq Sendable(q, storage[q], r)'
  <2> SUFFICES ASSUME NEW q \in Server, NEW r \in Server, NEW m \in Sendable(q, storage[q], r)
               PROVE  m \in Sendable(q, storage[q], r)'
    OBVIOUS
  <2>1. m \in Message /\ (m.type \in AcceptTypes \cup {"Promise"} => m.n \in Ballot)
    BY MessageFields DEF Sendable
  <2>2. m.type = "Promise" => m.n \preceq storage'[q].promise
    BY <2>1, <1>1, <1>3, BallotTransitive DEF Sendable
  <2>3. m.type \in AcceptTypes =>
          m.n.pid \in Server /\ (m.type \in Broadcast \/ m.n \preceq storage'[r].promise)
    BY <2>1, <1>1, <1>3, BallotTransitive DEF Sendable
  <2>4. m.type \in AcceptTypes =>
          /\ m.n.pid \in Server
          /\ \/ m.type \in Broadcast
             \/ m.n \preceq (IF r = q THEN storage'[q].promise ELSE storage'[r].promise)
    BY <2>3
  <2> QED BY <2>1, <2>2, <2>4 DEF Sendable
<1>11. \A r \in Server : Sendable(p, s, r) \subseteq Sendable(p, storage[p], r)'
  BY <1>2 DEF Sendable
<1>12. \A q, r \in Server : Sendable(q, storage[q], r)' \subseteq Message
  BY DEF Sendable
<1>13. \A r \in Server : out[r] \in Seq(Sendable(p, storage[p], r)')
  BY <1>11, SeqMonotonic DEF OutOK
<1>14. \A q, r \in Server : /\ chan[q][r] \in Seq(Sendable(q, storage[q], r)')
                           /\ outgoing[q][r] \in Seq(Sendable(q, storage[q], r)')
  BY <1>10, SeqMonotonic DEF ChanOK, Inv, ChannelInv
<1>15. \A r \in Server : chan[p][r] \o out[r] \in Seq(Sendable(p, storage[p], r)')
  BY <1>13, <1>14, ConcatProperties
<1> DEFINE Good(q, r) == Sendable(q, storage[q], r)'
<1>16. /\ net' \in [Server -> [Server -> Seq(Message)]]
       /\ outgoing' \in [Server -> [Server -> Seq(Message)]]
       /\ \A q, r \in Server : net'[q][r] \in Seq(Good(q, r)) /\ outgoing'[q][r] \in Seq(Good(q, r))
  <2> HIDE DEF Good
  <2>1. /\ \A r \in Server : out[r] \in Seq(Good(p, r)) /\ chan[p][r] \o out[r] \in Seq(Good(p, r))
        /\ \A q, r \in Server : chan[q][r] \in Seq(Good(q, r)) /\ outgoing[q][r] \in Seq(Good(q, r))
    BY <1>13, <1>14, <1>15 DEF Good
  <2>2. \A r \in Server : out[r] \in Seq(Message) /\ chan[p][r] \o out[r] \in Seq(Message)
    BY <2>1, <1>12, SeqMonotonic DEF Good
  <2>3. net' \in [Server -> [Server -> Seq(Message)]] /\ \A q, r \in Server : net'[q][r] \in Seq(Good(q, r))
    <3>1. CASE net' = chan
      BY <3>1, <2>1 DEF ChanOK
    <3>2. CASE net' = Transmit(chan, p, out)
      <4>1. net' = [chan EXCEPT ![p] = [q \in Server |->
                      IF << p, q >> \in Links THEN chan[p][q] \o out[q] ELSE chan[p][q]]]
        BY <3>2 DEF Transmit, ChanOK
      <4>2. net' \in [Server -> [Server -> Seq(Message)]]
        BY <4>1, <2>2 DEF ChanOK
      <4>3. \A q, r \in Server :
              net'[q][r] \in {chan[q][r]} \cup (IF q = p THEN {chan[p][r] \o out[r]} ELSE {})
        BY <4>1 DEF ChanOK
      <4> QED BY <4>2, <4>3, <2>1
    <3> QED BY <3>1, <3>2 DEF Ends
  <2>4. /\ outgoing' \in [Server -> [Server -> Seq(Message)]]
        /\ \A q, r \in Server : outgoing'[q][r] \in Seq(Good(q, r))
    <3>1. out \in [Server -> Seq(Message)] /\ outgoing \in [Server -> [Server -> Seq(Message)]]
      BY <2>2 DEF OutOK, Inv, TypeOK
    <3>2. NoMessages \in [Server -> Seq(Message)] /\ \A r \in Server : \A S : NoMessages[r] \in Seq(S)
      BY EmptySeq DEF NoMessages
    <3>3. CASE outgoing' = outgoing
      BY <3>1, <3>3, <2>1
    <3>4. CASE outgoing' = [outgoing EXCEPT ![p] = out]
      BY <3>1, <3>4, <2>1
    <3>5. CASE outgoing' = [outgoing EXCEPT ![p] = NoMessages]
      BY <3>1, <3>2, <3>5, <2>1
    <3> QED BY <3>3, <3>4, <3>5 DEF Ends
  <2> QED BY <2>3, <2>4
<1>17. ChannelInv'
  BY <1>16 DEF ChannelInv
<1>18. TypeOK'
  BY <1>1, <1>16 DEF Inv, TypeOK, RestOK
<1>19. RoundsStep
  BY <1>2, BallotReflexive DEF RoundsStep, RoundsOK, Inv, StorageInv
<1> QED BY <1>4, <1>7, <1>8, <1>9, <1>17, <1>18, <1>19 DEF Inv

\* The same for a call of the program.
LEMMA CallPreservesInv ==
  ASSUME Inv, NEW p \in Server, NEW s, NEW l, NEW f, NEW st, NEW out, NEW chan,
         RoundsOK(p, s), l \in LeaderStates, PromisesOK(p, s, l),
         f \in FollowerState, CachedOK(s, f), st \in States,
         p \notin panicked => RoleOK(st, s, l),
         OutOK(p, s, out), ChanOK(chan),
         storage' = [storage EXCEPT ![p] = s],
         leader_state' = [leader_state EXCEPT ![p] = l],
         follower_state' = [follower_state EXCEPT ![p] = f],
         state' = [state EXCEPT ![p] = st],
         panicked' = panicked, EndCall(p, out, chan), RestOK'
  PROVE  Inv' /\ RoundsStep
<1>1. Ends(p, out, chan)
  BY DEF EndCall, Ends
<1>2. panicked' \in SUBSET Server /\ panicked' \ {p} = panicked \ {p}
  BY DEF Inv, TypeOK
<1> QED BY <1>1, <1>2, StepPreservesInv

\* What p keeps as it is needs no further argument.
LEMMA KeptOK ==
  ASSUME Inv, NEW p \in Server
  PROVE  /\ RoundsOK(p, storage[p])
         /\ leader_state[p] \in LeaderStates /\ follower_state[p] \in FollowerState
         /\ state[p] \in States
         /\ storage = [storage EXCEPT ![p] = storage[p]]
         /\ leader_state = [leader_state EXCEPT ![p] = leader_state[p]]
         /\ follower_state = [follower_state EXCEPT ![p] = follower_state[p]]
         /\ state = [state EXCEPT ![p] = state[p]]
         /\ panicked \in SUBSET Server
         /\ RestOK
<1>1. TypeOK
  BY DEF Inv
<1>2. RoundsOK(p, storage[p])
  BY BallotReflexive DEF RoundsOK, Inv, StorageInv
<1>3. leader_state[p] \in LeaderStates /\ follower_state[p] \in FollowerState /\ state[p] \in States
  BY <1>1 DEF TypeOK, States
<1>4. storage = [storage EXCEPT ![p] = storage[p]]
  BY <1>1 DEF TypeOK
<1>5. leader_state = [leader_state EXCEPT ![p] = leader_state[p]]
  BY <1>1 DEF TypeOK
<1>6. follower_state = [follower_state EXCEPT ![p] = follower_state[p]]
  BY <1>1 DEF TypeOK
<1>7. state = [state EXCEPT ![p] = state[p]]
  BY <1>1 DEF TypeOK
<1>8. panicked \in SUBSET Server /\ RestOK
  BY <1>1 DEF TypeOK, RestOK
<1> QED BY <1>2, <1>3, <1>4, <1>5, <1>6, <1>7, <1>8

\* A storage with the rounds of p moves nothing back.
LEMMA StoredOK ==
  ASSUME Inv, NEW p \in Server, NEW s, StorageOK(s), SameRounds(storage[p], s)
  PROVE  RoundsOK(p, s)
BY BallotReflexive DEF RoundsOK, SameRounds, Inv, StorageInv

\* The promises p counts, and the one it keeps, stay valid.
LEMMA KeptPromisesOK ==
  ASSUME Inv, NEW p \in Server, NEW s, RoundsOK(p, s)
  PROVE  PromisesOK(p, s, leader_state[p]) /\ CachedOK(s, follower_state[p])
<1>1. /\ storage[p].promise \in Ballot /\ s.promise \in Ballot
      /\ leader_state[p].n_leader \in Ballot
      /\ follower_state[p].cached_promise_message # None =>
           follower_state[p].cached_promise_message.n \in Ballot
  BY DEF RoundsOK, StorageOK, Storage, Inv, StorageInv, TypeOK, LeaderStates, FollowerState, PromiseMessage
<1>2. PromisesOK(p, s, leader_state[p])
  <2> SUFFICES ASSUME NEW q \in Server, is_promised(leader_state[p], q)
               PROVE  /\ leader_state[p].n_leader.pid \in Server
                      /\ leader_state[p].n_leader \preceq (IF q = p THEN s.promise ELSE storage[q].promise)
    BY DEF PromisesOK
  <2>1. leader_state[p].n_leader.pid \in Server /\ leader_state[p].n_leader \preceq storage[q].promise
    BY DEF Inv, PromiseInv
  <2>2. CASE q = p
    BY <2>1, <2>2, <1>1, BallotTransitive DEF RoundsOK
  <2>3. CASE q # p
    BY <2>1, <2>3
  <2> QED BY <2>2, <2>3
<1>3. CachedOK(s, follower_state[p])
  BY <1>1, BallotTransitive DEF CachedOK, RoundsOK, Inv, CachedInv
<1> QED BY <1>2, <1>3

\* Bookkeeping that leaves the promises alone keeps them valid.
LEMMA SamePromisesOK ==
  ASSUME NEW p \in Server, NEW s, NEW l, NEW m, PromisesOK(p, s, l), SamePromises(l, m)
  PROVE  PromisesOK(p, s, m)
BY ServersHaveSlots DEF PromisesOK, SamePromises

\* Overwriting an element of a sequence, if the index is in it.
LEMMA OverwriteOK ==
  ASSUME NEW S, NEW seq \in Seq(S), NEW k, NEW e, k \in 1 .. Len(seq) => e \in S
  PROVE  [seq EXCEPT ![k] = e] \in Seq(S)
<1>1. CASE k \in 1 .. Len(seq)
  BY <1>1, ExceptSeq
<1>2. CASE k \notin 1 .. Len(seq)
  <2>1. DOMAIN seq = 1 .. Len(seq) /\ seq \in [1 .. Len(seq) -> S]
    BY LenProperties
  <2>2. [seq EXCEPT ![k] = e] = seq
    BY <2>1, <1>2
  <2> QED BY <2>2
<1> QED BY <1>1, <1>2

------------------------------------------------------------------------------
(* Accepting at the leader *)

\* send_acceptdecide sends to those who promised only, and what it extends was
\* sent to them before.
LEMMA AccdecOutgoingOK ==
  ASSUME NEW p \in Server, NEW s, NEW l \in LeaderStates, NEW out, NEW decided_idx \in Nat,
         NEW entries \in Entries, OutOK(p, s, out), PromisesOK(p, s, l)
  PROVE  OutOK(p, s, accdec_outgoing(l, out, decided_idx, entries))
<1> DEFINE k(q) == l.latest_accept_meta[q]
           ext(q) == extended(out[q][k(q)], decided_idx, entries)
           new(q) == AcceptDecide(l.n_leader, next_seq_num(l.follower_seq_nums[q]), decided_idx, entries)
<1>1. accdec_outgoing(l, out, decided_idx, entries) =
        [q \in Server |->
           IF q \notin get_promised_followers(l)
             THEN out[q]
             ELSE IF has_latest_accdec(l, out, q)
                    THEN [out[q] EXCEPT ![k(q)] = ext(q)]
                    ELSE Append(out[q], new(q))]
  BY DEF accdec_outgoing
<1>2. ASSUME NEW q \in Server, has_latest_accdec(l, out, q)
      PROVE  [out[q] EXCEPT ![k(q)] = ext(q)] \in Seq(Sendable(p, s, q))
  <2>1. ASSUME k(q) \in 1 .. Len(out[q])
        PROVE  ext(q) \in Sendable(p, s, q)
    <3> DEFINE e == out[q][k(q)]
    <3>1. e \in Sendable(p, s, q)
      BY <2>1, ElementOfSeq DEF OutOK
    <3>2. e.type = "AcceptDecide"
      BY <1>2 DEF has_latest_accdec
    <3>3. e \in [type : {"AcceptDecide"}, n : Ballot, seq_num : SequenceNumber,
                 decided_idx : Nat, entries : Entries]
      BY <3>1, <3>2 DEF Sendable, Message, PromiseMessage
    <3> HIDE DEF e
    <3>4. e.entries \o entries \in Entries
      BY <3>3, ConcatProperties DEF Entries
    <3> DEFINE x == extended(e, decided_idx, entries)
    <3>5. x \in [type : {"AcceptDecide"}, n : Ballot, seq_num : SequenceNumber,
                 decided_idx : Nat, entries : Entries]
          /\ x.type = e.type /\ x.n = e.n
      BY <3>3, <3>4 DEF extended
    <3>6. x \in Message
      BY <3>5 DEF Message
    <3> HIDE DEF x
    <3>7. x \in Sendable(p, s, q)
      BY <3>1, <3>2, <3>5, <3>6 DEF Sendable
    <3> QED BY <3>7 DEF x, e
  <2> QED BY <2>1, OverwriteOK DEF OutOK
<1>3. ASSUME NEW q \in Server, q \in get_promised_followers(l)
      PROVE  Append(out[q], new(q)) \in Seq(Sendable(p, s, q))
  <2>1. q \in Slots /\ is_promised(l, q)
    BY <1>3 DEF get_promised_followers
  <2>2. l.n_leader \in Ballot /\ next_seq_num(l.follower_seq_nums[q]) \in SequenceNumber
    BY <2>1, SequenceNumberType DEF LeaderStates
  <2>3. new(q) \in Message /\ new(q).n = l.n_leader /\ new(q).type = "AcceptDecide"
    BY <2>2 DEF AcceptDecide, Message
  <2> HIDE DEF new
  <2>4. new(q) \in Sendable(p, s, q)
    BY <2>1, <2>3 DEF PromisesOK, Sendable
  <2> QED BY <2>4, AppendProperties DEF OutOK
<1> HIDE DEF k, ext, new
<1> QED BY <1>1, <1>2, <1>3 DEF OutOK

\* The bookkeeping of send_acceptdecide.
LEMMA AccdecLeaderStateOK ==
  ASSUME NEW l \in LeaderStates, NEW p, NEW s, NEW out, OutOK(p, s, out)
  PROVE  accdec_leader_state(l, out) \in LeaderStates /\ SamePromises(l, accdec_leader_state(l, out))
<1> DEFINE new == {q \in get_promised_followers(l) \cap Server : ~ has_latest_accdec(l, out, q)}
           sns == [r \in Slots |-> IF r \in new THEN next_seq_num(l.follower_seq_nums[r])
                                                ELSE l.follower_seq_nums[r]]
           metas == [r \in Slots |-> IF r \in new THEN cached_idx(out, r) ELSE l.latest_accept_meta[r]]
<1>1. sns \in [Slots -> SequenceNumber]
  BY SequenceNumberType DEF LeaderStates
<1>2. ASSUME NEW r \in new PROVE cached_idx(out, r) \in Nat
  <2>1. out[r] \in Seq(Sendable(p, s, r))
    BY DEF OutOK
  <2>2. Len(out[r]) \in Nat
    BY <2>1, LenProperties
  <2> QED BY <2>2 DEF cached_idx
<1>3. metas \in [Slots -> Nat]
  BY <1>2 DEF LeaderStates
<1>4. accdec_leader_state(l, out) = [l EXCEPT !.follower_seq_nums = sns, !.latest_accept_meta = metas]
  BY DEF accdec_leader_state
<1> HIDE DEF sns, metas
<1> QED BY <1>1, <1>3, <1>4 DEF LeaderStates, SamePromises, is_promised

\* The message p handles next is one that q may have sent.
LEMMA IncomingMessage ==
  ASSUME Inv, NEW p \in Server, NEW q \in Server, net[q][p] # << >>
  PROVE  /\ Head(net[q][p]) \in Sendable(q, storage[q], p)
         /\ Head(net[q][p]) \in Message
<1>1. Head(net[q][p]) \in Sendable(q, storage[q], p)
  BY HeadTailProperties DEF Inv, ChannelInv
<1> QED BY <1>1 DEF Sendable

\* accept_entries_leader and flush_batch_leader, from the storage on.
LEMMA AcceptsOK ==
  ASSUME Inv, NEW p \in Server, NEW s, StorageOK(s), SameRounds(storage[p], s),
         NEW entries \in Entries, NEW chan, ChanOK(chan), accepts(p, s, entries, chan),
         UNCHANGED << state, follower_state, panicked >>, RestOK'
  PROVE  Inv' /\ RoundsStep
<1> DEFINE l1 == set_accepted_idx(leader_state[p], p, s.accepted_idx)
           l2 == accdec_leader_state(l1, outgoing[p])
           out == accdec_outgoing(l1, outgoing[p], s.decided_idx, entries)
<1>1. RoundsOK(p, s) /\ s.decided_idx \in Nat /\ s.accepted_idx \in Nat
  BY StoredOK DEF StorageOK, Storage
<1>2. OutOK(p, s, outgoing[p])
  BY <1>1, OutgoingOK
<1>3. PromisesOK(p, s, leader_state[p]) /\ CachedOK(s, follower_state[p])
  BY <1>1, KeptPromisesOK
<1>4. l1 \in LeaderStates /\ SamePromises(leader_state[p], l1)
  BY <1>1, KeptOK, ServersHaveSlots, SetAcceptedIdxOK
<1>5. /\ storage' = [storage EXCEPT ![p] = s]
      /\ leader_state' = [leader_state EXCEPT ![p] = l2]
      /\ EndCall(p, out, chan)
  BY DEF accepts
<1> HIDE DEF l1
<1>6. l2 \in LeaderStates /\ SamePromises(l1, l2)
  BY <1>2, <1>4, AccdecLeaderStateOK
<1>7. PromisesOK(p, s, l1)
  BY <1>3, <1>4, SamePromisesOK
<1>8. OutOK(p, s, out)
  BY <1>1, <1>2, <1>4, <1>7, AccdecOutgoingOK
<1> HIDE DEF l2, out
<1>9. PromisesOK(p, s, l2)
  BY <1>6, <1>7, SamePromisesOK
<1>10. p \notin panicked => RoleOK(state[p], s, l2)
  BY <1>4, <1>6 DEF SamePromises, SameRounds, Inv, RoleInv, RoleOK
<1> QED BY <1>1, <1>3, <1>5, <1>6, <1>8, <1>9, <1>10, KeptOK, CallPreservesInv

\* A call that only stores something and sends something.
LEMMA StoresOK ==
  ASSUME Inv, NEW p \in Server, NEW s, StorageOK(s), SameRounds(storage[p], s),
         NEW out, OutOK(p, s, out), NEW chan, ChanOK(chan),
         storage' = [storage EXCEPT ![p] = s], EndCall(p, out, chan),
         UNCHANGED << state, leader_state, follower_state, panicked >>, RestOK'
  PROVE  Inv' /\ RoundsStep
<1>1. RoundsOK(p, s)
  BY StoredOK
<1>2. PromisesOK(p, s, leader_state[p]) /\ CachedOK(s, follower_state[p])
  BY <1>1, KeptPromisesOK
<1>3. p \notin panicked => RoleOK(state[p], s, leader_state[p])
  BY DEF SameRounds, Inv, RoleInv, RoleOK
<1> QED BY <1>1, <1>2, <1>3, KeptOK, CallPreservesInv

------------------------------------------------------------------------------
(* Proposals *)

\* ForwardStopSign and ProposalForward may always be sent.
LEMMA ForwardSendable ==
  ASSUME NEW p, NEW s, NEW q, NEW entries \in Entries, NEW ss \in StopSign
  PROVE  ProposalForward(entries) \in Sendable(p, s, q) /\ ForwardStopSign(ss) \in Sendable(p, s, q)
BY DEF ProposalForward, ForwardStopSign, Sendable, Message, AcceptTypes

\* forward_proposals sends to the leader that p promised.
LEMMA ForwardOutgoingOK ==
  ASSUME Inv, NEW p \in Server, NEW s, NEW out, OutOK(p, s, out), NEW entries \in Entries
  PROVE  OutOK(p, s, forward_proposals_outgoing(p, out, entries))
<1>1. ProposalForward(entries) \in Message /\ ProposalForward(entries).type = "ProposalForward"
  BY DEF ProposalForward, Message
<1>2. \A q : ProposalForward(entries) \in Sendable(p, s, q)
  BY <1>1 DEF Sendable, AcceptTypes
<1>3. OutOK(p, s, send(out, get_current_leader(p), ProposalForward(entries)))
  BY <1>2, SendOK
<1> QED BY <1>3 DEF forward_proposals_outgoing

\* propose_entry and handle_forwarded_proposal.
LEMMA ProposeEntriesOK ==
  ASSUME Inv, NEW p \in Server, NEW entries \in Entries, NEW chan, ChanOK(chan),
         propose_entries(p, entries, chan),
         UNCHANGED << state, follower_state, buffered_stopsign, panicked >>,
         proposed' \subseteq Proposals, budget' = budget
  PROVE  Inv' /\ RoundsStep
<1> DEFINE s == append_entries_with_batching(storage[p], entries)
<1>1. StorageOK(storage[p]) /\ RestOK
  BY KeptOK DEF RoundsOK
<1>2. RestOK'
  <2>1. buffered_proposals' \in [Server -> Entries]
    <3>1. buffered_proposals[p] \o entries \in Entries
      BY <1>1, ConcatProperties DEF RestOK, Entries
    <3>2. buffered_proposals' \in {buffered_proposals, [buffered_proposals EXCEPT ![p] = @ \o entries]}
      BY DEF propose_entries
    <3> QED BY <3>1, <3>2, <1>1 DEF RestOK
  <2> QED BY <2>1, <1>1 DEF RestOK
<1>3. CASE state[p] = << "Leader", "Accept" >>
  <2>1. accept_entries_leader(p, entries, chan)
    BY <1>3 DEF propose_entries
  <2>2. StorageOK(s) /\ SameRounds(storage[p], s)
    BY <1>1, AppendWithBatchingOK
  <2>3. CASE fills_batch(storage[p], entries)
    <3>1. accepts(p, s, storage[p].batched_entries \o entries, chan)
      BY <2>1, <2>3 DEF accept_entries_leader
    <3>2. storage[p].batched_entries \o entries \in Entries
      BY <1>1, ConcatProperties DEF StorageOK, Storage, Entries
    <3> QED BY <3>1, <3>2, <2>2, <1>2, AcceptsOK
  <2>4. CASE ~ fills_batch(storage[p], entries)
    <3>1. /\ storage' = [storage EXCEPT ![p] = s]
          /\ EndCall(p, outgoing[p], chan)
          /\ leader_state' = leader_state
      BY <2>1, <2>4 DEF accept_entries_leader
    <3> HIDE DEF s
    <3>2. OutOK(p, s, outgoing[p])
      BY <2>2, StoredOK, OutgoingOK
    <3> QED BY <3>1, <3>2, <2>2, <1>2, StoresOK
  <2> QED BY <2>3, <2>4
<1>4. CASE state[p] # << "Leader", "Accept" >>
  <2> DEFINE out == IF state[p] = << "Leader", "Prepare" >>
                      THEN outgoing[p]
                      ELSE forward_proposals_outgoing(p, outgoing[p], entries)
  <2>1. EndCall(p, out, chan) /\ UNCHANGED << storage, leader_state >>
    BY <1>4 DEF propose_entries
  <2>2. OutOK(p, storage[p], outgoing[p])
    BY KeptOK, OutgoingOK
  <2>3. OutOK(p, storage[p], out)
    BY <2>2, ForwardOutgoingOK
  <2> HIDE DEF out
  <2>4. storage' = [storage EXCEPT ![p] = storage[p]] /\ SameRounds(storage[p], storage[p])
    BY <2>1, KeptOK DEF SameRounds
  <2> QED BY <2>1, <2>3, <2>4, <1>1, <1>2, StoresOK
<1> QED BY <1>3, <1>4

\* A leader may send a message of its Accept phase to who promised.
LEMMA AcceptSendable ==
  ASSUME NEW p \in Server, NEW s, NEW l, PromisesOK(p, s, l), NEW q \in Server, is_promised(l, q),
         NEW m \in Message, m.type \in AcceptTypes, m.n = l.n_leader
  PROVE  m \in Sendable(p, s, q)
BY DEF Sendable, PromisesOK, AcceptTypes

\* A message that is neither a promise nor of the Accept phase may always be sent.
LEMMA PlainSendable ==
  ASSUME NEW p, NEW s, NEW q, NEW m \in Message, m.type \notin AcceptTypes, m.type # "Promise"
  PROVE  m \in Sendable(p, s, q)
BY DEF Sendable

\* New sequence numbers are no promises.
LEMMA SequenceNumbersOK ==
  ASSUME NEW l \in LeaderStates, NEW sns \in [Slots -> SequenceNumber]
  PROVE  LET m == [l EXCEPT !.follower_seq_nums = sns]
         IN  m \in LeaderStates /\ SamePromises(l, m) /\ m.follower_seq_nums = sns
BY DEF LeaderStates, SamePromises, is_promised

\* accept_stopsign_leader.
LEMMA AcceptStopSignOK ==
  ASSUME Inv, NEW p \in Server, NEW ss \in StopSign, NEW chan, ChanOK(chan),
         accept_stopsign_leader(p, ss, chan),
         UNCHANGED << state, follower_state, panicked >>, RestOK'
  PROVE  Inv' /\ RoundsStep
<1> DEFINE s == append_stopsign(storage[p], ss)
           l0 == leader_state[p]
           batched == storage[p].batched_entries
           l1 == IF batched = << >> THEN l0 ELSE accdec_leader_state(l0, outgoing[p])
           out1 == IF batched = << >> THEN outgoing[p]
                   ELSE accdec_outgoing(l0, outgoing[p], s.decided_idx, batched)
           Q == get_promised_followers(l1) \cap Server
           l2 == set_accepted_idx(l1, p, s.accepted_idx)
           sns == [r \in Slots |-> IF r \in Q THEN next_seq_num(l2.follower_seq_nums[r])
                                              ELSE l2.follower_seq_nums[r]]
           l3 == [l2 EXCEPT !.follower_seq_nums = sns]
           msgs == [q \in Q |-> AcceptStopSign(l3.n_leader, l3.follower_seq_nums[q], ss)]
<1>1. /\ storage' = [storage EXCEPT ![p] = s]
      /\ leader_state' = [leader_state EXCEPT ![p] = l3]
      /\ EndCall(p, push(out1, msgs), chan)
  BY DEF accept_stopsign_leader
<1>2. StorageOK(s) /\ SameRounds(storage[p], s) /\ batched \in Entries
  BY KeptOK, AppendStopSignOK DEF RoundsOK, StorageOK, Storage
<1> HIDE DEF s
<1>3. RoundsOK(p, s) /\ s.decided_idx \in Nat /\ s.accepted_idx \in Nat
  BY <1>2, StoredOK DEF StorageOK, Storage
<1>4. OutOK(p, s, outgoing[p]) /\ PromisesOK(p, s, l0) /\ CachedOK(s, follower_state[p])
  BY <1>3, OutgoingOK, KeptPromisesOK
<1>5. l0 \in LeaderStates
  BY KeptOK
<1>6. l1 \in LeaderStates /\ SamePromises(l0, l1)
  BY <1>4, <1>5, AccdecLeaderStateOK DEF SamePromises
<1>7. OutOK(p, s, out1)
  BY <1>2, <1>3, <1>4, <1>5, AccdecOutgoingOK
<1> HIDE DEF l0, l1, out1, batched
<1>8. l2 \in LeaderStates /\ SamePromises(l1, l2)
  BY <1>3, <1>6, ServersHaveSlots, SetAcceptedIdxOK
<1> HIDE DEF l2
<1>9. sns \in [Slots -> SequenceNumber]
  BY <1>8, SequenceNumberType DEF LeaderStates
<1>10. l3 \in LeaderStates /\ SamePromises(l2, l3) /\ l3.follower_seq_nums = sns
  BY <1>8, <1>9, SequenceNumbersOK
<1> HIDE DEF l3, sns
<1>11. PromisesOK(p, s, l3) /\ l3.n_leader = l0.n_leader
  BY <1>4, <1>6, <1>8, <1>10, SamePromisesOK DEF SamePromises
<1>12. ASSUME NEW q \in Server, q \in DOMAIN msgs
       PROVE  msgs[q] \in Sendable(p, s, q)
  <2>1. q \in Slots /\ is_promised(l1, q) /\ msgs[q] = AcceptStopSign(l3.n_leader, l3.follower_seq_nums[q], ss)
    BY <1>12 DEF get_promised_followers
  <2>2. is_promised(l3, q)
    BY <2>1, <1>8, <1>10 DEF SamePromises
  <2>3. l3.n_leader \in Ballot /\ l3.follower_seq_nums[q] \in SequenceNumber
    BY <2>1, <1>10 DEF LeaderStates
  <2>4. msgs[q] \in Message /\ msgs[q].type = "AcceptStopSign" /\ msgs[q].n = l3.n_leader
    BY <2>1, <2>3 DEF AcceptStopSign, Message
  <2> HIDE DEF msgs
  <2> QED BY <2>2, <2>4, <1>11, AcceptSendable DEF AcceptTypes
<1>13. OutOK(p, s, push(out1, msgs))
  BY <1>7, <1>12, PushOK
<1>14. p \notin panicked => RoleOK(state[p], s, l3)
  BY <1>2, <1>11 DEF SameRounds, Inv, RoleInv, RoleOK, l0
<1> HIDE DEF msgs
<1> QED BY <1>1, <1>3, <1>4, <1>10, <1>11, <1>13, <1>14, KeptOK, CallPreservesInv

\* reconfigure and handle_forwarded_stopsign.
LEMMA ProposeStopSignOK ==
  ASSUME Inv, NEW p \in Server, NEW ss \in StopSign, NEW chan, ChanOK(chan),
         propose_stopsign(p, ss, chan),
         UNCHANGED << state, follower_state, buffered_proposals, panicked >>,
         proposed' \subseteq Proposals, budget' = budget
  PROVE  Inv' /\ RoundsStep
<1>1. RestOK /\ StorageOK(storage[p])
  BY KeptOK DEF RoundsOK
<1>2. RestOK'
  <2>1. buffered_stopsign' \in {buffered_stopsign, [buffered_stopsign EXCEPT ![p] = ss]}
    BY DEF propose_stopsign
  <2> QED BY <2>1, <1>1 DEF RestOK
<1>3. CASE accept_stopsign_leader(p, ss, chan)
  BY <1>2, <1>3, AcceptStopSignOK
<1>4. CASE ~ accept_stopsign_leader(p, ss, chan)
  <2> DEFINE fwd == send(outgoing[p], get_current_leader(p), ForwardStopSign(ss))
  <2>1. PICK out \in {outgoing[p], fwd} :
          EndCall(p, out, chan) /\ UNCHANGED << storage, leader_state >>
    BY <1>4 DEF propose_stopsign
  <2>2. OutOK(p, storage[p], outgoing[p])
    BY KeptOK, OutgoingOK
  <2>3. \A q : ForwardStopSign(ss) \in Sendable(p, storage[p], q)
    BY EmptySeq, ForwardSendable DEF Entries
  <2>4. OutOK(p, storage[p], fwd)
    BY <2>2, <2>3, SendOK
  <2> HIDE DEF fwd
  <2>5. storage' = [storage EXCEPT ![p] = storage[p]] /\ SameRounds(storage[p], storage[p])
    BY <2>1, KeptOK DEF SameRounds
  <2> QED BY <2>1, <2>2, <2>4, <2>5, <1>1, <1>2, StoresOK
<1> QED BY <1>3, <1>4

\* append, reconfigure and the handlers of forwarded proposals.
LEMMA ProposalsOK ==
  ASSUME Inv, NEW p \in Server
  PROVE  /\ \A v \in Value : append(p, v) => Inv' /\ RoundsStep
         /\ \A ss \in StopSign : reconfigure(p, ss) => Inv' /\ RoundsStep
         /\ \A q \in Server :
              /\ UNCHANGED << proposed, budget >>
              /\ handle_forwarded_proposal(p, q) \/ handle_forwarded_stopsign(p, q)
              => Inv' /\ RoundsStep
<1>1. RestOK /\ ChanOK(net)
  BY KeptOK, ChannelsOK
<1>2. ASSUME NEW v \in Value, append(p, v) PROVE Inv' /\ RoundsStep
  <2>1. << v >> \in Entries
    BY DEF Entries
  <2>2. proposed' \subseteq Proposals
    BY <1>1, <1>2 DEF append, RestOK
  <2> QED BY <1>1, <1>2, <2>1, <2>2, ProposeEntriesOK DEF append
<1>3. ASSUME NEW ss \in StopSign, reconfigure(p, ss) PROVE Inv' /\ RoundsStep
  <2>1. proposed' \subseteq Proposals
    BY <1>1, <1>3 DEF reconfigure, RestOK
  <2> QED BY <1>1, <1>3, <2>1, ProposeStopSignOK DEF reconfigure
<1>4. ASSUME NEW q \in Server, UNCHANGED << proposed, budget >>, handle_forwarded_proposal(p, q)
      PROVE  Inv' /\ RoundsStep
  <2>1. net[q][p] # << >> /\ Head(net[q][p]).type = "ProposalForward"
    BY <1>4 DEF handle_forwarded_proposal, Incoming
  <2>2. Head(net[q][p]).entries \in Entries
    BY <2>1, IncomingMessage, MessageFields
  <2>3. ChanOK(Consume(p, q)) /\ proposed' \subseteq Proposals
    BY <2>1, <1>1, <1>4, ChannelsOK DEF RestOK
  <2> QED BY <1>4, <2>2, <2>3, ProposeEntriesOK DEF handle_forwarded_proposal
<1>5. ASSUME NEW q \in Server, UNCHANGED << proposed, budget >>, handle_forwarded_stopsign(p, q)
      PROVE  Inv' /\ RoundsStep
  <2>1. net[q][p] # << >> /\ Head(net[q][p]).type = "ForwardStopSign"
    BY <1>5 DEF handle_forwarded_stopsign, Incoming
  <2>2. Head(net[q][p]).ss \in StopSign
    BY <2>1, IncomingMessage, MessageFields
  <2>3. ChanOK(Consume(p, q)) /\ proposed' \subseteq Proposals
    BY <2>1, <1>1, <1>5, ChannelsOK DEF RestOK
  <2> QED BY <1>5, <2>2, <2>3, ProposeStopSignOK DEF handle_forwarded_stopsign
<1> QED BY <1>2, <1>3, <1>4, <1>5

------------------------------------------------------------------------------
(* The Prepare phase *)

\* A new promise moves the round of p forward.
LEMMA NewPromiseOK ==
  ASSUME Inv, NEW p \in Server, NEW n \in Ballot, storage[p].promise \preceq n
  PROVE  LET s == [flush_batch(storage[p]) EXCEPT !.promise = n]
         IN  RoundsOK(p, s) /\ s.promise = n /\ s \in Storage
<1> DEFINE f == flush_batch(storage[p])
           s == [f EXCEPT !.promise = n]
<1>1. StorageOK(storage[p]) /\ storage[p].accepted_round \preceq storage[p].promise
  BY DEF Inv, StorageInv
<1>2. StorageOK(f) /\ f.accepted_round = storage[p].accepted_round
  BY <1>1, FlushBatchOK DEF SameRounds
<1>3. storage[p].accepted_round \in Ballot /\ storage[p].promise \in Ballot
  BY <1>1 DEF StorageOK, Storage
<1> HIDE DEF f
<1>4. s \in Storage /\ s.promise = n /\ s.accepted_round = f.accepted_round
      /\ s.stopsign = f.stopsign /\ s.accepted_idx = f.accepted_idx
  BY <1>2 DEF StorageOK, Storage
<1> HIDE DEF s
<1>5. RoundsOK(p, s)
  BY <1>1, <1>2, <1>3, <1>4, BallotTransitive, BallotReflexive DEF RoundsOK, StorageOK
<1> QED BY <1>4, <1>5 DEF s, f

\* handle_leader: the new leader promised itself, and nobody else did.
LEMMA HandleLeaderOK ==
  ASSUME Inv, NEW p \in Server, NEW n \in Ballot, handle_leader(p, n)
  PROVE  Inv' /\ RoundsStep
<1> DEFINE s == [flush_batch(storage[p]) EXCEPT !.promise = n]
           meta == PromiseMeta(Promise(n, s, None))
           l0 == LeaderState_with(n)
           l == set_promise(l0, p, meta, None, TRUE)
           msgs == [q \in Peers(p) |-> Prepare(n, s)]
<1>1. n \in Ballot /\ n.pid \in Server
  BY DEF handle_leader
<1>2. /\ storage[p].promise \prec n
      /\ storage' = [storage EXCEPT ![p] = s]
      /\ leader_state' = [leader_state EXCEPT ![p] = l]
      /\ state' = [state EXCEPT ![p] = << "Leader", "Prepare" >>]
      /\ EndCall(p, push(outgoing[p], msgs), net)
      /\ UNCHANGED << follower_state, buffered_proposals, buffered_stopsign,
                      panicked, proposed, budget >>
  BY DEF handle_leader, Called
<1>3. RoundsOK(p, s) /\ s.promise = n /\ s \in Storage
  BY <1>1, <1>2, NewPromiseOK DEF \preceq
<1>4. CachedOK(s, follower_state[p]) /\ OutOK(p, s, outgoing[p])
  BY <1>3, KeptPromisesOK, OutgoingOK
<1> HIDE DEF s
<1>5. meta \in PromiseMetaData
  BY <1>3 DEF PromiseMeta, Promise, PromiseMetaData, Storage
<1> HIDE DEF meta
<1>6. l0 \in LeaderStates /\ l0.n_leader = n /\ \A r \in Slots : ~ is_promised(l0, r)
  BY <1>1, LeaderStateWithOK
<1> HIDE DEF l0
<1>7. l \in LeaderStates /\ PromisesFrom(l0, l, p)
  BY <1>5, <1>6, ServersHaveSlots, SetPromiseOK
<1> HIDE DEF l
<1>8. l.n_leader = n /\ \A r \in Server : is_promised(l, r) => r = p
  BY <1>6, <1>7, ServersHaveSlots DEF PromisesFrom
<1>9. PromisesOK(p, s, l)
  BY <1>1, <1>3, <1>8, BallotReflexive DEF PromisesOK
<1>10. Prepare(n, s) \in Message /\ Prepare(n, s).type = "Prepare"
  BY <1>1, <1>3 DEF Prepare, Message, Storage
<1>11. \A q \in Server : Prepare(n, s) \in Sendable(p, s, q)
  BY <1>10, PlainSendable DEF AcceptTypes
<1>12. OutOK(p, s, push(outgoing[p], msgs))
  BY <1>4, <1>11, PushOK
<1> HIDE DEF msgs
<1>13. RestOK' /\ ChanOK(net)
  BY <1>2, KeptOK, ChannelsOK DEF RestOK
<1> DEFINE st == << "Leader", "Prepare" >>
<1>14. st \in States /\ state' = [state EXCEPT ![p] = st] /\ RoleOK(st, s, l)
  BY <1>1, <1>2, <1>3, <1>8 DEF States, RoleOK
<1> HIDE DEF st
<1>15. follower_state' = [follower_state EXCEPT ![p] = follower_state[p]] /\ follower_state[p] \in FollowerState
  BY <1>2, KeptOK
<1> QED BY <1>2, <1>3, <1>4, <1>7, <1>8, <1>9, <1>12, <1>13, <1>14, <1>15, CallPreservesInv

\* A call that changes the leader's bookkeeping only, and adds no promise.
LEMMA BookkeepingOK ==
  ASSUME Inv, NEW p \in Server, NEW l \in LeaderStates, l.n_leader = leader_state[p].n_leader,
         PromisesOK(p, storage[p], l), NEW out, OutOK(p, storage[p], out), NEW chan, ChanOK(chan),
         leader_state' = [leader_state EXCEPT ![p] = l], EndCall(p, out, chan),
         UNCHANGED << storage, state, follower_state, panicked >>, RestOK'
  PROVE  Inv' /\ RoundsStep
<1>1. RoundsOK(p, storage[p]) /\ CachedOK(storage[p], follower_state[p])
  BY KeptOK, KeptPromisesOK
<1>2. p \notin panicked => RoleOK(state[p], storage[p], l)
  BY DEF Inv, RoleInv, RoleOK
<1> QED BY <1>1, <1>2, KeptOK, CallPreservesInv

\* Forgetting a promise leaves the others.
LEMMA ForgottenOK ==
  ASSUME Inv, NEW p \in Server, NEW q \in Server, NEW l,
         PromisesFrom(leader_state[p], l, q), ~ is_promised(l, q)
  PROVE  PromisesOK(p, storage[p], l)
<1>1. PromisesOK(p, storage[p], leader_state[p])
  BY KeptOK, KeptPromisesOK
<1> QED BY <1>1, ServersHaveSlots DEF PromisesOK, PromisesFrom

\* handle_preparereq.
LEMMA HandlePrepareReqOK ==
  ASSUME Inv, NEW p \in Server, NEW q \in Server, handle_preparereq(p, q), UNCHANGED << proposed, budget >>
  PROVE  Inv' /\ RoundsStep
<1> DEFINE l == reset_promise(leader_state[p], q)
           l1 == [l EXCEPT !.latest_accept_meta[q] = 0]
           m == Prepare(l.n_leader, storage[p])
<1>1. /\ net[q][p] # << >>
      /\ leader_state' = [leader_state EXCEPT ![p] = l1]
      /\ EndCall(p, send(outgoing[p], q, m), Consume(p, q))
      /\ UNCHANGED << storage, state, follower_state, buffered_proposals, buffered_stopsign, panicked >>
  BY DEF handle_preparereq, Handled, Incoming
<1>2. l \in LeaderStates /\ PromisesFrom(leader_state[p], l, q) /\ ~ is_promised(l, q)
  BY KeptOK, ServersHaveSlots, ForgetPromiseOK
<1> HIDE DEF l
<1>3. l1 \in LeaderStates /\ PromisesFrom(leader_state[p], l1, q) /\ ~ is_promised(l1, q)
  BY <1>2 DEF LeaderStates, PromisesFrom, is_promised
<1> HIDE DEF l1
<1>4. m \in Message /\ m.type = "Prepare"
  BY <1>2, KeptOK DEF Prepare, Message, LeaderStates, RoundsOK, StorageOK, Storage
<1> HIDE DEF m
<1>5. OutOK(p, storage[p], send(outgoing[p], q, m))
  BY <1>4, KeptOK, OutgoingOK, PlainSendable, SendOK DEF AcceptTypes
<1>6. PromisesOK(p, storage[p], l1) /\ l1.n_leader = leader_state[p].n_leader
  BY <1>3, ForgottenOK DEF PromisesFrom
<1>7. RestOK' /\ ChanOK(Consume(p, q))
  BY <1>1, KeptOK, ChannelsOK DEF RestOK
<1> QED BY <1>1, <1>3, <1>5, <1>6, <1>7, BookkeepingOK

\* handle_notaccepted.
LEMMA HandleNotAcceptedOK ==
  ASSUME Inv, NEW p \in Server, NEW q \in Server, handle_notaccepted(p, q), UNCHANGED << proposed, budget >>
  PROVE  Inv' /\ RoundsStep
<1> DEFINE l == lost_promise(leader_state[p], q)
<1>1. /\ net[q][p] # << >>
      /\ leader_state' = [leader_state EXCEPT ![p] = l]
      /\ EndCall(p, outgoing[p], Consume(p, q))
      /\ UNCHANGED << storage, state, follower_state, buffered_proposals, buffered_stopsign, panicked >>
  BY DEF handle_notaccepted, Handled, Incoming
<1>2. l \in LeaderStates /\ PromisesFrom(leader_state[p], l, q) /\ ~ is_promised(l, q)
  BY KeptOK, ServersHaveSlots, ForgetPromiseOK
<1> HIDE DEF l
<1>3. PromisesOK(p, storage[p], l) /\ l.n_leader = leader_state[p].n_leader
  BY <1>2, ForgottenOK DEF PromisesFrom
<1>4. RestOK' /\ ChanOK(Consume(p, q)) /\ OutOK(p, storage[p], outgoing[p])
  BY <1>1, KeptOK, ChannelsOK, OutgoingOK DEF RestOK
<1> QED BY <1>1, <1>2, <1>3, <1>4, BookkeepingOK

\* A handler that panics has stored what it stored, and nothing else happens.
LEMMA PanicOK ==
  ASSUME Inv, NEW p \in Server, NEW q \in Server, net[q][p] # << >>, Panic(p, q),
         NEW s, RoundsOK(p, s), storage' = [storage EXCEPT ![p] = s], UNCHANGED << proposed, budget >>
  PROVE  Inv' /\ RoundsStep
<1>1. PromisesOK(p, s, leader_state[p]) /\ CachedOK(s, follower_state[p]) /\ OutOK(p, s, outgoing[p])
  BY KeptPromisesOK, OutgoingOK
<1>2. p \in panicked' /\ panicked' \in SUBSET Server /\ panicked' \ {p} = panicked \ {p}
  BY KeptOK DEF Panic
<1>3. Ends(p, outgoing[p], Consume(p, q)) /\ ChanOK(Consume(p, q)) /\ RestOK'
  BY KeptOK, ChannelsOK DEF Panic, Ends, RestOK
<1>4. /\ leader_state' = [leader_state EXCEPT ![p] = leader_state[p]]
      /\ follower_state' = [follower_state EXCEPT ![p] = follower_state[p]]
      /\ state' = [state EXCEPT ![p] = state[p]]
  BY KeptOK DEF Panic
<1> QED BY <1>1, <1>2, <1>3, <1>4, KeptOK, StepPreservesInv

\* Only the promise of the storage matters for the promises of others.
LEMMA PromisesKeptOK ==
  ASSUME NEW p, NEW s, NEW t, NEW l, PromisesOK(p, s, l), s.promise = t.promise
  PROVE  PromisesOK(p, t, l)
BY DEF PromisesOK

\* A Promise that arrives is one that its sender gave, so it may be counted.
LEMMA CountPromiseOK ==
  ASSUME Inv, NEW p \in Server, NEW q \in Server, net[q][p] # << >>,
         p \notin panicked, state[p][1] = "Leader",
         Head(net[q][p]).type = "Promise", Head(net[q][p]).n = leader_state[p].n_leader,
         NEW check \in BOOLEAN
  PROVE  LET m == Head(net[q][p])
             l == set_promise(leader_state[p], q, PromiseMeta(m), m.log_sync, check)
         IN  /\ l \in LeaderStates /\ l.n_leader = leader_state[p].n_leader
             /\ PromisesOK(p, storage[p], l)
             /\ l.promises_meta[q].meta.decided_idx \in Nat
             /\ is_promised(l, q)
<1> DEFINE m == Head(net[q][p])
           l == set_promise(leader_state[p], q, PromiseMeta(m), m.log_sync, check)
<1>1. m \in PromiseMessage /\ m \in Sendable(q, storage[q], p)
  BY IncomingMessage, MessageFields
<1>2. PromiseMeta(m) \in PromiseMetaData /\ m.log_sync \in LogSync \cup {None}
  BY <1>1 DEF PromiseMessage, PromiseMeta, PromiseMetaData
<1>3. m.n \preceq storage[q].promise
  BY <1>1 DEF Sendable
<1> HIDE DEF m
<1>4. l \in LeaderStates /\ PromisesFrom(leader_state[p], l, q)
  BY <1>2, KeptOK, ServersHaveSlots, SetPromiseOK
<1>5. is_promised(l, q)
  BY KeptOK, ServersHaveSlots DEF set_promise, is_promised, LeaderStates
<1> HIDE DEF l
<1>6. PromisesOK(p, storage[p], l)
  <2> SUFFICES ASSUME NEW r \in Server, is_promised(l, r)
               PROVE  l.n_leader.pid \in Server /\ l.n_leader \preceq storage[r].promise
    BY DEF PromisesOK
  <2>1. l.n_leader = leader_state[p].n_leader /\ (is_promised(leader_state[p], r) \/ r = q)
    BY <1>4, ServersHaveSlots DEF PromisesFrom
  <2>2. CASE is_promised(leader_state[p], r)
    BY <2>1, <2>2 DEF Inv, PromiseInv
  <2>3. CASE r = q
    BY <2>1, <2>3, <1>3 DEF m, Inv, RoleInv, RoleOK
  <2> QED BY <2>1, <2>2, <2>3
<1>7. l.promises_meta[q].meta.decided_idx \in Nat
  BY <1>4, ServersHaveSlots DEF LeaderStates, PromiseState, PromiseMetaData
<1> QED BY <1>4, <1>5, <1>6, <1>7 DEF PromisesFrom, l, m

\* send_accsync, for those who promised and if it does not panic.
LEMMA AccSyncOK ==
  ASSUME NEW p \in Server, NEW s, StorageOK(s), NEW l \in LeaderStates, PromisesOK(p, s, l), NEW Q
  PROVE  LET l1 == accsync_leader_state(l, Q)
         IN  /\ l1 \in LeaderStates /\ l1.n_leader = l.n_leader
             /\ PromisesOK(p, s, l1)
             /\ \A q \in Server :
                  is_promised(l, q) /\ ~ send_accsync_panics(s, l1, q) =>
                    accsync_message(s, l1, q) \in Sendable(p, s, q)
<1> DEFINE sns == [r \in Slots |-> IF r \in Q THEN next_seq_num(increment_seq_num_session(l.follower_seq_nums[r]))
                                              ELSE l.follower_seq_nums[r]]
           l1 == accsync_leader_state(l, Q)
<1>1. sns \in [Slots -> SequenceNumber]
  BY SequenceNumberType DEF LeaderStates
<1>2. l1 = [l EXCEPT !.follower_seq_nums = sns]
  BY DEF accsync_leader_state
<1> HIDE DEF sns, l1
<1>3. l1 \in LeaderStates /\ SamePromises(l, l1)
  BY <1>1, <1>2, SequenceNumbersOK
<1>4. PromisesOK(p, s, l1)
  BY <1>3, SamePromisesOK
<1>5. ASSUME NEW q \in Server, is_promised(l, q), ~ send_accsync_panics(s, l1, q)
      PROVE  accsync_message(s, l1, q) \in Sendable(p, s, q)
  <2> DEFINE idx == followers_valid_entries_idx(l1, q)
             other == l1.promises_meta[q].meta.decided_idx
             sync == create_log_sync(s, idx, other)
             m == accsync_message(s, l1, q)
  <2>1. q \in Slots
    BY ServersHaveSlots
  <2>2. /\ l1.promises_meta[q].meta.accepted_idx \in Nat /\ other \in Nat
        /\ l1.max_promise_meta.accepted_idx \in Nat
        /\ l1.n_leader \in Ballot /\ l1.follower_seq_nums[q] \in SequenceNumber
    BY <2>1, <1>3 DEF LeaderStates, PromiseState, PromiseMetaData
  <2>3. idx \in Nat
    BY <2>2 DEF followers_valid_entries_idx, minimum
  <2>4. s.decided_idx \in Nat
    BY DEF StorageOK, Storage
  <2>5. ~ create_log_sync_panics(s, idx)
    BY <1>5 DEF send_accsync_panics
  <2>6. m = AcceptSync(l1.n_leader, l1.follower_seq_nums[q], s.decided_idx, sync)
    BY DEF accsync_message
  <2> HIDE DEF idx, other, m
  <2>7. sync \in LogSync
    BY <2>2, <2>3, <2>5, CreateLogSyncType
  <2> HIDE DEF sync
  <2>8. m \in Message /\ m.type = "AcceptSync" /\ m.n = l1.n_leader
    BY <2>2, <2>4, <2>6, <2>7 DEF AcceptSync, Message
  <2>9. is_promised(l1, q)
    BY <2>1, <1>3, <1>5 DEF SamePromises
  <2>10. m \in Sendable(p, s, q)
    BY <2>8, <2>9, <1>4, AcceptSendable DEF AcceptTypes
  <2> QED BY <2>10 DEF m
<1> QED BY <1>3, <1>4, <1>5 DEF l1, SamePromises

\* What handle_majority_promises stores: the adopted log is of the round that p
\* leads, which is the round it promised.
LEMMA AdoptedLogOK ==
  ASSUME Inv, NEW p \in Server, NEW l \in LeaderStates, l.n_leader = storage[p].promise,
         ~ sync_log_panics(storage[p], get_max_decided_idx(l), l.max_promise_sync)
  PROVE  LET s1 == sync_log(storage[p], l.n_leader, get_max_decided_idx(l), l.max_promise_sync)
             stopped == accepted_reconfiguration(s1)
             s2 == IF stopped THEN s1 ELSE append_entries_without_batching(s1, buffered_proposals[p])
             s3 == IF stopped \/ buffered_stopsign[p] = None
                     THEN s2 ELSE append_stopsign(s2, buffered_stopsign[p])
         IN  RoundsOK(p, s3) /\ StorageOK(s3) /\ s3.promise = storage[p].promise
<1> DEFINE s1 == sync_log(storage[p], l.n_leader, get_max_decided_idx(l), l.max_promise_sync)
           stopped == accepted_reconfiguration(s1)
           s2 == IF stopped THEN s1 ELSE append_entries_without_batching(s1, buffered_proposals[p])
           s3 == IF stopped \/ buffered_stopsign[p] = None
                   THEN s2 ELSE append_stopsign(s2, buffered_stopsign[p])
<1>1. /\ StorageOK(storage[p]) /\ storage[p].accepted_round \preceq storage[p].promise
      /\ l.n_leader \in Ballot /\ l.max_promise_sync \in LogSync \cup {None}
      /\ get_max_decided_idx(l) \in Nat
  BY MaxDecidedIdxType DEF Inv, StorageInv, LeaderStates
<1>2. StorageOK(s1) /\ s1.promise = storage[p].promise /\ s1.accepted_round = l.n_leader
  BY <1>1, SyncLogOK
<1>3. buffered_proposals[p] \in Entries /\ buffered_stopsign[p] \in StopSign \cup {None}
  BY KeptOK DEF RestOK
<1> HIDE DEF s1, stopped
<1>4. StorageOK(s2) /\ SameRounds(s1, s2)
  BY <1>2, <1>3, AppendEntriesOK DEF SameRounds
<1> HIDE DEF s2
<1>5. StorageOK(s3) /\ SameRounds(s2, s3)
  BY <1>3, <1>4, AppendStopSignOK DEF SameRounds
<1> HIDE DEF s3
<1>6. s3.promise = storage[p].promise /\ s3.accepted_round = storage[p].promise
  BY <1>2, <1>4, <1>5 DEF SameRounds
<1>7. RoundsOK(p, s3)
  BY <1>1, <1>5, <1>6, BallotReflexive DEF RoundsOK
<1> QED BY <1>5, <1>6, <1>7 DEF s3, s2, stopped, s1

\* handle_majority_promises.
LEMMA MajorityPromisesOK ==
  ASSUME Inv, NEW p \in Server, NEW q \in Server, net[q][p] # << >>,
         NEW l \in LeaderStates, l.n_leader = storage[p].promise, l.n_leader.pid \in Server, PromisesOK(p, storage[p], l),
         handle_majority_promises(p, q, l), UNCHANGED << proposed, budget >>
  PROVE  Inv' /\ RoundsStep
<1> DEFINE s1 == sync_log(storage[p], l.n_leader, get_max_decided_idx(l), l.max_promise_sync)
           stopped == accepted_reconfiguration(s1)
           s2 == IF stopped THEN s1 ELSE append_entries_without_batching(s1, buffered_proposals[p])
           s3 == IF stopped \/ buffered_stopsign[p] = None
                   THEN s2 ELSE append_stopsign(s2, buffered_stopsign[p])
           Q == get_promised_followers(l) \cap Server
           la == set_accepted_idx(l, p, s3.accepted_idx)
           lb == [la EXCEPT !.max_promise_sync = None]
           l1 == accsync_leader_state(lb, Q)
           sync_panics == sync_log_panics(storage[p], get_max_decided_idx(l), l.max_promise_sync)
           msgs == [r \in Q |-> accsync_message(s3, l1, r)]
           st == << "Leader", "Accept" >>
<1>1. CASE sync_panics
  <2>1. storage' = storage /\ Panic(p, q)
    BY <1>1 DEF handle_majority_promises
  <2> QED BY <2>1, KeptOK, PanicOK
<1>2. CASE ~ sync_panics
  <2>1. RoundsOK(p, s3) /\ StorageOK(s3) /\ s3.promise = storage[p].promise
    BY <1>2, AdoptedLogOK
  <2>2. /\ storage' = [storage EXCEPT ![p] = s3]
        /\ \/ Panic(p, q)
           \/ /\ \A r \in Q : ~ send_accsync_panics(s3, l1, r)
              /\ state' = [state EXCEPT ![p] = st]
              /\ leader_state' = [leader_state EXCEPT ![p] = l1]
              /\ buffered_proposals' \in {buffered_proposals, [buffered_proposals EXCEPT ![p] = << >>]}
              /\ buffered_stopsign' \in {buffered_stopsign, [buffered_stopsign EXCEPT ![p] = None]}
              /\ EndCall(p, push(outgoing[p], msgs), Consume(p, q))
              /\ UNCHANGED << follower_state, panicked >>
    BY <1>2 DEF handle_majority_promises, Handled
  <2> HIDE DEF s3
  <2>3. CASE Panic(p, q)
    BY <2>1, <2>2, <2>3, PanicOK
  <2>4. CASE ~ Panic(p, q)
    <3>1. s3.accepted_idx \in Nat
      BY <2>1 DEF StorageOK, Storage
    <3>2. la \in LeaderStates /\ SamePromises(l, la)
      BY <3>1, ServersHaveSlots, SetAcceptedIdxOK
    <3> HIDE DEF la
    <3>3. lb \in LeaderStates /\ SamePromises(la, lb)
      BY <3>2 DEF LeaderStates, SamePromises, is_promised
    <3> HIDE DEF lb
    <3>4. PromisesOK(p, s3, lb) /\ lb.n_leader = s3.promise
      BY <2>1, <3>2, <3>3, SamePromisesOK, PromisesKeptOK DEF SamePromises
    <3>5. /\ l1 \in LeaderStates /\ l1.n_leader = s3.promise /\ PromisesOK(p, s3, l1)
          /\ \A r \in Server : is_promised(lb, r) /\ ~ send_accsync_panics(s3, l1, r) =>
                                 accsync_message(s3, l1, r) \in Sendable(p, s3, r)
      BY <2>1, <3>3, <3>4, AccSyncOK
    <3> HIDE DEF l1
    <3>6. \A r \in Q : r \in Slots /\ is_promised(lb, r)
      BY <3>2, <3>3 DEF get_promised_followers, SamePromises
    <3>7. \A r \in Server : r \in DOMAIN msgs => msgs[r] \in Sendable(p, s3, r)
      BY <2>2, <2>4, <3>5, <3>6
    <3> HIDE DEF msgs
    <3>8. OutOK(p, s3, push(outgoing[p], msgs)) /\ CachedOK(s3, follower_state[p])
      BY <2>1, <3>7, OutgoingOK, PushOK, KeptPromisesOK
    <3>9. RestOK' /\ ChanOK(Consume(p, q))
      <4>1. << >> \in Entries /\ RestOK
        BY KeptOK, EmptySeq DEF Entries
      <4>2. buffered_proposals' \in [Server -> Entries]
        BY <2>2, <2>4, <4>1 DEF RestOK
      <4>3. buffered_stopsign' \in [Server -> StopSign \cup {None}]
        BY <2>2, <2>4, <4>1 DEF RestOK
      <4> QED BY <4>1, <4>2, <4>3, ChannelsOK DEF RestOK
    <3>10. st \in States /\ RoleOK(st, s3, l1)
      BY <2>1, <3>5 DEF States, RoleOK
    <3> HIDE DEF st
    <3> QED BY <2>1, <2>2, <2>4, <3>5, <3>8, <3>9, <3>10, KeptOK, CallPreservesInv
  <2> QED BY <2>3, <2>4
<1> QED BY <1>1, <1>2

\* handle_promise_prepare.
LEMMA HandlePromisePrepareOK ==
  ASSUME Inv, NEW p \in Server, NEW q \in Server, handle_promise_prepare(p, q), UNCHANGED << proposed, budget >>
  PROVE  Inv' /\ RoundsStep
<1> DEFINE m == Head(net[q][p])
           l == set_promise(leader_state[p], q, PromiseMeta(m), m.log_sync, TRUE)
<1>1. /\ p \notin panicked /\ net[q][p] # << >> /\ m.type = "Promise"
      /\ state[p] = << "Leader", "Prepare" >> /\ m.n = leader_state[p].n_leader
      /\ \/ handle_majority_promises(p, q, l)
         \/ /\ leader_state' = [leader_state EXCEPT ![p] = l]
            /\ EndCall(p, outgoing[p], Consume(p, q))
            /\ UNCHANGED << storage, state, follower_state, buffered_proposals,
                            buffered_stopsign, panicked >>
  BY DEF handle_promise_prepare, counts_promise, Incoming, Handled
<1> state[p][1] = "Leader"
  BY <1>1
<1>2. l \in LeaderStates /\ l.n_leader = leader_state[p].n_leader /\ PromisesOK(p, storage[p], l)
  BY <1>1, CountPromiseOK
<1> HIDE DEF l
<1>3. l.n_leader = storage[p].promise /\ l.n_leader.pid \in Server
  BY <1>1, <1>2 DEF Inv, RoleInv, RoleOK
<1>4. CASE handle_majority_promises(p, q, l)
  BY <1>1, <1>2, <1>3, <1>4, MajorityPromisesOK
<1>5. CASE ~ handle_majority_promises(p, q, l)
  <2>1. RestOK' /\ ChanOK(Consume(p, q)) /\ OutOK(p, storage[p], outgoing[p])
    BY <1>1, <1>5, KeptOK, ChannelsOK, OutgoingOK DEF RestOK
  <2> QED BY <1>1, <1>2, <1>5, <2>1, BookkeepingOK
<1> QED BY <1>4, <1>5

\* handle_promise_accept.
LEMMA HandlePromiseAcceptOK ==
  ASSUME Inv, NEW p \in Server, NEW q \in Server, handle_promise_accept(p, q), UNCHANGED << proposed, budget >>
  PROVE  Inv' /\ RoundsStep
<1> DEFINE m == Head(net[q][p])
           l0 == set_promise(leader_state[p], q, PromiseMeta(m), m.log_sync, FALSE)
           l == accsync_leader_state(l0, {q})
           msg == accsync_message(storage[p], l, q)
<1>1. /\ p \notin panicked /\ net[q][p] # << >> /\ m.type = "Promise"
      /\ state[p] = << "Leader", "Accept" >> /\ m.n = leader_state[p].n_leader
      /\ storage' = storage
      /\ \/ Panic(p, q)
         \/ /\ ~ send_accsync_panics(storage[p], l, q)
            /\ leader_state' = [leader_state EXCEPT ![p] = l]
            /\ EndCall(p, send(outgoing[p], q, msg), Consume(p, q))
            /\ UNCHANGED << state, follower_state, buffered_proposals, buffered_stopsign, panicked >>
  BY DEF handle_promise_accept, counts_promise, Incoming, Handled
<1>2. CASE Panic(p, q)
  BY <1>1, <1>2, KeptOK, PanicOK
<1>3. CASE ~ Panic(p, q)
  <2> state[p][1] = "Leader"
    BY <1>1
  <2>1. /\ l0 \in LeaderStates /\ l0.n_leader = leader_state[p].n_leader
        /\ PromisesOK(p, storage[p], l0) /\ is_promised(l0, q)
    BY <1>1, CountPromiseOK
  <2> HIDE DEF l0
  <2>2. StorageOK(storage[p])
    BY KeptOK DEF RoundsOK
  <2>3. /\ l \in LeaderStates /\ l.n_leader = leader_state[p].n_leader /\ PromisesOK(p, storage[p], l)
        /\ msg \in Sendable(p, storage[p], q)
    BY <1>1, <1>3, <2>1, <2>2, AccSyncOK
  <2> HIDE DEF l, msg
  <2>4. OutOK(p, storage[p], send(outgoing[p], q, msg))
    BY <2>3, KeptOK, OutgoingOK, SendOK
  <2>5. RestOK' /\ ChanOK(Consume(p, q))
    BY <1>1, <1>3, KeptOK, ChannelsOK DEF RestOK
  <2> QED BY <1>1, <1>3, <2>3, <2>4, <2>5, BookkeepingOK
<1> QED BY <1>2, <1>3

------------------------------------------------------------------------------
(* Deciding at the leader *)

\* An AcceptDecide that still waits may carry a newer decided index.
LEMMA MarkDecidedOK ==
  ASSUME NEW p, NEW s, NEW q, NEW seq \in Seq(Sendable(p, s, q)), NEW k, NEW idx \in Nat,
         seq[k].type = "AcceptDecide"
  PROVE  [seq EXCEPT ![k] = [@ EXCEPT !.decided_idx = idx]] \in Seq(Sendable(p, s, q))
<1> DEFINE e == seq[k]
           x == [e EXCEPT !.decided_idx = idx]
<1>1. [seq EXCEPT ![k] = [@ EXCEPT !.decided_idx = idx]] = [seq EXCEPT ![k] = x]
  OBVIOUS
<1>2. ASSUME k \in 1 .. Len(seq) PROVE x \in Sendable(p, s, q)
  <2>1. e \in Sendable(p, s, q)
    BY <1>2, ElementOfSeq
  <2>2. e \in [type : {"AcceptDecide"}, n : Ballot, seq_num : SequenceNumber,
               decided_idx : Nat, entries : Entries]
    BY <2>1 DEF Sendable, Message, PromiseMessage
  <2> HIDE DEF e
  <2>3. x \in [type : {"AcceptDecide"}, n : Ballot, seq_num : SequenceNumber,
               decided_idx : Nat, entries : Entries]
        /\ x.type = e.type /\ x.n = e.n
    BY <2>2
  <2>4. x \in Message
    BY <2>3 DEF Message
  <2> HIDE DEF x
  <2> QED BY <2>1, <2>2, <2>3, <2>4 DEF Sendable
<1> HIDE DEF x
<1>3. [seq EXCEPT ![k] = x] \in Seq(Sendable(p, s, q))
  BY <1>2, OverwriteOK
<1> QED BY <1>1, <1>3

\* handle_accepted.
LEMMA HandleAcceptedOK ==
  ASSUME Inv, NEW p \in Server, NEW q \in Server, handle_accepted(p, q), UNCHANGED << proposed, budget >>
  PROVE  Inv' /\ RoundsStep
<1> DEFINE m == Head(net[q][p])
           idx == m.accepted_idx
           l == set_accepted_idx(leader_state[p], q, idx)
           out == outgoing[p]
           Q == get_promised_followers(l) \cap Server
           new == {r \in Q : ~ has_latest_accdec(l, out, r)}
           sns == [r \in Slots |-> IF r \in new THEN next_seq_num(l.follower_seq_nums[r])
                                                ELSE l.follower_seq_nums[r]]
           l1 == [l EXCEPT !.follower_seq_nums = sns]
           mark(r) == [out[r] EXCEPT ![l.latest_accept_meta[r]] = [@ EXCEPT !.decided_idx = idx]]
           marked == [r \in Server |-> IF r \in Q \ new THEN mark(r) ELSE out[r]]
           msgs == [r \in new |-> Decide(l.n_leader, l1.follower_seq_nums[r], idx)]
           s == [storage[p] EXCEPT !.decided_idx = idx]
<1>1. /\ net[q][p] # << >> /\ m.type = "Accepted"
      /\ UNCHANGED << state, follower_state, buffered_proposals, buffered_stopsign, panicked >>
      /\ \/ /\ storage' = [storage EXCEPT ![p].decided_idx = idx]
            /\ leader_state' = [leader_state EXCEPT ![p] = l1]
            /\ EndCall(p, push(marked, msgs), Consume(p, q))
         \/ /\ leader_state' = [leader_state EXCEPT ![p] = l]
            /\ EndCall(p, out, Consume(p, q))
            /\ storage' = storage
  BY DEF handle_accepted, Incoming, Handled
<1>2. idx \in Nat
  BY <1>1, IncomingMessage, MessageFields
<1>3. l \in LeaderStates /\ SamePromises(leader_state[p], l)
  BY <1>2, KeptOK, ServersHaveSlots, SetAcceptedIdxOK
<1> HIDE DEF m, idx, l
<1>4. RestOK' /\ ChanOK(Consume(p, q))
  BY <1>1, KeptOK, ChannelsOK DEF RestOK
<1>5. CASE /\ leader_state' = [leader_state EXCEPT ![p] = l]
           /\ EndCall(p, out, Consume(p, q))
           /\ storage' = storage
  <2>1. PromisesOK(p, storage[p], l) /\ l.n_leader = leader_state[p].n_leader
    BY <1>3, KeptOK, KeptPromisesOK, SamePromisesOK DEF SamePromises
  <2>2. OutOK(p, storage[p], out)
    BY KeptOK, OutgoingOK
  <2> QED BY <1>1, <1>3, <1>4, <1>5, <2>1, <2>2, BookkeepingOK
<1>6. CASE /\ storage' = [storage EXCEPT ![p].decided_idx = idx]
           /\ leader_state' = [leader_state EXCEPT ![p] = l1]
           /\ EndCall(p, push(marked, msgs), Consume(p, q))
  <2>1. StorageOK(s) /\ SameRounds(storage[p], s)
    BY <1>2, KeptOK DEF RoundsOK, StorageOK, Storage, SameRounds
  <2>2. storage' = [storage EXCEPT ![p] = s]
    BY <1>6
  <2> HIDE DEF s
  <2>3. RoundsOK(p, s)
    BY <2>1, StoredOK
  <2>4. OutOK(p, s, out) /\ CachedOK(s, follower_state[p]) /\ PromisesOK(p, s, l)
    BY <2>3, <1>3, OutgoingOK, KeptPromisesOK, SamePromisesOK
  <2>5. sns \in [Slots -> SequenceNumber]
    BY <1>3, SequenceNumberType DEF LeaderStates
  <2>6. l1 \in LeaderStates /\ SamePromises(l, l1) /\ l1.follower_seq_nums = sns
    BY <1>3, <2>5, SequenceNumbersOK
  <2> HIDE DEF l1, sns
  <2>7. ASSUME NEW r \in Server, r \in DOMAIN msgs
        PROVE  msgs[r] \in Sendable(p, s, r)
    <3>1. r \in Slots /\ is_promised(l, r) /\ msgs[r] = Decide(l.n_leader, l1.follower_seq_nums[r], idx)
      BY <2>7 DEF get_promised_followers
    <3>2. l.n_leader \in Ballot /\ l1.follower_seq_nums[r] \in SequenceNumber
      BY <3>1, <1>3, <2>6 DEF LeaderStates
    <3>3. msgs[r] \in Message /\ msgs[r].type = "Decide" /\ msgs[r].n = l.n_leader
      BY <3>1, <3>2, <1>2 DEF Decide, Message
    <3> HIDE DEF msgs
    <3> QED BY <3>1, <3>3, <2>4, AcceptSendable DEF AcceptTypes
  <2>8. ASSUME NEW r \in Q \ new PROVE mark(r) \in Seq(Sendable(p, s, r))
    <3>1. out[r] \in Seq(Sendable(p, s, r)) /\ out[r][l.latest_accept_meta[r]].type = "AcceptDecide"
      BY <2>4 DEF OutOK, has_latest_accdec
    <3> QED BY <3>1, <1>2, MarkDecidedOK
  <2> HIDE DEF mark, msgs
  <2>9. OutOK(p, s, marked)
    BY <2>4, <2>8 DEF OutOK
  <2> HIDE DEF marked
  <2>10. OutOK(p, s, push(marked, msgs))
    BY <2>7, <2>9, PushOK
  <2>11. PromisesOK(p, s, l1) /\ l1.n_leader = leader_state[p].n_leader
    BY <2>4, <2>6, <1>3, SamePromisesOK DEF SamePromises
  <2>12. p \notin panicked => RoleOK(state[p], s, l1)
    BY <2>1, <2>11 DEF SameRounds, Inv, RoleInv, RoleOK
  <2>13. /\ state' = [state EXCEPT ![p] = state[p]] /\ state[p] \in States
         /\ follower_state' = [follower_state EXCEPT ![p] = follower_state[p]]
         /\ follower_state[p] \in FollowerState
    BY <1>1, KeptOK
  <2>14. panicked' = panicked
    BY <1>1
  <2> QED BY <1>4, <1>6, <2>2, <2>3, <2>4, <2>6, <2>10, <2>11, <2>12, <2>13, <2>14, CallPreservesInv
<1> QED BY <1>1, <1>5, <1>6

------------------------------------------------------------------------------
(* Following a leader *)

\* handle_prepare: the promise that is sent, and kept, is the one just given.
LEMMA HandlePrepareOK ==
  ASSUME Inv, NEW p \in Server, NEW q \in Server, handle_prepare(p, q), UNCHANGED << proposed, budget >>
  PROVE  Inv' /\ RoundsStep
<1> DEFINE m == Head(net[q][p])
           s == [flush_batch(storage[p]) EXCEPT !.promise = m.n]
           ahead == \/ m.n_accepted \prec s.accepted_round
                    \/ m.n_accepted = s.accepted_round /\ m.accepted_idx < s.accepted_idx
           from == IF m.n_accepted \prec s.accepted_round THEN m.decided_idx ELSE m.accepted_idx
           sync == IF ahead THEN create_log_sync(s, from, m.decided_idx) ELSE None
           promise == Promise(m.n, s, sync)
           f == [follower_state[p] EXCEPT !.current_seq_num = DefaultSequenceNumber,
                                          !.cached_promise_message = promise]
           st == << "Follower", "Prepare" >>
<1>1. /\ net[q][p] # << >> /\ m.type = "Prepare" /\ accepts_prepare(p, m)
      /\ storage' = [storage EXCEPT ![p] = s]
      /\ \/ Panic(p, q)
         \/ /\ ~ (ahead /\ create_log_sync_panics(s, from))
            /\ state' = [state EXCEPT ![p] = st]
            /\ follower_state' = [follower_state EXCEPT ![p].current_seq_num = DefaultSequenceNumber,
                                                        ![p].cached_promise_message = promise]
            /\ EndCall(p, send(outgoing[p], q, promise), Consume(p, q))
            /\ UNCHANGED << leader_state, buffered_proposals, buffered_stopsign, panicked >>
  BY DEF handle_prepare, Incoming, Handled
<1>2. m.n \in Ballot /\ m.decided_idx \in Nat /\ m.accepted_idx \in Nat
  BY <1>1, IncomingMessage, MessageFields
<1>3. storage[p].promise \preceq m.n
  BY <1>1 DEF accepts_prepare, \preceq
<1>4. RoundsOK(p, s) /\ StorageOK(s) /\ s.promise = m.n
  BY <1>2, <1>3, NewPromiseOK DEF RoundsOK
<1> HIDE DEF m, s
<1>5. CASE Panic(p, q)
  BY <1>1, <1>4, <1>5, PanicOK
<1>6. CASE ~ Panic(p, q)
  <2>1. from \in Nat
    BY <1>2
  <2> HIDE DEF from
  <2>2. sync \in LogSync \cup {None}
    BY <1>1, <1>2, <1>4, <1>6, <2>1, CreateLogSyncType
  <2> HIDE DEF sync, ahead
  <2>3. promise \in PromiseMessage /\ promise.type = "Promise" /\ promise.n = m.n
    BY <1>2, <1>4, <2>2 DEF Promise, PromiseMessage, StorageOK, Storage
  <2> HIDE DEF promise
  <2>4. promise \in Sendable(p, s, q)
    BY <2>3, <1>4, BallotReflexive DEF Sendable, Message, AcceptTypes
  <2>5. OutOK(p, s, send(outgoing[p], q, promise)) /\ PromisesOK(p, s, leader_state[p])
    BY <2>4, <1>4, OutgoingOK, SendOK, KeptPromisesOK
  <2>6. f \in FollowerState /\ f.cached_promise_message = promise
    BY ZenonT(30), <2>3, KeptOK DEF FollowerState, DefaultSequenceNumber, SequenceNumber
  <2>7. follower_state' = [follower_state EXCEPT ![p] = f]
    BY <1>1, <1>6 DEF Inv, TypeOK, FollowerState
  <2> HIDE DEF f
  <2>8. CachedOK(s, f)
    BY <2>3, <2>6, <1>4, BallotReflexive DEF CachedOK
  <2>9. RestOK' /\ ChanOK(Consume(p, q))
    BY <1>1, <1>6, KeptOK, ChannelsOK DEF RestOK
  <2>10. st \in States /\ RoleOK(st, s, leader_state[p])
    BY DEF States, RoleOK
  <2> HIDE DEF st
  <2>11. /\ storage' = [storage EXCEPT ![p] = s] /\ state' = [state EXCEPT ![p] = st]
         /\ leader_state' = [leader_state EXCEPT ![p] = leader_state[p]]
         /\ EndCall(p, send(outgoing[p], q, promise), Consume(p, q))
         /\ panicked' = panicked
    BY <1>1, <1>6, KeptOK
  <2>12. leader_state[p] \in LeaderStates
    BY KeptOK
  <2> QED BY <1>4, <2>5, <2>6, <2>7, <2>8, <2>9, <2>10, <2>11, <2>12, CallPreservesInv
<1> QED BY <1>5, <1>6

\* A call that may make p a follower, and changes no storage or bookkeeping.
LEMMA StateOnlyOK ==
  ASSUME Inv, NEW p \in Server, NEW st \in States, st = state[p] \/ RoleOK(st, storage[p], leader_state[p]),
         NEW out, OutOK(p, storage[p], out), NEW chan, ChanOK(chan),
         state' = [state EXCEPT ![p] = st], EndCall(p, out, chan),
         UNCHANGED << storage, leader_state, follower_state, panicked >>, RestOK'
  PROVE  Inv' /\ RoundsStep
<1>1. RoundsOK(p, storage[p])
  BY KeptOK
<1>2. PromisesOK(p, storage[p], leader_state[p]) /\ CachedOK(storage[p], follower_state[p])
  BY <1>1, KeptPromisesOK
<1>3. p \notin panicked => RoleOK(st, storage[p], leader_state[p])
  BY DEF Inv, RoleInv
<1> QED BY <1>1, <1>2, <1>3, KeptOK, CallPreservesInv

\* << "Follower", "Recover" >> claims nothing.
LEMMA RecoverOK ==
  ASSUME NEW s, NEW l
  PROVE  << "Follower", "Recover" >> \in States /\ RoleOK(<< "Follower", "Recover" >>, s, l)
BY DEF States, RoleOK

\* A PrepareReq of the promised round may always be sent.
LEMMA PrepareReqSendable ==
  ASSUME NEW p, NEW s, StorageOK(s), NEW q
  PROVE  PrepareReq(s.promise) \in Sendable(p, s, q)
<1>1. PrepareReq(s.promise) \in Message /\ PrepareReq(s.promise).type = "PrepareReq"
  BY DEF StorageOK, Storage, PrepareReq, Message
<1> QED BY <1>1, PlainSendable DEF AcceptTypes

\* reconnected(q), also if q is no server.
LEMMA ReconnectedOK ==
  ASSUME Inv, NEW p \in Server, NEW q, NEW chan, ChanOK(chan), reconnected(p, q, outgoing[p], chan),
         UNCHANGED << storage, leader_state, follower_state, panicked >>, RestOK'
  PROVE  Inv' /\ RoundsStep
<1> DEFINE m == PrepareReq(storage[p].promise)
           out == send(outgoing[p], q, m)
           st == IF q = get_current_leader(p) THEN << "Follower", "Recover" >> ELSE state[p]
<1>1. state' = [state EXCEPT ![p] = st] /\ EndCall(p, out, chan)
  BY KeptOK DEF reconnected
<1>2. st \in States /\ (st = state[p] \/ RoleOK(st, storage[p], leader_state[p]))
  BY KeptOK, RecoverOK
<1>3. \A r : m \in Sendable(p, storage[p], r)
  BY KeptOK, PrepareReqSendable DEF RoundsOK
<1> HIDE DEF m
<1>4. OutOK(p, storage[p], out)
  BY <1>3, KeptOK, OutgoingOK, SendOK
<1> HIDE DEF out, st
<1> QED BY <1>1, <1>2, <1>4, StateOnlyOK

\* check_valid_ballot and handle_sequence_num, when they refuse the message.
LEMMA RefusedOK ==
  ASSUME Inv, NEW p \in Server, NEW q \in Server, reject_ballot(p, q) \/ dropped_preceding(p, q),
         UNCHANGED << proposed, budget >>
  PROVE  Inv' /\ RoundsStep
<1> DEFINE m == Head(net[q][p])
           na == NotAccepted(storage[p].promise)
<1>1. /\ net[q][p] # << >>
      /\ UNCHANGED << storage, leader_state, follower_state, buffered_proposals, buffered_stopsign, panicked >>
      /\ \/ reconnected(p, m.n.pid, outgoing[p], Consume(p, q))
         \/ /\ EndCall(p, send(outgoing[p], m.n.pid, na), Consume(p, q))
            /\ UNCHANGED state
  BY DEF reject_ballot, dropped_preceding, Incoming, Handled
<1>2. RestOK' /\ ChanOK(Consume(p, q))
  BY <1>1, KeptOK, ChannelsOK DEF RestOK
<1>3. CASE reconnected(p, m.n.pid, outgoing[p], Consume(p, q))
  BY <1>1, <1>2, <1>3, ReconnectedOK
<1>4. CASE EndCall(p, send(outgoing[p], m.n.pid, na), Consume(p, q)) /\ UNCHANGED state
  <2>1. na \in Message /\ na.type = "NotAccepted"
    BY KeptOK DEF RoundsOK, StorageOK, Storage, NotAccepted, Message
  <2> HIDE DEF na
  <2>2. OutOK(p, storage[p], send(outgoing[p], m.n.pid, na))
    BY <2>1, KeptOK, OutgoingOK, PlainSendable, SendOK DEF AcceptTypes
  <2>3. state' = [state EXCEPT ![p] = state[p]] /\ state[p] \in States
    BY <1>4, KeptOK
  <2> QED BY <1>1, <1>2, <1>4, <2>2, <2>3, StateOnlyOK
<1> QED BY <1>1, <1>3, <1>4

\* The index at which a message is cached.
LEMMA CachedIdxType ==
  ASSUME NEW p, NEW s, NEW out, OutOK(p, s, out), NEW q \in Server
  PROVE  cached_idx(out, q) \in Nat
<1>1. Len(out[q]) \in Nat
  BY LenProperties DEF OutOK
<1> QED BY <1>1 DEF cached_idx

\* reply_accepted.
LEMMA ReplyAcceptedOK ==
  ASSUME NEW p \in Server, NEW s, NEW out, OutOK(p, s, out), NEW f \in FollowerState, CachedOK(s, f),
         NEW n \in Ballot, n.pid \in Server, NEW idx \in Nat
  PROVE  /\ OutOK(p, s, reply_accepted_outgoing(f, out, n, idx))
         /\ reply_accepted_meta(f, out, n) \in FollowerState
         /\ CachedOK(s, reply_accepted_meta(f, out, n))
<1> DEFINE q == n.pid
           k == f.latest_accepted_meta.idx
           e == out[q][k]
           x == [e EXCEPT !.accepted_idx = idx]
           seq == [out[q] EXCEPT ![k] = x]
           out1 == reply_accepted_outgoing(f, out, n, idx)
<1>1. CASE has_latest_accepted(f, out, n)
  <2>1. reply_accepted_meta(f, out, n) = f
    BY <1>1 DEF reply_accepted_meta
  <2>2. out1 = [r \in Server |-> IF r = q THEN seq ELSE out[r]]
    BY <1>1 DEF reply_accepted_outgoing, OutOK
  <2>3. ASSUME k \in 1 .. Len(out[q]) PROVE x \in Sendable(p, s, q)
    <3>1. e \in Sendable(p, s, q)
      BY <2>3, ElementOfSeq DEF OutOK
    <3>2. e \in [type : {"Accepted"}, n : Ballot, accepted_idx : Nat]
      BY <1>1, <3>1 DEF has_latest_accepted, Sendable, Message, PromiseMessage
    <3> HIDE DEF e
    <3>3. x \in [type : {"Accepted"}, n : Ballot, accepted_idx : Nat]
      BY <3>2
    <3>4. x \in Message /\ x.type = "Accepted"
      BY <3>3 DEF Message
    <3> HIDE DEF x
    <3> QED BY <3>4, PlainSendable DEF AcceptTypes
  <2> HIDE DEF x
  <2>4. seq \in Seq(Sendable(p, s, q))
    BY <2>3, OverwriteOK DEF OutOK
  <2> HIDE DEF seq
  <2>5. OutOK(p, s, out1)
    BY <2>2, <2>4 DEF OutOK
  <2> QED BY <2>1, <2>5
<1>2. CASE ~ has_latest_accepted(f, out, n)
  <2> DEFINE g == [f EXCEPT !.latest_accepted_meta = [n |-> n, idx |-> cached_idx(out, q)]]
  <2>1. out1 = send(out, q, Accepted(n, idx)) /\ reply_accepted_meta(f, out, n) = g
    BY <1>2 DEF reply_accepted_outgoing, reply_accepted_meta
  <2>2. g \in FollowerState /\ g.cached_promise_message = f.cached_promise_message
    BY CachedIdxType DEF FollowerState
  <2>3. Accepted(n, idx) \in Message /\ Accepted(n, idx).type = "Accepted"
    BY DEF Accepted, Message
  <2>4. OutOK(p, s, out1)
    BY <2>1, <2>3, PlainSendable, SendOK DEF AcceptTypes
  <2> HIDE DEF g, out1
  <2>5. CachedOK(s, g)
    BY <2>2 DEF CachedOK
  <2>6. OutOK(p, s, reply_accepted_outgoing(f, out, n, idx))
    BY <2>4 DEF out1
  <2> QED BY <2>1, <2>2, <2>5, <2>6
<1> QED BY <1>1, <1>2

\* An accept message that is handled is of the promised round.
LEMMA IncomingAcceptOK ==
  ASSUME Inv, NEW p \in Server, NEW q \in Server, NEW type \in AcceptTypes, IncomingAccept(p, q, type)
  PROVE  /\ net[q][p] # << >>
         /\ LET m == Head(net[q][p])
            IN  /\ m \in Message /\ m.type = type
                /\ m.n \in Ballot /\ m.n = storage[p].promise /\ m.n.pid \in Server
                /\ m.seq_num \in SequenceNumber
<1>1. net[q][p] # << >> /\ Head(net[q][p]).type = type /\ Head(net[q][p]).n = storage[p].promise
  BY DEF IncomingAccept, Incoming
<1>2. Head(net[q][p]) \in Message /\ Head(net[q][p]) \in Sendable(q, storage[q], p)
  BY <1>1, IncomingMessage
<1>3. Head(net[q][p]).n.pid \in Server
  BY <1>1, <1>2 DEF Sendable
<1> QED BY <1>1, <1>2, <1>3, MessageFields

\* handle_acceptsync.
LEMMA HandleAcceptSyncOK ==
  ASSUME Inv, NEW p \in Server, NEW q \in Server, handle_acceptsync(p, q), UNCHANGED << proposed, budget >>
  PROVE  Inv' /\ RoundsStep
<1> DEFINE m == Head(net[q][p])
           s == sync_log(storage[p], m.n, m.decided_idx, m.log_sync)
           proposals == buffered_proposals[p]
           forwards == s.stopsign = None /\ proposals # << >>
           out == IF forwards THEN forward_proposals_outgoing(p, outgoing[p], proposals) ELSE outgoing[p]
           f == [current_seq_num |-> m.seq_num, cached_promise_message |-> None,
                 latest_accepted_meta |-> [n |-> m.n, idx |-> cached_idx(out, q)]]
           reply == Accepted(m.n, s.accepted_idx)
           st == << "Follower", "Accept" >>
<1>1. /\ IncomingAccept(p, q, "AcceptSync")
      /\ \/ Panic(p, q) /\ UNCHANGED storage
         \/ /\ ~ sync_log_panics(storage[p], m.decided_idx, m.log_sync)
            /\ storage' = [storage EXCEPT ![p] = s]
            /\ state' = [state EXCEPT ![p] = st]
            /\ follower_state' = [follower_state EXCEPT ![p] = f]
            /\ buffered_proposals' \in {buffered_proposals, [buffered_proposals EXCEPT ![p] = << >>]}
            /\ EndCall(p, send(out, q, reply), Consume(p, q))
            /\ UNCHANGED << leader_state, buffered_stopsign, panicked >>
  BY DEF handle_acceptsync, Handled
<1>2. /\ net[q][p] # << >> /\ m \in Message /\ m.type = "AcceptSync"
      /\ m.n \in Ballot /\ m.n = storage[p].promise /\ m.n.pid \in Server /\ m.seq_num \in SequenceNumber
  BY <1>1, IncomingAcceptOK DEF AcceptTypes
<1>3. m.decided_idx \in Nat /\ m.log_sync \in LogSync
  BY <1>2, MessageFields DEF AcceptTypes
<1> HIDE DEF m
<1>4. CASE Panic(p, q) /\ UNCHANGED storage
  BY <1>2, <1>4, KeptOK, PanicOK
<1>5. CASE ~ (Panic(p, q) /\ UNCHANGED storage)
  <2>1. StorageOK(storage[p]) /\ storage[p].accepted_round \preceq storage[p].promise
    BY DEF Inv, StorageInv
  <2>2. StorageOK(s) /\ s.promise = storage[p].promise /\ s.accepted_round = m.n
    BY <1>1, <1>2, <1>3, <1>5, <2>1, SyncLogOK
  <2> HIDE DEF s
  <2>3. RoundsOK(p, s) /\ s.accepted_idx \in Nat
    BY <1>2, <2>1, <2>2, BallotReflexive DEF RoundsOK, StorageOK, Storage
  <2>4. OutOK(p, s, outgoing[p]) /\ PromisesOK(p, s, leader_state[p]) /\ leader_state[p] \in LeaderStates
    BY <2>3, OutgoingOK, KeptPromisesOK, KeptOK
  <2>5. proposals \in Entries /\ RestOK
    BY KeptOK DEF RestOK
  <2>6. OutOK(p, s, out)
    BY <2>4, <2>5, ForwardOutgoingOK
  <2> HIDE DEF out, forwards
  <2>7. f \in FollowerState /\ CachedOK(s, f)
    BY <1>2, <2>6, CachedIdxType DEF FollowerState, CachedOK
  <2>8. reply \in Message /\ reply.type = "Accepted"
    BY <1>2, <2>3 DEF Accepted, Message
  <2> HIDE DEF f, reply
  <2>9. OutOK(p, s, send(out, q, reply))
    BY <2>6, <2>8, PlainSendable, SendOK DEF AcceptTypes
  <2>10. st \in States /\ RoleOK(st, s, leader_state[p])
    BY <1>2, <2>2 DEF States, RoleOK
  <2> HIDE DEF st
  <2>11. RestOK' /\ ChanOK(Consume(p, q))
    <3>1. << >> \in Entries
      BY EmptySeq DEF Entries
    <3>2. buffered_proposals' \in [Server -> Entries]
      BY <3>1, <1>1, <1>5, <2>5 DEF RestOK
    <3> QED BY <3>2, <1>1, <1>2, <1>5, <2>5, ChannelsOK DEF RestOK
  <2>12. /\ storage' = [storage EXCEPT ![p] = s] /\ state' = [state EXCEPT ![p] = st]
         /\ leader_state' = [leader_state EXCEPT ![p] = leader_state[p]]
         /\ follower_state' = [follower_state EXCEPT ![p] = f]
         /\ EndCall(p, send(out, q, reply), Consume(p, q))
         /\ panicked' = panicked
    BY <1>1, <1>5, KeptOK
  <2> QED BY <2>3, <2>4, <2>7, <2>9, <2>10, <2>11, <2>12, CallPreservesInv
<1> QED BY <1>4, <1>5

\* A follower stores s and replies with what it has accepted.
LEMMA RepliesOK ==
  ASSUME Inv, NEW p \in Server, NEW s, StorageOK(s), SameRounds(storage[p], s),
         NEW f \in FollowerState, CachedOK(s, f), NEW out, OutOK(p, s, out), NEW chan, ChanOK(chan),
         storage' = [storage EXCEPT ![p] = s],
         follower_state' = [follower_state EXCEPT ![p] = f], EndCall(p, out, chan),
         UNCHANGED << state, leader_state, panicked >>, RestOK'
  PROVE  Inv' /\ RoundsStep
<1>1. RoundsOK(p, s)
  BY StoredOK
<1>2. PromisesOK(p, s, leader_state[p])
  BY <1>1, KeptPromisesOK
<1>3. p \notin panicked => RoleOK(state[p], s, leader_state[p])
  BY DEF SameRounds, Inv, RoleInv, RoleOK
<1> QED BY <1>1, <1>2, <1>3, KeptOK, CallPreservesInv

\* What follows every accept message that is handled.
LEMMA FollowOK ==
  ASSUME Inv, NEW p \in Server, NEW q \in Server, NEW type \in AcceptTypes, IncomingAccept(p, q, type),
         NEW s, StorageOK(s), SameRounds(storage[p], s), NEW replies \in BOOLEAN,
         follow(p, q, s, replies), UNCHANGED << proposed, budget >>
  PROVE  Inv' /\ RoundsStep
<1> DEFINE m == Head(net[q][p])
           f == [follower_state[p] EXCEPT !.current_seq_num = m.seq_num]
           out == outgoing[p]
           f1 == IF replies THEN reply_accepted_meta(f, out, m.n) ELSE f
           out1 == IF replies THEN reply_accepted_outgoing(f, out, m.n, s.accepted_idx) ELSE out
<1>1. /\ storage' = [storage EXCEPT ![p] = s]
      /\ follower_state' = [follower_state EXCEPT ![p] = f1]
      /\ EndCall(p, out1, Consume(p, q))
      /\ UNCHANGED << state, leader_state, buffered_proposals, buffered_stopsign, panicked >>
  BY DEF follow, Handled
<1>2. net[q][p] # << >> /\ m.n \in Ballot /\ m.n.pid \in Server /\ m.seq_num \in SequenceNumber
  BY IncomingAcceptOK
<1> HIDE DEF m
<1>3. OutOK(p, s, out) /\ CachedOK(s, follower_state[p])
  BY StoredOK, OutgoingOK, KeptPromisesOK
<1>4. f \in FollowerState /\ f.cached_promise_message = follower_state[p].cached_promise_message
  BY <1>2, KeptOK DEF FollowerState
<1> HIDE DEF f
<1>5. CachedOK(s, f) /\ s.accepted_idx \in Nat
  BY <1>3, <1>4 DEF CachedOK, StorageOK, Storage
<1>6. f1 \in FollowerState /\ CachedOK(s, f1) /\ OutOK(p, s, out1)
  BY <1>2, <1>3, <1>4, <1>5, ReplyAcceptedOK
<1> HIDE DEF f1, out1
<1>7. RestOK' /\ ChanOK(Consume(p, q))
  BY <1>1, <1>2, KeptOK, ChannelsOK DEF RestOK
<1> QED BY <1>1, <1>6, <1>7, RepliesOK

\* update_decided_idx keeps the storage well formed.
LEMMA UpdateDecidedIdxOK ==
  ASSUME NEW s, StorageOK(s), NEW decided_idx \in Nat
  PROVE  LET t == update_decided_idx(s, decided_idx) IN StorageOK(t) /\ SameRounds(s, t)
<1> DEFINE f == flush_batch(s)
           k == minimum(decided_idx, f.accepted_idx)
           t1 == [f EXCEPT !.decided_idx = k]
           t2 == [s EXCEPT !.decided_idx = decided_idx]
<1>1. StorageOK(f) /\ SameRounds(s, f)
  BY FlushBatchOK
<1> HIDE DEF f
<1>2. k \in Nat
  BY <1>1 DEF minimum, StorageOK, Storage
<1> HIDE DEF k
<1>3. StorageOK(t1) /\ SameRounds(s, t1)
  BY <1>1, <1>2 DEF StorageOK, Storage, SameRounds
<1>4. StorageOK(t2) /\ SameRounds(s, t2)
  BY DEF StorageOK, Storage, SameRounds
<1>5. update_decided_idx(s, decided_idx) \in {s, t1, t2}
  BY DEF update_decided_idx, t1, k, f
<1> HIDE DEF t1, t2
<1> QED BY <1>3, <1>4, <1>5 DEF SameRounds

\* handle_acceptdecide, handle_accept_stopsign and handle_decide.
LEMMA FollowersOK ==
  ASSUME Inv, NEW p \in Server, NEW q \in Server,
         handle_acceptdecide(p, q) \/ handle_accept_stopsign(p, q) \/ handle_decide(p, q),
         UNCHANGED << proposed, budget >>
  PROVE  Inv' /\ RoundsStep
<1> DEFINE m == Head(net[q][p])
<1>1. StorageOK(storage[p])
  BY KeptOK DEF RoundsOK
<1>2. CASE handle_acceptdecide(p, q)
  <2> DEFINE s == append_entries_with_batching(storage[p], m.entries)
             t == update_decided_idx(s, m.decided_idx)
             replies == fills_batch(storage[p], m.entries) \/ flushes_to_decide(s, m.decided_idx)
  <2>1. IncomingAccept(p, q, "AcceptDecide") /\ follow(p, q, t, replies)
    BY <1>2 DEF handle_acceptdecide
  <2>2. m.entries \in Entries /\ m.decided_idx \in Nat
    BY <2>1, IncomingAcceptOK, MessageFields DEF AcceptTypes
  <2>3. StorageOK(s) /\ SameRounds(storage[p], s)
    BY <1>1, <2>2, AppendWithBatchingOK
  <2> HIDE DEF m, s
  <2>4. StorageOK(t) /\ SameRounds(s, t)
    BY <2>2, <2>3, UpdateDecidedIdxOK
  <2>5. replies \in BOOLEAN
    BY DEF fills_batch, flushes_to_decide
  <2> HIDE DEF t, replies
  <2> QED BY <2>1, <2>3, <2>4, <2>5, FollowOK DEF SameRounds, AcceptTypes
<1>3. CASE handle_accept_stopsign(p, q)
  <2> DEFINE s == flush_batch(storage[p])
             t == set_stopsign(s, m.ss)
  <2>1. IncomingAccept(p, q, "AcceptStopSign") /\ follow(p, q, t, TRUE)
    BY <1>3 DEF handle_accept_stopsign
  <2>2. m.ss \in StopSign
    BY <2>1, IncomingAcceptOK, MessageFields DEF AcceptTypes
  <2>3. StorageOK(s) /\ SameRounds(storage[p], s)
    BY <1>1, FlushBatchOK
  <2> HIDE DEF m, s
  <2>4. StorageOK(t) /\ SameRounds(s, t)
    BY <2>2, <2>3, SetStopSignOK
  <2> HIDE DEF t
  <2> QED BY <2>1, <2>3, <2>4, FollowOK DEF SameRounds, AcceptTypes
<1>4. CASE handle_decide(p, q)
  <2> DEFINE t == update_decided_idx(storage[p], m.decided_idx)
             replies == flushes_to_decide(storage[p], m.decided_idx)
  <2>1. IncomingAccept(p, q, "Decide") /\ follow(p, q, t, replies)
    BY <1>4 DEF handle_decide
  <2>2. m.decided_idx \in Nat
    BY <2>1, IncomingAcceptOK, MessageFields DEF AcceptTypes
  <2> HIDE DEF m
  <2>3. StorageOK(t) /\ SameRounds(storage[p], t)
    BY <1>1, <2>2, UpdateDecidedIdxOK
  <2>4. replies \in BOOLEAN
    BY DEF flushes_to_decide
  <2> HIDE DEF t, replies
  <2> QED BY <2>1, <2>3, <2>4, FollowOK DEF AcceptTypes
<1> QED BY <1>2, <1>3, <1>4

------------------------------------------------------------------------------
(* Compaction, timeouts and the environment *)

\* A step of kind "kind" spends some of its budget.
LEMMA SpendOK ==
  ASSUME RestOK, NEW kind \in Bounded, NEW p \in Server, Spend(kind, p)
  PROVE  budget' \in [Bounded -> [Server -> Nat]]
<1> DEFINE k == budget[kind][p] - 1
<1>1. k \in Nat /\ budget' = [budget EXCEPT ![kind][p] = k]
  BY DEF Spend, RestOK
<1> HIDE DEF k
<1> QED BY <1>1 DEF RestOK

\* Compaction messages may always be sent.
LEMMA CompactionSendable ==
  ASSUME NEW p, NEW s, NEW q
  PROVE  /\ \A idx \in Nat : Compaction("Trim", idx) \in Sendable(p, s, q)
         /\ \A idx \in Nat \cup {None} : Compaction("Snapshot", idx) \in Sendable(p, s, q)
<1>1. ASSUME NEW idx \in Nat PROVE Compaction("Trim", idx) \in Sendable(p, s, q)
  BY DEF Compaction, Message, Sendable, AcceptTypes
<1>2. ASSUME NEW idx \in Nat \cup {None} PROVE Compaction("Snapshot", idx) \in Sendable(p, s, q)
  BY DEF Compaction, Message, Sendable, AcceptTypes
<1> QED BY <1>1, <1>2

\* trim.
LEMMA TrimOK ==
  ASSUME Inv, NEW p \in Server, NEW idx \in Nat, trim(p, idx)
  PROVE  Inv' /\ RoundsStep
<1> DEFINE s == try_trim(storage[p], idx)
           msgs == [q \in Peers(p) |-> Compaction("Trim", idx)]
<1>1. /\ Spend("trim", p)
      /\ storage' = [storage EXCEPT ![p] = s]
      /\ EndCall(p, push(outgoing[p], msgs), net)
      /\ UNCHANGED << state, leader_state, follower_state, buffered_proposals,
                      buffered_stopsign, panicked, proposed >>
  BY DEF trim, Called
<1>2. StorageOK(s) /\ SameRounds(storage[p], s)
  BY KeptOK, TryTrimOK DEF RoundsOK
<1> HIDE DEF s
<1>3. OutOK(p, s, push(outgoing[p], msgs))
  BY <1>2, StoredOK, OutgoingOK, CompactionSendable, PushOK
<1> HIDE DEF msgs
<1>4. RestOK' /\ ChanOK(net)
  BY <1>1, KeptOK, SpendOK, ChannelsOK DEF RestOK, Bounded
<1> QED BY <1>1, <1>2, <1>3, <1>4, StoresOK

\* snapshot.
LEMMA SnapshotOK ==
  ASSUME Inv, NEW p \in Server, NEW idx \in Nat \cup {None}, NEW local_only, snapshot(p, idx, local_only)
  PROVE  Inv' /\ RoundsStep
<1> DEFINE s == try_snapshot(storage[p], idx)
           msgs == [q \in Peers(p) |-> Compaction("Snapshot", idx)]
           out == IF local_only THEN outgoing[p] ELSE push(outgoing[p], msgs)
<1>1. /\ Spend("snapshot", p)
      /\ storage' = [storage EXCEPT ![p] = s]
      /\ EndCall(p, out, net)
      /\ UNCHANGED << state, leader_state, follower_state, buffered_proposals,
                      buffered_stopsign, panicked, proposed >>
  BY DEF snapshot, Called
<1>2. StorageOK(s) /\ SameRounds(storage[p], s)
  BY KeptOK, TrySnapshotOK DEF RoundsOK
<1> HIDE DEF s
<1>3. OutOK(p, s, outgoing[p]) /\ OutOK(p, s, push(outgoing[p], msgs))
  BY <1>2, StoredOK, OutgoingOK, CompactionSendable, PushOK
<1> HIDE DEF msgs
<1>4. OutOK(p, s, out)
  BY <1>3
<1> HIDE DEF out
<1>5. RestOK' /\ ChanOK(net)
  BY <1>1, KeptOK, SpendOK, ChannelsOK DEF RestOK, Bounded
<1> QED BY <1>1, <1>2, <1>4, <1>5, StoresOK

\* handle_compaction.
LEMMA HandleCompactionOK ==
  ASSUME Inv, NEW p \in Server, NEW q \in Server, handle_compaction(p, q), UNCHANGED << proposed, budget >>
  PROVE  Inv' /\ RoundsStep
<1> DEFINE m == Head(net[q][p])
           s == IF m.kind = "Trim" THEN try_trim(storage[p], m.idx) ELSE try_snapshot(storage[p], m.idx)
<1>1. /\ net[q][p] # << >> /\ m.type = "Compaction"
      /\ storage' = [storage EXCEPT ![p] = s]
      /\ EndCall(p, outgoing[p], Consume(p, q))
      /\ UNCHANGED << state, leader_state, follower_state, buffered_proposals, buffered_stopsign, panicked >>
  BY DEF handle_compaction, Incoming, Handled
<1>2. \/ m.kind = "Trim" /\ m.idx \in Nat
      \/ m.kind = "Snapshot" /\ m.idx \in Nat \cup {None}
  BY <1>1, IncomingMessage, MessageFields
<1>3. StorageOK(storage[p])
  BY KeptOK DEF RoundsOK
<1> HIDE DEF m
<1>4. StorageOK(s) /\ SameRounds(storage[p], s)
  BY <1>2, <1>3, TryTrimOK, TrySnapshotOK
<1> HIDE DEF s
<1>5. OutOK(p, s, outgoing[p]) /\ RestOK' /\ ChanOK(Consume(p, q))
  BY <1>1, <1>4, StoredOK, OutgoingOK, KeptOK, ChannelsOK DEF RestOK
<1> QED BY <1>1, <1>4, <1>5, StoresOK

\* What resend_messages_leader sends again: to those who promised only.
LEMMA ResentOK ==
  ASSUME Inv, NEW p \in Server, p \notin panicked, resend_messages_leader(p),
         UNCHANGED << storage, leader_state, follower_state, panicked >>, RestOK'
  PROVE  Inv' /\ RoundsStep
<1> DEFINE s == storage[p]
           l == leader_state[p]
           prep == Prepare(l.n_leader, s)
           dec(q) == Decide(l.n_leader, l.follower_seq_nums[q], s.decided_idx)
           stop(q) == AcceptStopSign(l.n_leader, l.follower_seq_nums[q], s.stopsign)
           resent(q) ==
             IF q \in get_preparable_peers(l, p)
               THEN << prep >>
               ELSE IF /\ state[p][2] = "Accept"
                       /\ accepted_reconfiguration(s)
                       /\ q \in get_promised_followers(l)
                      THEN IF stopsign_is_decided(s)
                             THEN << dec(q) >>
                             ELSE IF l.accepted_indexes[q] # s.accepted_idx
                                    THEN << stop(q) >>
                                    ELSE << >>
                      ELSE << >>
           out == [q \in Server |-> outgoing[p][q] \o resent(q)]
<1>1. EndCall(p, out, net) /\ state' = [state EXCEPT ![p] = state[p]] /\ state[p] \in States
  BY KeptOK DEF resend_messages_leader, Called
<1>2. /\ StorageOK(s) /\ l \in LeaderStates /\ PromisesOK(p, s, l) /\ OutOK(p, s, outgoing[p])
      /\ s.decided_idx \in Nat /\ s.stopsign \in StopSign \cup {None} /\ l.n_leader \in Ballot
  BY KeptOK, KeptPromisesOK, OutgoingOK DEF RoundsOK, StorageOK, Storage, LeaderStates
<1>3. ASSUME NEW q \in Server PROVE resent(q) \in Seq(Sendable(p, s, q))
  <2>1. l.follower_seq_nums[q] \in SequenceNumber
    BY <1>2, ServersHaveSlots DEF LeaderStates
  <2>2. prep \in Sendable(p, s, q)
    <3>1. prep \in Message /\ prep.type = "Prepare"
      BY <1>2 DEF Prepare, Message, StorageOK, Storage
    <3> QED BY <3>1, PlainSendable DEF AcceptTypes
  <2>3. ASSUME is_promised(l, q) PROVE dec(q) \in Sendable(p, s, q)
    <3>1. dec(q) \in Message /\ dec(q).type = "Decide" /\ dec(q).n = l.n_leader
      BY <1>2, <2>1 DEF Decide, Message
    <3> HIDE DEF dec, s, l
    <3> QED BY <3>1, <2>3, <1>2, AcceptSendable DEF AcceptTypes
  <2>4. ASSUME is_promised(l, q), s.stopsign # None PROVE stop(q) \in Sendable(p, s, q)
    <3>1. stop(q) \in Message /\ stop(q).type = "AcceptStopSign" /\ stop(q).n = l.n_leader
      BY <1>2, <2>1, <2>4 DEF AcceptStopSign, Message
    <3> HIDE DEF stop, s, l
    <3> QED BY <3>1, <2>4, <1>2, AcceptSendable DEF AcceptTypes
  <2> HIDE DEF prep, dec, stop
  <2>5. \/ resent(q) = << >>
        \/ resent(q) = << prep >>
        \/ is_promised(l, q) /\ resent(q) = << dec(q) >>
        \/ is_promised(l, q) /\ s.stopsign # None /\ resent(q) = << stop(q) >>
    BY DEF get_promised_followers, accepted_reconfiguration
  <2> HIDE DEF resent, s, l
  <2>6. PICK x \in Sendable(p, s, q) : resent(q) = << >> \/ resent(q) = << x >>
    BY <2>2, <2>3, <2>4, <2>5
  <2>7. << x >> \in Seq(Sendable(p, s, q)) /\ << >> \in Seq(Sendable(p, s, q))
    BY EmptySeq
  <2> QED BY <2>6, <2>7
<1> HIDE DEF resent, s, l
<1>4. OutOK(p, s, out)
  BY <1>2, <1>3, ConcatProperties DEF OutOK
<1> HIDE DEF out
<1> QED BY <1>1, <1>4, ChannelsOK, StateOnlyOK DEF s

\* resend_message_timeout.
LEMMA ResendTimeoutOK ==
  ASSUME Inv, NEW p \in Server, resend_message_timeout(p)
  PROVE  Inv' /\ RoundsStep
<1> DEFINE cached == follower_state[p].cached_promise_message
           msgs == [q \in Peers(p) |-> PrepareReq(storage[p].promise)]
           st == << "Follower", "Recover" >>
<1>1. /\ p \notin panicked
      /\ UNCHANGED << storage, leader_state, follower_state, buffered_proposals,
                      buffered_stopsign, panicked, proposed >>
      /\ \/ resend_messages_leader(p)
         \/ /\ cached # None
            /\ EndCall(p, send(outgoing[p], cached.n.pid, cached), net)
            /\ UNCHANGED state
         \/ /\ EndCall(p, push(outgoing[p], msgs), net)
            /\ state' = [state EXCEPT ![p] = st]
  BY DEF resend_message_timeout, resend_messages_follower, Called
<1>2. RestOK' /\ ChanOK(net)
  BY <1>1, KeptOK, SpendOK, ChannelsOK DEF RestOK, Bounded, resend_message_timeout
<1>3. OutOK(p, storage[p], outgoing[p]) /\ StorageOK(storage[p])
  BY KeptOK, OutgoingOK DEF RoundsOK
<1>4. CASE resend_messages_leader(p)
  BY <1>1, <1>2, <1>4, ResentOK
<1>5. CASE cached # None /\ EndCall(p, send(outgoing[p], cached.n.pid, cached), net) /\ UNCHANGED state
  <2>1. cached \in PromiseMessage /\ cached.n \preceq storage[p].promise
    BY <1>5, KeptOK DEF FollowerState, Inv, CachedInv
  <2>2. \A q : cached \in Sendable(p, storage[p], q)
    BY <2>1 DEF Sendable, Message, PromiseMessage, AcceptTypes
  <2> HIDE DEF cached
  <2>3. OutOK(p, storage[p], send(outgoing[p], cached.n.pid, cached))
    BY <2>2, <1>3, SendOK
  <2>4. state' = [state EXCEPT ![p] = state[p]] /\ state[p] \in States
    BY <1>5, KeptOK
  <2> QED BY <1>1, <1>2, <1>5, <2>3, <2>4, StateOnlyOK
<1>6. CASE EndCall(p, push(outgoing[p], msgs), net) /\ state' = [state EXCEPT ![p] = st]
  <2>1. OutOK(p, storage[p], push(outgoing[p], msgs))
    BY <1>3, PrepareReqSendable, PushOK
  <2>2. st \in States /\ RoleOK(st, storage[p], leader_state[p])
    BY RecoverOK
  <2> HIDE DEF msgs, st
  <2> QED BY <1>1, <1>2, <1>6, <2>1, <2>2, StateOnlyOK
<1> QED BY <1>1, <1>4, <1>5, <1>6

\* flush_batch_timeout.
LEMMA FlushTimeoutOK ==
  ASSUME Inv, NEW p \in Server, flush_batch_timeout(p)
  PROVE  Inv' /\ RoundsStep
<1> DEFINE s == flush_batch(storage[p])
           f == follower_state[p]
<1>1. /\ p \notin panicked
      /\ UNCHANGED << state, buffered_proposals, buffered_stopsign, panicked, proposed >>
      /\ flush_batch_leader(p) \/ flush_batch_follower(p)
  BY DEF flush_batch_timeout
<1>2. RestOK' /\ ChanOK(net)
  BY <1>1, KeptOK, SpendOK, ChannelsOK DEF RestOK, Bounded, flush_batch_timeout
<1>3. StorageOK(storage[p])
  BY KeptOK DEF RoundsOK
<1>4. StorageOK(s) /\ SameRounds(storage[p], s) /\ storage[p].batched_entries \in Entries
  BY <1>3, FlushBatchOK DEF StorageOK, Storage
<1>5. CASE flush_batch_leader(p)
  <2>1. accepts(p, s, storage[p].batched_entries, net) /\ follower_state' = follower_state
    BY <1>5 DEF flush_batch_leader
  <2> HIDE DEF s
  <2> QED BY <1>1, <1>2, <1>4, <2>1, AcceptsOK
<1>6. CASE flush_batch_follower(p)
  <2> DEFINE f1 == reply_accepted_meta(f, outgoing[p], s.promise)
             out == reply_accepted_outgoing(f, outgoing[p], s.promise, s.accepted_idx)
  <2>1. /\ state[p] = << "Follower", "Accept" >>
        /\ storage' = [storage EXCEPT ![p] = s]
        /\ follower_state' = [follower_state EXCEPT ![p] = f1]
        /\ EndCall(p, out, net)
        /\ leader_state' = leader_state
    BY <1>6 DEF flush_batch_follower, Called
  <2> HIDE DEF s
  <2>2. s.promise \in Ballot /\ s.accepted_idx \in Nat /\ s.promise = storage[p].promise
    BY <1>4 DEF StorageOK, Storage, SameRounds
  <2>3. s.promise.pid \in Server
    BY <1>1, <2>1, <2>2 DEF Inv, RoleInv, RoleOK
  <2>4. OutOK(p, s, outgoing[p]) /\ CachedOK(s, f) /\ f \in FollowerState
    BY <1>4, StoredOK, OutgoingOK, KeptPromisesOK, KeptOK
  <2> HIDE DEF f
  <2>5. OutOK(p, s, out) /\ f1 \in FollowerState /\ CachedOK(s, f1)
    BY <2>2, <2>3, <2>4, ReplyAcceptedOK
  <2> HIDE DEF f1, out
  <2> QED BY <1>1, <1>2, <1>4, <2>1, <2>5, RepliesOK
<1> QED BY <1>1, <1>5, <1>6

\* user_reconnected.
LEMMA UserReconnectedOK ==
  ASSUME Inv, NEW p \in Server, NEW q \in Server, user_reconnected(p, q)
  PROVE  Inv' /\ RoundsStep
<1>1. /\ reconnected(p, q, outgoing[p], net)
      /\ UNCHANGED << storage, leader_state, follower_state, buffered_proposals,
                      buffered_stopsign, panicked, proposed >>
  BY DEF user_reconnected
<1>2. RestOK' /\ ChanOK(net)
  BY <1>1, KeptOK, SpendOK, ChannelsOK DEF RestOK, Bounded, user_reconnected
<1> QED BY <1>1, <1>2, ReconnectedOK

\* A step in which the servers keep their state and messages move, or get lost.
LEMMA MessagesOnlyOK ==
  ASSUME Inv, NEW p \in Server, NEW l \in LeaderStates, SamePromises(leader_state[p], l),
         NEW f \in FollowerState, f.cached_promise_message = follower_state[p].cached_promise_message,
         NEW chan, ChanOK(chan), Ends(p, outgoing[p], chan),
         leader_state' = [leader_state EXCEPT ![p] = l],
         follower_state' = [follower_state EXCEPT ![p] = f],
         UNCHANGED << storage, state, panicked >>, RestOK'
  PROVE  Inv' /\ RoundsStep
<1>1. RoundsOK(p, storage[p])
  BY KeptOK
<1>2. PromisesOK(p, storage[p], l) /\ CachedOK(storage[p], f) /\ OutOK(p, storage[p], outgoing[p])
  BY <1>1, KeptPromisesOK, SamePromisesOK, OutgoingOK DEF CachedOK
<1>3. p \notin panicked' => RoleOK(state[p], storage[p], l)
  BY DEF Inv, RoleInv, RoleOK, SamePromises
<1>4. panicked' \in SUBSET Server /\ panicked' \ {p} = panicked \ {p}
  BY KeptOK
<1> QED BY <1>1, <1>2, <1>3, <1>4, KeptOK, StepPreservesInv

\* ignore, drop and take_outgoing_msgs.
LEMMA EnvironmentOK ==
  ASSUME Inv, NEW p \in Server
  PROVE  /\ \A q \in Server : ignore(p, q) /\ UNCHANGED << proposed, budget >> => Inv' /\ RoundsStep
         /\ \A q \in Server : drop(p, q) => Inv' /\ RoundsStep
         /\ take_outgoing_msgs(p) => Inv' /\ RoundsStep
<1>1. /\ leader_state = [leader_state EXCEPT ![p] = leader_state[p]] /\ leader_state[p] \in LeaderStates
      /\ follower_state = [follower_state EXCEPT ![p] = follower_state[p]] /\ follower_state[p] \in FollowerState
      /\ SamePromises(leader_state[p], leader_state[p]) /\ RestOK
  BY KeptOK DEF SamePromises
<1>2. ASSUME NEW q \in Server, net[q][p] # << >>, net' = Consume(p, q),
             UNCHANGED << serverVars, outgoing, panicked >>, RestOK'
      PROVE  Inv' /\ RoundsStep
  <2>1. UNCHANGED << storage, state, leader_state, follower_state >>
    BY <1>2 DEF serverVars
  <2>2. ChanOK(Consume(p, q)) /\ Ends(p, outgoing[p], Consume(p, q))
    BY <1>2, ChannelsOK DEF Ends
  <2> QED BY <1>1, <1>2, <2>1, <2>2, MessagesOnlyOK
<1>3. ASSUME NEW q \in Server, ignore(p, q), UNCHANGED << proposed, budget >>
      PROVE  Inv' /\ RoundsStep
  <2>1. RestOK'
    BY <1>1, <1>3 DEF ignore, Discard, serverVars, RestOK
  <2> QED BY <1>2, <1>3, <2>1 DEF ignore, Discard
<1>4. ASSUME NEW q \in Server, drop(p, q)
      PROVE  Inv' /\ RoundsStep
  <2>1. RestOK'
    BY <1>1, <1>4, SpendOK DEF drop, serverVars, RestOK, Bounded
  <2> QED BY <1>2, <1>4, <2>1 DEF drop
<1>5. ASSUME take_outgoing_msgs(p)
      PROVE  Inv' /\ RoundsStep
  <2> DEFINE l == reset_latest_accept_meta(leader_state[p])
             f == [follower_state[p] EXCEPT !.latest_accepted_meta = [n |-> DefaultBallot, idx |-> 0]]
  <2>1. /\ Ends(p, outgoing[p], net)
        /\ leader_state' = [leader_state EXCEPT ![p] = l]
        /\ UNCHANGED << storage, state, panicked >>
        /\ RestOK'
    BY <1>1, <1>5 DEF take_outgoing_msgs, Ends, RestOK
  <2>2. l \in LeaderStates /\ SamePromises(leader_state[p], l)
    BY <1>1 DEF reset_latest_accept_meta, LeaderStates, SamePromises, is_promised
  <2>3. f \in FollowerState /\ f.cached_promise_message = follower_state[p].cached_promise_message
    BY <1>1, DefaultBallotType DEF FollowerState
  <2>4. follower_state' = [follower_state EXCEPT ![p] = f]
    BY <1>5 DEF take_outgoing_msgs, Inv, TypeOK
  <2> HIDE DEF l, f
  <2> QED BY <2>1, <2>2, <2>3, <2>4, ChannelsOK, MessagesOnlyOK
<1> QED BY <1>3, <1>4, <1>5

\* restart: the promise survives, and so do the messages on their way.
LEMMA RestartOK ==
  ASSUME Inv, NEW p \in Server, restart(p)
  PROVE  Inv' /\ RoundsStep
<1> DEFINE s == load_cache(storage[p])
           l == LeaderState_with(s.promise)
           f == DefaultFollowerState
           st == << "Follower", "Recover" >>
           msgs == [q \in Peers(p) |-> PrepareReq(s.promise)]
           out == push(NoMessages, msgs)
<1>1. /\ storage' = [storage EXCEPT ![p] = s]
      /\ state' = [state EXCEPT ![p] = st]
      /\ leader_state' = [leader_state EXCEPT ![p] = l]
      /\ follower_state' = [follower_state EXCEPT ![p] = f]
      /\ panicked' = panicked \ {p}
      /\ EndCall(p, out, net)
  BY DEF restart, Called
<1>2. StorageOK(s) /\ SameRounds(storage[p], s)
  BY KeptOK, LoadCacheOK DEF RoundsOK
<1> HIDE DEF s
<1>3. RoundsOK(p, s) /\ s.promise \in Ballot
  BY <1>2, StoredOK DEF StorageOK, Storage
<1>4. OutOK(p, s, out)
  BY <1>2, <1>3, OutgoingOK, PrepareReqSendable, PushOK
<1> HIDE DEF msgs, out
<1>5. l \in LeaderStates /\ PromisesOK(p, s, l)
  BY <1>3, LeaderStateWithOK, ServersHaveSlots DEF PromisesOK
<1> HIDE DEF l
<1>6. f \in FollowerState /\ CachedOK(s, f)
  BY DefaultBallotType DEF DefaultFollowerState, FollowerState, CachedOK, DefaultSequenceNumber, SequenceNumber
<1>7. st \in States /\ RoleOK(st, s, l)
  BY RecoverOK
<1> HIDE DEF f, st
<1>8. RestOK'
  <2>1. << >> \in Entries /\ RestOK
    BY KeptOK, EmptySeq DEF Entries
  <2>2. budget' \in [Bounded -> [Server -> Nat]]
    BY <2>1, SpendOK DEF restart, Bounded
  <2> QED BY <2>1, <2>2 DEF restart, RestOK
<1>9. panicked' \in SUBSET Server /\ panicked' \ {p} = panicked \ {p}
  BY <1>1, KeptOK
<1>10. Ends(p, out, net) /\ ChanOK(net)
  BY <1>1, ChannelsOK DEF EndCall, Ends
<1> QED BY <1>1, <1>3, <1>4, <1>5, <1>6, <1>7, <1>8, <1>9, <1>10, StepPreservesInv

------------------------------------------------------------------------------
(* The induction *)

\* The invariant holds at the start.
LEMMA InitOK == Init => Inv
<1> SUFFICES ASSUME Init PROVE Inv
  OBVIOUS
<1>1. /\ StorageOK(EmptyStorage) /\ EmptyStorage.accepted_round \preceq EmptyStorage.promise
      /\ EmptyStorage \in Storage
  BY EmptyStorageOK, BallotReflexive DEF StorageOK, EmptyStorage
<1>2. /\ LeaderState_with(DefaultBallot) \in LeaderStates
      /\ \A r \in Slots : ~ is_promised(LeaderState_with(DefaultBallot), r)
  BY DefaultBallotType, LeaderStateWithOK
<1>3. DefaultFollowerState \in FollowerState /\ DefaultFollowerState.cached_promise_message = None
  BY DefaultBallotType DEF DefaultFollowerState, FollowerState, DefaultSequenceNumber, SequenceNumber
<1>4. NoMessages \in [Server -> Seq(Message)] /\ \A r \in Server : \A S : NoMessages[r] \in Seq(S)
  BY EmptySeq DEF NoMessages
<1>5. << >> \in Entries /\ Budget \in [Bounded -> [Server -> Nat]]
  BY EmptySeq, PaxosAssumption DEF Entries
<1>6. TypeOK
  BY <1>1, <1>2, <1>3, <1>4, <1>5 DEF Init, TypeOK
<1>7. StorageInv
  BY <1>1 DEF Init, StorageInv
<1>8. RoleInv
  BY DEF Init, RoleInv, RoleOK
<1>9. PromiseInv
  BY <1>2, ServersHaveSlots DEF Init, PromiseInv
<1>10. CachedInv
  BY <1>3 DEF Init, CachedInv
<1>11. ChannelInv
  BY <1>4 DEF Init, ChannelInv
<1> QED BY <1>6, <1>7, <1>8, <1>9, <1>10, <1>11 DEF Inv

\* Every handler of a message preserves the invariant.
LEMMA HandleOK ==
  ASSUME Inv, NEW p \in Server, NEW q \in Server, handle(p, q)
  PROVE  Inv' /\ RoundsStep
<1> UNCHANGED << proposed, budget >>
  BY DEF handle
<1>1. CASE handle_preparereq(p, q)
  BY <1>1, HandlePrepareReqOK
<1>2. CASE handle_prepare(p, q)
  BY <1>2, HandlePrepareOK
<1>3. CASE handle_promise_prepare(p, q)
  BY <1>3, HandlePromisePrepareOK
<1>4. CASE handle_promise_accept(p, q)
  BY <1>4, HandlePromiseAcceptOK
<1>5. CASE handle_acceptsync(p, q)
  BY <1>5, HandleAcceptSyncOK
<1>6. CASE handle_acceptdecide(p, q) \/ handle_accept_stopsign(p, q) \/ handle_decide(p, q)
  BY <1>6, FollowersOK
<1>7. CASE handle_notaccepted(p, q)
  BY <1>7, HandleNotAcceptedOK
<1>8. CASE handle_accepted(p, q)
  BY <1>8, HandleAcceptedOK
<1>9. CASE handle_forwarded_proposal(p, q) \/ handle_forwarded_stopsign(p, q)
  BY <1>9, ProposalsOK
<1>10. CASE handle_compaction(p, q)
  BY <1>10, HandleCompactionOK
<1>11. CASE reject_ballot(p, q) \/ dropped_preceding(p, q)
  BY <1>11, RefusedOK
<1>12. CASE ignore(p, q)
  BY <1>12, EnvironmentOK
<1> QED BY <1>1, <1>2, <1>3, <1>4, <1>5, <1>6, <1>7, <1>8, <1>9, <1>10, <1>11, <1>12 DEF handle

\* A step of SequencePaxos, in which the election may name any ballot.
AnyStep == Next \/ \E p \in Server, n \in Ballot : handle_leader(p, n)

\* Every step preserves the invariant and moves the rounds forward.
LEMMA AnyStepOK == Inv /\ [AnyStep]_vars => Inv' /\ (RoundsStep \/ UNCHANGED vars)
<1> SUFFICES ASSUME Inv, [AnyStep]_vars PROVE Inv' /\ (RoundsStep \/ UNCHANGED vars)
  OBVIOUS
<1>0. Ballots \subseteq Ballot
  BY PaxosAssumption
<1>1. ASSUME NEW p \in Server, NEW n \in Ballot, handle_leader(p, n) PROVE Inv' /\ RoundsStep
  BY <1>1, HandleLeaderOK
<1>2. ASSUME NEW p \in Server, NEW q \in Peers(p), handle(p, q) PROVE Inv' /\ RoundsStep
  BY <1>2, HandleOK DEF Peers
<1>3. ASSUME NEW p \in Server, NEW v \in Value, append(p, v) PROVE Inv' /\ RoundsStep
  BY <1>3, ProposalsOK
<1>4. ASSUME NEW p \in Server, NEW ss \in StopSign, reconfigure(p, ss) PROVE Inv' /\ RoundsStep
  BY <1>4, ProposalsOK
<1>5. ASSUME NEW p \in Server, NEW idx \in 1 .. storage[p].decided_idx, trim(p, idx)
      PROVE  Inv' /\ RoundsStep
  <2>1. idx \in Nat
    BY KeptOK DEF RoundsOK, StorageOK, Storage
  <2> QED BY <1>5, <2>1, TrimOK
<1>6. ASSUME NEW p \in Server, NEW local_only \in BOOLEAN,
             NEW idx \in {None} \cup 1 .. storage[p].decided_idx, snapshot(p, idx, local_only)
      PROVE  Inv' /\ RoundsStep
  <2>1. idx \in Nat \cup {None}
    BY KeptOK DEF RoundsOK, StorageOK, Storage
  <2> QED BY <1>6, <2>1, SnapshotOK
<1>7. ASSUME NEW p \in Server, resend_message_timeout(p) PROVE Inv' /\ RoundsStep
  BY <1>7, ResendTimeoutOK
<1>8. ASSUME NEW p \in Server, flush_batch_timeout(p) PROVE Inv' /\ RoundsStep
  BY <1>8, FlushTimeoutOK
<1>9. ASSUME NEW p \in Server, NEW q \in Peers(p), user_reconnected(p, q) PROVE Inv' /\ RoundsStep
  BY <1>9, UserReconnectedOK DEF Peers
<1>10. ASSUME NEW p \in Server, take_outgoing_msgs(p) PROVE Inv' /\ RoundsStep
  BY <1>10, EnvironmentOK
<1>11. ASSUME NEW p \in Server, NEW q \in Peers(p), drop(p, q) PROVE Inv' /\ RoundsStep
  BY <1>11, EnvironmentOK DEF Peers
<1>12. ASSUME NEW p \in Server, restart(p) PROVE Inv' /\ RoundsStep
  BY <1>12, RestartOK
<1>13. CASE UNCHANGED vars
  BY <1>13 DEF vars, serverVars, Inv, TypeOK, StorageInv, RoleInv, PromiseInv, CachedInv, ChannelInv, Sendable
<1> QED BY <1>0, <1>1, <1>2, <1>3, <1>4, <1>5, <1>6, <1>7, <1>8, <1>9, <1>10, <1>11, <1>12, <1>13
  DEF AnyStep, Next

\* In particular those in which it names one of Ballots.
LEMMA NextOK == Inv /\ [Next]_vars => Inv' /\ (RoundsStep \/ UNCHANGED vars)
BY AnyStepOK DEF AnyStep

\* The invariant holds in every reachable state.
THEOREM Invariance == Spec => []Inv
BY InitOK, NextOK, PTL DEF Spec

\* The types of storage, roles, bookkeeping and messages hold in every
\* reachable state, through crashes and panics.
THEOREM TypeCorrectness == Spec => []TypeOK
<1>1. Inv => TypeOK
  BY DEF Inv
<1> QED BY <1>1, Invariance, PTL

\* The branch "Should never happen" of check_valid_ballot is never taken: no
\* accept message of a round that its receiver has not promised is on its way.
THEOREM AcceptsArePromised ==
  ASSUME ~ Coded
  PROVE  Spec => []NeverUnpromised
<1>1. Inv => NeverUnpromised
  <2> SUFFICES ASSUME Inv, NEW p \in Server, NEW q \in Peers(p), NEW i \in DOMAIN net[q][p],
                      net[q][p][i].type \in AcceptTypes
               PROVE  net[q][p][i].n \preceq storage[p].promise
    BY DEF NeverUnpromised
  <2>1. q \in Server /\ q # p
    BY DEF Peers
  <2>2. net[q][p] \in Seq(Sendable(q, storage[q], p))
    BY <2>1 DEF Inv, ChannelInv
  <2>3. net[q][p][i] \in Sendable(q, storage[q], p)
    BY <2>2, LenProperties, ElementOfSeq
  <2> QED BY <2>1, <2>3 DEF Sendable, Broadcast
<1> QED BY <1>1, Invariance, PTL

\* The promise and the accepted round of a server never go back, not even
\* through a crash, and it accepts in rounds it promised only.
THEOREM RoundsNeverGoBack == Spec => RoundsAdvance
<1>1. Inv /\ [Next]_vars =>
        [\A p \in Server :
           /\ storage[p].promise \preceq storage'[p].promise
           /\ storage[p].accepted_round \preceq storage'[p].accepted_round
           /\ storage'[p].accepted_round \preceq storage'[p].promise]_vars
  BY NextOK DEF RoundsStep
<1> QED BY <1>1, Invariance, PTL DEF Spec, RoundsAdvance

==============================================================================
