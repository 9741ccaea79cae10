--------------------------- MODULE InternalStorage ---------------------------
(***************************************************************************)
(* The storage of one server as operators on a record: the state cache     *)
(* (storage/state_cache.rs) over the persistent state, with the log kept   *)
(* as the in-memory storage keeps it (memory_storage.rs).  Every field but *)
(* accepted_idx and batched_entries is written through to the persistent   *)
(* state in the same call, so one copy stands for both.                    *)
(*                                                                         *)
(* A snapshot is the sequence of entries it covers: the user's             *)
(* Snapshot::create and merge are external and only have to fold entries   *)
(* in order.                                                               *)
(***************************************************************************)
EXTENDS Ballots, Integers, Sequences

CONSTANTS Value,          \* log entries
          StopSign,       \* stop signs
          None,           \* Option::None
          BatchSize,      \* ServerConfig::batch_size
          UseSnapshots    \* T::Snapshot::use_snapshots()

ASSUME StorageAssumption ==
  /\ None \notin Value \cup StopSign
  /\ StopSign \cap Value = {}
  /\ BatchSize \in Nat \ {0}
  /\ UseSnapshots \in BOOLEAN

Entries == Seq(Value)

Storage ==
  [promise : Ballot, accepted_round : Ballot, decided_idx : Nat,
   log : Entries, compacted_idx : Nat, snapshot : Entries \cup {None},
   stopsign : StopSign \cup {None},
   accepted_idx : Nat, batched_entries : Entries]

\* Option<SnapshotType>: kind "None" stands for Option::None.
SnapshotType == [kind : {"Complete", "Delta"}, snapshot : Entries]
                \cup [kind : {"None"}, snapshot : {None}]

LogSync == [decided_snapshot : SnapshotType, suffix : Entries,
            sync_idx : Nat, stopsign : StopSign \cup {None}]

\* An Option<LogSync> is either.
ASSUME NoneAssumption == None \notin LogSync

EmptyStorage ==
  [promise |-> DefaultBallot, accepted_round |-> DefaultBallot, decided_idx |-> 0,
   log |-> << >>, compacted_idx |-> 0, snapshot |-> None, stopsign |-> None,
   accepted_idx |-> 0, batched_entries |-> << >>]

------------------------------------------------------------------------------
(* Helpers on sequences and numbers. *)

minimum(a, b) == IF a <= b THEN a ELSE b

\* Vec::truncate(k) and Vec::drain(0..min(k, len)).
\* (Variant: one entry too many is cut off.)
truncate_too_much(s, k) == SubSeq(s, 1, minimum(k, Len(s)) - 1)
truncate(s, k) == SubSeq(s, 1, minimum(k, Len(s)))
drain(s, k) == SubSeq(s, minimum(k, Len(s)) + 1, Len(s))

------------------------------------------------------------------------------
(* Reads of the persistent log.  Indices count from the first entry ever   *)
(* appended; the log holds those from compacted_idx on.                    *)

\* The subtraction from - trimmed_idx underflows: the server panics.
get_suffix_panics(s, from) == from < s.compacted_idx

get_suffix(s, from) == drain(s.log, from - s.compacted_idx)

get_entries(s, from, to) ==
  IF /\ s.compacted_idx <= from
     /\ from <= to
     /\ to - s.compacted_idx <= Len(s.log)
    THEN SubSeq(s.log, from - s.compacted_idx + 1, to - s.compacted_idx)
    ELSE << >>

stopsign_is_decided(s) == s.stopsign # None /\ s.decided_idx = s.accepted_idx

get_decided_idx_without_stopsign(s) ==
  IF stopsign_is_decided(s) THEN s.decided_idx - 1 ELSE s.decided_idx

------------------------------------------------------------------------------
(* Appending, with and without the batch. *)

append_entries_without_batching(s, entries) ==
  [s EXCEPT !.log = @ \o entries, !.accepted_idx = @ + Len(entries)]

flush_batch(s) ==
  append_entries_without_batching([s EXCEPT !.batched_entries = << >>], s.batched_entries)

\* take_entries_if_batch_is_full returns Some.
fills_batch(s, entries) == Len(s.batched_entries) + Len(entries) >= BatchSize

append_entries_with_batching(s, entries) ==
  LET batched == [s EXCEPT !.batched_entries = @ \o entries]
  IN  IF fills_batch(s, entries) THEN flush_batch(batched) ELSE batched

\* Variant: the stop sign takes no index.
append_uncounted_stopsign(s, ss) == [flush_batch(s) EXCEPT !.stopsign = ss]

append_stopsign(s, ss) ==
  LET flushed == flush_batch(s)
  IN  [flushed EXCEPT !.stopsign = ss, !.accepted_idx = @ + 1]

\* set_stopsign(Some(ss)); the protocol never passes None.
set_stopsign(s, ss) ==
  [s EXCEPT !.stopsign = ss,
            !.accepted_idx = IF s.stopsign = None THEN @ + 1 ELSE @]

------------------------------------------------------------------------------
(* Snapshots and log synchronisation. *)

merge(snapshot, delta) == IF snapshot = None THEN delta ELSE snapshot \o delta

\* Variant: what was compacted before is forgotten.
create_fresh_snapshot(s, compact_idx) == get_entries(s, s.compacted_idx, compact_idx)

\* Fails with TrimmedIndex if compact_idx < compacted_idx.
create_snapshot(s, compact_idx) ==
  merge(s.snapshot, get_entries(s, s.compacted_idx, compact_idx))

create_diff_snapshot(s, from) ==
  LET log_decided_idx == get_decided_idx_without_stopsign(s)
  IN  IF from > s.compacted_idx
        THEN [kind |-> "Delta", snapshot |-> get_entries(s, from, log_decided_idx)]
        ELSE IF s.compacted_idx < log_decided_idx
               THEN [kind |-> "Complete", snapshot |-> create_snapshot(s, log_decided_idx)]
               ELSE [kind |-> IF s.snapshot = None THEN "None" ELSE "Complete",
                     snapshot |-> s.snapshot]

\* Variant: entries are sent although they were compacted.
syncs_with_entries(s, common_prefix_idx) == FALSE

syncs_with_snapshot(s, common_prefix_idx) ==
  UseSnapshots /\ s.decided_idx > common_prefix_idx

create_log_sync_panics(s, common_prefix_idx) ==
  get_suffix_panics(s, IF syncs_with_snapshot(s, common_prefix_idx)
                         THEN s.decided_idx ELSE common_prefix_idx)

\* Variant: the follower is told to cut one entry too many.
create_short_log_sync(s, common_prefix_idx, other_logs_decided_idx) ==
  [decided_snapshot |-> [kind |-> "None", snapshot |-> None],
   suffix |-> get_suffix(s, common_prefix_idx),
   sync_idx |-> common_prefix_idx - 1,
   stopsign |-> s.stopsign]

\* What another server needs to bring its log to ours: everything after
\* common_prefix_idx, or a snapshot of the decided part and what follows it.
create_log_sync(s, common_prefix_idx, other_logs_decided_idx) ==
  IF syncs_with_snapshot(s, common_prefix_idx)
    THEN [decided_snapshot |-> create_diff_snapshot(s, other_logs_decided_idx),
          suffix |-> get_suffix(s, s.decided_idx),
          sync_idx |-> get_decided_idx_without_stopsign(s),
          stopsign |-> s.stopsign]
    ELSE [decided_snapshot |-> [kind |-> "None", snapshot |-> None],
          suffix |-> get_suffix(s, common_prefix_idx),
          sync_idx |-> common_prefix_idx,
          stopsign |-> s.stopsign]

\* The decided index is already the new one when a Delta is merged, so the
\* snapshot of the own log reaches up to it.
create_decided_snapshot_idx(s, decided_idx) ==
  get_decided_idx_without_stopsign([s EXCEPT !.decided_idx = decided_idx])

sync_log_panics(s, decided_idx, sync) ==
  /\ sync # None
  /\ \/ sync.sync_idx < s.compacted_idx
     \/ /\ sync.decided_snapshot.kind = "Delta"
        /\ create_decided_snapshot_idx(s, decided_idx) < s.compacted_idx

sync_log(s, accepted_round, decided_idx, sync) ==
  LET s1 == [s EXCEPT !.accepted_round = accepted_round, !.decided_idx = decided_idx]
      kind == sync.decided_snapshot.kind
  IN  IF sync = None
        THEN s1
        ELSE [s1 EXCEPT
               !.compacted_idx = IF kind = "None" THEN @ ELSE sync.sync_idx,
               !.snapshot = CASE kind = "None" -> @
                              [] kind = "Complete" -> sync.decided_snapshot.snapshot
                              [] kind = "Delta" ->
                                   merge(create_snapshot(s, create_decided_snapshot_idx(s, decided_idx)),
                                         sync.decided_snapshot.snapshot),
               !.log = IF kind = "None"
                         THEN truncate(@, sync.sync_idx - s.compacted_idx) \o sync.suffix
                         ELSE sync.suffix,
               !.stopsign = sync.stopsign,
               !.accepted_idx = sync.sync_idx + Len(sync.suffix)
                                + IF sync.stopsign = None THEN 0 ELSE 1]

------------------------------------------------------------------------------
(* Compaction.  The index of a compaction call counts the stop sign. *)

compaction_idx(s, idx) ==
  IF idx = s.decided_idx THEN get_decided_idx_without_stopsign(s) ELSE idx

\* Variant: one entry too many is removed.
compact_too_much(s, idx) ==
  [s EXCEPT !.log = drain(@, idx + 1 - s.compacted_idx), !.compacted_idx = idx]

compact(s, idx) ==
  [s EXCEPT !.log = drain(@, idx - s.compacted_idx), !.compacted_idx = idx]

\* Fails with UndecidedIndex if idx > decided_idx.
try_trim(s, idx) ==
  LET new_compacted_idx == compaction_idx(s, idx)
  IN  IF idx <= s.decided_idx /\ new_compacted_idx > s.compacted_idx
        THEN compact(s, new_compacted_idx)
        ELSE s

\* snapshot_idx None means all that is decided.
try_snapshot(s, snapshot_idx) ==
  LET idx == IF snapshot_idx = None THEN s.decided_idx ELSE snapshot_idx
      new_compacted_idx == compaction_idx(s, idx)
  IN  IF idx <= s.decided_idx /\ new_compacted_idx > s.compacted_idx
        THEN [compact(s, new_compacted_idx) EXCEPT
                !.snapshot = create_snapshot(s, new_compacted_idx)]
        ELSE s

------------------------------------------------------------------------------
\* Variants: the last entry, or the promise, was not persisted.
load_unsynced(s) ==
  LET lost == truncate(s.log, Len(s.log) - 1)
  IN  [s EXCEPT !.batched_entries = << >>, !.log = lost,
                !.accepted_idx = Len(lost) + s.compacted_idx]
load_without_promise(s) ==
  [s EXCEPT !.batched_entries = << >>, !.promise = DefaultBallot]

\* load_cache on restart: the batch is lost and accepted_idx is recomputed
\* from what was persisted.
load_cache(s) ==
  [s EXCEPT !.batched_entries = << >>,
            !.accepted_idx = Len(s.log) + s.compacted_idx
                             + IF s.stopsign = None THEN 0 ELSE 1]
==============================================================================
