-------------------------- MODULE PersistentStorage --------------------------
(***************************************************************************)
(* The storage of a server over RocksDB (persistent_storage.rs), below the *)
(* state cache that InternalStorage keeps of it (internal_storage.rs).     *)
(* Entries are kept under their index as key, state under keys of its own; *)
(* a write batch takes effect at once.  Serialising a value and reading it *)
(* back gives the same value, and a write that fails ends the process,     *)
(* which is a crash before the write.                                      *)
(***************************************************************************)
EXTENDS Ballots, Integers, Sequences, FiniteSetsExt

CONSTANTS Value, StopSign, None, BatchSize, UseSnapshots,   \* as in InternalStorage
          Ballots, MaxIdx, MaxSuffix                        \* as in ReplicaStorage

ASSUME PersistenceAssumption ==
  /\ Ballots \subseteq Ballot
  /\ None \notin Value \cup StopSign \cup Ballot \cup Nat
  /\ Value \cap StopSign = {}
  /\ BatchSize \in Nat \ {0}
  /\ UseSnapshots \in BOOLEAN
  /\ MaxIdx \in Nat /\ MaxSuffix \in Nat

VARIABLES db,             \* what RocksDB holds: the column LOG and the state keys
          next_log_key,   \* the key of the next entry, kept by the process
          state_cache     \* StateCache, with the batch

vars == << db, next_log_key, state_cache >>

EmptyDB ==
  [LOG |-> << >>, NPROM |-> None, ACC |-> None, DECIDE |-> None, TRIM |-> None,
   STOPSIGN |-> None, SNAPSHOT |-> None]

unwrap_or(option, default) == IF option = None THEN default ELSE option

------------------------------------------------------------------------------
(* Writes, as operators on a pair w of a database and a next key. *)

\* delete_range_cf: keys from_key up to, without, to_key.
delete_range(log, from_key, to_key) ==
  [k \in {j \in DOMAIN log : j < from_key \/ to_key <= j} |-> log[k]]

batch_append_entries(w, entries) ==
  LET keys == w.next_log_key .. w.next_log_key + Len(entries) - 1
  IN  [db |-> [w.db EXCEPT !.LOG =
                 [k \in DOMAIN @ \cup keys |-> IF k \in keys THEN entries[k - w.next_log_key + 1]
                                                             ELSE @[k]]],
       next_log_key |-> w.next_log_key + Len(entries)]

\* Variant: what follows the new entries is left behind.
append_without_delete(w, from_idx, entries) ==
  batch_append_entries([w EXCEPT !.next_log_key = from_idx], entries)

batch_append_on_prefix(w, from_idx, entries) ==
  batch_append_entries(
    [db |-> [w.db EXCEPT !.LOG = delete_range(@, from_idx + Len(entries), w.next_log_key)],
     next_log_key |-> from_idx],
    entries)

\* Variant: the last entry to trim stays.
trim_too_little(w, trimmed_idx) ==
  [w EXCEPT !.db.LOG = delete_range(@, 0, trimmed_idx - 1)]

batch_trim(w, trimmed_idx) == [w EXCEPT !.db.LOG = delete_range(@, 0, trimmed_idx)]

\* The entries below idx are in the snapshot.
batch_compact(w, idx, snapshot) ==
  [batch_trim(w, idx) EXCEPT !.db.TRIM = idx, !.db.SNAPSHOT = snapshot]

------------------------------------------------------------------------------
(* Reads *)

Store == [db |-> db, next_log_key |-> next_log_key]

\* Variant: after the log was trimmed away, keys start over.
open_from_log(d) == IF DOMAIN d.LOG = {} THEN 0 ELSE Max(DOMAIN d.LOG) + 1

\* next_log_key of a database that is opened.
open(d) ==
  IF DOMAIN d.LOG = {} THEN unwrap_or(d.TRIM, 0) ELSE Max(DOMAIN d.LOG) + 1

\* The iterator from the first key that is not below from.
seek(log, from) == {k \in DOMAIN log : from <= k}

\* The i-th key of an iterator.
nth_key(keys, i) == CHOOSE k \in keys : Cardinality({j \in keys : j < k}) = i - 1

\* Variant: the end of the log is not checked.
any_interval(from, to) == from < to

is_in_log(from, to) == to <= next_log_key /\ from < to

\* The iterator ends before to - from entries are read: get_entries fails.
get_entries_fails(from, to) ==
  is_in_log(from, to) /\ Cardinality(seek(db.LOG, from)) < to - from

get_entries(from, to) ==
  IF is_in_log(from, to)
    THEN [i \in 1 .. to - from |-> db.LOG[nth_key(seek(db.LOG, from), i)]]
    ELSE << >>

get_suffix(from) == get_entries(from, next_log_key)

get_log_len(d, next_key) == next_key - unwrap_or(d.TRIM, 0)

------------------------------------------------------------------------------
(* InternalStorage over this storage: each call changes the cache and writes *)
(* to the database.                                                          *)

\* The state as the in-memory storage would have it.
Memory ==
  [promise |-> state_cache.promise, accepted_round |-> state_cache.accepted_round,
   decided_idx |-> state_cache.decided_idx, compacted_idx |-> state_cache.compacted_idx,
   stopsign |-> state_cache.stopsign, accepted_idx |-> state_cache.accepted_idx,
   batched_entries |-> state_cache.batched_entries,
   log |-> [i \in 1 .. Cardinality(DOMAIN db.LOG) |-> db.LOG[nth_key(DOMAIN db.LOG, i)]],
   snapshot |-> db.SNAPSHOT]

Abstract == INSTANCE ReplicaStorage WITH s <- Memory

\* write_atomically, and the writes of a single value: what was batched takes
\* effect at once.  (Bound: merged snapshots of at most MaxIdx entries.)
Write(w) ==
  /\ w.db.SNAPSHOT # None => Len(w.db.SNAPSHOT) <= MaxIdx
  /\ db' = w.db /\ next_log_key' = w.next_log_key

load_cache(d, next_key) ==
  [promise |-> unwrap_or(d.NPROM, DefaultBallot),
   accepted_round |-> unwrap_or(d.ACC, DefaultBallot),
   decided_idx |-> unwrap_or(d.DECIDE, 0),
   compacted_idx |-> unwrap_or(d.TRIM, 0),
   stopsign |-> d.STOPSIGN,
   accepted_idx |-> get_log_len(d, next_key) + unwrap_or(d.TRIM, 0)
                    + IF d.STOPSIGN = None THEN 0 ELSE 1,
   batched_entries |-> << >>]

set_promise(b) ==
  /\ state_cache.promise \prec b
  /\ state_cache' = [state_cache EXCEPT !.promise = b]
  /\ Write([Store EXCEPT !.db.NPROM = b])

\* append_entries_without_batching, from the batch.
flush(batched) ==
  /\ state_cache' = [state_cache EXCEPT !.batched_entries = << >>,
                                        !.accepted_idx = @ + Len(batched)]
  /\ Write(batch_append_entries(Store, batched))

append_entries_with_batching(entries) ==
  LET batched == state_cache.batched_entries \o entries
  IN  /\ Abstract!MayAppend(Memory, entries)
      /\ IF Len(batched) >= BatchSize
           THEN flush(batched)
           ELSE /\ state_cache' = [state_cache EXCEPT !.batched_entries = batched]
                /\ UNCHANGED << db, next_log_key >>

flush_batch == flush(state_cache.batched_entries)

\* Two writes: the batch, then the stop sign.
append_stopsign(ss) ==
  LET w == batch_append_entries(Store, state_cache.batched_entries)
  IN  /\ Abstract!MayStop(Memory)
      /\ state_cache' = [state_cache EXCEPT !.stopsign = ss, !.batched_entries = << >>,
                           !.accepted_idx = @ + Len(state_cache.batched_entries) + 1]
      /\ Write([w EXCEPT !.db.STOPSIGN = ss])

set_stopsign(ss) ==
  /\ Abstract!MaySetStopSign(Memory)
  /\ state_cache' = [state_cache EXCEPT !.stopsign = ss,
                       !.accepted_idx = IF state_cache.stopsign = None THEN @ + 1 ELSE @]
  /\ Write([Store EXCEPT !.db.STOPSIGN = ss])

set_decided_idx(idx) ==
  /\ idx \in state_cache.decided_idx .. state_cache.accepted_idx
  /\ state_cache' = [state_cache EXCEPT !.decided_idx = idx]
  /\ Write([Store EXCEPT !.db.DECIDE = idx])

decided_idx_without_stopsign(cache) ==
  IF cache.stopsign # None /\ cache.decided_idx = cache.accepted_idx
    THEN cache.decided_idx - 1 ELSE cache.decided_idx

merge(snapshot, delta) == IF snapshot = None THEN delta ELSE snapshot \o delta

create_snapshot(compact_idx) ==
  merge(db.SNAPSHOT, get_entries(state_cache.compacted_idx, compact_idx))

\* The decided index is the new one already when a Delta is merged.
batch_decided_snapshot(w, sync, decided_idx) ==
  LET received == sync.decided_snapshot
      own == create_snapshot(decided_idx_without_stopsign([state_cache EXCEPT !.decided_idx = decided_idx]))
  IN  CASE received.kind = "None" -> w
        [] received.kind = "Complete" -> batch_compact(w, sync.sync_idx, received.snapshot)
        [] received.kind = "Delta" -> batch_compact(w, sync.sync_idx, merge(own, received.snapshot))

\* The operations of sync_log, in the order of its batch.
batch_sync(w, sync, decided_idx) ==
  LET w1 == [w EXCEPT !.db.ACC = state_cache.promise, !.db.DECIDE = decided_idx]
      w2 == batch_append_on_prefix(batch_decided_snapshot(w1, sync, decided_idx),
                                   sync.sync_idx, sync.suffix)
  IN  CASE sync = None -> w1
        [] sync # None /\ sync.stopsign = None /\ state_cache.stopsign = None -> w2
        [] OTHER -> [w2 EXCEPT !.db.STOPSIGN = sync.stopsign]

synced_cache(sync, decided_idx) ==
  LET cache == [state_cache EXCEPT !.accepted_round = state_cache.promise, !.decided_idx = decided_idx]
  IN  IF sync = None THEN cache
      ELSE [cache EXCEPT
              !.compacted_idx = IF sync.decided_snapshot.kind = "None" THEN @ ELSE sync.sync_idx,
              !.accepted_idx = sync.sync_idx + Len(sync.suffix)
                               + IF sync.stopsign = None THEN 0 ELSE 1,
              !.stopsign = sync.stopsign]

sync_log(sync, decided_idx) ==
  /\ Abstract!MaySync(Memory)
  /\ state_cache' = synced_cache(sync, decided_idx)
  /\ Write(batch_sync(Store, sync, decided_idx))

\* try_trim and try_snapshot up to idx; other indices are refused.
compacts_to(idx) ==
  IF idx = state_cache.decided_idx THEN decided_idx_without_stopsign(state_cache) ELSE idx

may_compact(idx) ==
  idx <= state_cache.decided_idx /\ compacts_to(idx) > state_cache.compacted_idx

try_trim(idx) ==
  /\ may_compact(idx)
  /\ state_cache' = [state_cache EXCEPT !.compacted_idx = compacts_to(idx)]
  /\ Write([batch_trim(Store, compacts_to(idx)) EXCEPT !.db.TRIM = compacts_to(idx)])

try_snapshot(idx) ==
  /\ UseSnapshots
  /\ may_compact(idx)
  /\ state_cache' = [state_cache EXCEPT !.compacted_idx = compacts_to(idx)]
  /\ Write(batch_compact(Store, compacts_to(idx), create_snapshot(compacts_to(idx))))

\* The process ends and opens what w left in the database.
reopen(w) ==
  /\ db' = w.db
  /\ next_log_key' = open(w.db)
  /\ state_cache' = load_cache(w.db, open(w.db))

restart == reopen(Store)

\* A crash between the two writes of append_stopsign.
crash_in_append_stopsign ==
  /\ Abstract!MayStop(Memory)
  /\ reopen(batch_append_entries(Store, state_cache.batched_entries))

------------------------------------------------------------------------------
Init ==
  /\ db = EmptyDB
  /\ next_log_key = open(EmptyDB)
  /\ state_cache = load_cache(EmptyDB, open(EmptyDB))

Next ==
  \/ \E b \in Ballots : set_promise(b)
  \/ \E entries \in Abstract!Blocks(MaxSuffix) : append_entries_with_batching(entries)
  \/ flush_batch
  \/ \E ss \in StopSign : append_stopsign(ss)
  \/ \E ss \in StopSign : set_stopsign(ss)
  \/ \E idx \in 0 .. MaxIdx : set_decided_idx(idx)
  \/ \E idx \in 0 .. MaxIdx : try_trim(idx)
  \/ \E idx \in 0 .. MaxIdx : try_snapshot(idx)
  \/ \E sync \in Abstract!Syncs(Memory) :
       \E decided_idx \in Abstract!DecidedBy(Memory, sync) : sync_log(sync, decided_idx)
  \/ restart
  \/ crash_in_append_stopsign

Spec == Init /\ [][Next]_vars

------------------------------------------------------------------------------
(* Properties *)

\* To Sequence Paxos the storage over RocksDB behaves like the in-memory one:
\* every call has the effect that the operators of InternalStorage give it, and
\* a crash at any moment loses the batch and nothing else.
ImplementsStorage == Abstract!Spec

\* Whenever the process ends, open and load_cache find the next key and all
\* indices, rounds and the stop sign as the running process has them: the cache
\* and next_log_key are never ahead of, or behind, the database.
RecoveryIsExact ==
  /\ open(db) = next_log_key
  /\ load_cache(db, next_log_key) = [state_cache EXCEPT !.batched_entries = << >>]

\* Between the compacted index and next_log_key every index has its entry and
\* nothing else is left in the log, which get_entries takes for granted when it
\* follows the iterator instead of looking up each key.
KeysAreContiguous == DOMAIN db.LOG = state_cache.compacted_idx .. next_log_key - 1

\* get_entries and get_suffix return what the in-memory storage returns, for
\* every range that is not partly compacted, and never fail: "If entries do not
\* exist for the complete interval, an empty Vector should be returned"
\* (storage/mod.rs).
ReadsAgree ==
  \A from \in state_cache.compacted_idx .. MaxIdx + 1 :
    /\ get_suffix(from) = Abstract!get_suffix(Memory, from)
    /\ \A to \in from .. MaxIdx + 1 :
         /\ ~ get_entries_fails(from, to)
         /\ get_entries(from, to) = Abstract!get_entries(Memory, from, to)
==============================================================================
