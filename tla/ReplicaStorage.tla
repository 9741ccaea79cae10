--------------------------- MODULE ReplicaStorage ---------------------------
(***************************************************************************)
(* What the storage of a server promises to Sequence Paxos, whatever backs *)
(* it: the operators of InternalStorage, called in the order in which the  *)
(* protocol may call them, and a crash that loses only the batch.          *)
(***************************************************************************)
EXTENDS InternalStorage

CONSTANTS Ballots,        \* the rounds that may be promised
          MaxIdx,         \* bound on the log with its stop sign
          MaxSuffix       \* bound on the entries of a call

VARIABLE s

Blocks(n) == UNION {[1 .. k -> Value] : k \in 0 .. n}

(* The synchronisations a leader may ask of a storage t: after a prefix of the *)
(* log, or after a snapshot that covers all of the log or what follows the     *)
(* decided part.  What is decided afterwards is in the log, and is not         *)
(* compacted away.                                                             *)

SyncsAfterPrefix(t) ==
  [decided_snapshot : {[kind |-> "None", snapshot |-> None]}, suffix : Blocks(MaxSuffix),
   sync_idx : t.compacted_idx .. t.compacted_idx + Len(t.log), stopsign : StopSign \cup {None}]

\* Snapshots of n entries: only that they may differ from the own log matters.
SnapshotsOf(n) == {[i \in 1 .. n |-> v] : v \in Value}

SnapshotsUpTo(t, idx) ==
  [kind : {"Complete"}, snapshot : SnapshotsOf(idx)]
  \cup [kind : {"Delta"}, snapshot : SnapshotsOf(idx - get_decided_idx_without_stopsign(t))]

SyncsAfterSnapshot(t) ==
  UNION {[decided_snapshot : SnapshotsUpTo(t, idx), suffix : Blocks(MaxSuffix),
          sync_idx : {idx}, stopsign : StopSign \cup {None}] :
           idx \in get_decided_idx_without_stopsign(t) .. MaxIdx}

SyncedLen(sync) ==
  sync.sync_idx + Len(sync.suffix) + IF sync.stopsign = None THEN 0 ELSE 1

\* None: the log stays as it is.
Syncs(t) ==
  {None} \cup {sync \in SyncsAfterPrefix(t) \cup IF UseSnapshots THEN SyncsAfterSnapshot(t) ELSE {} :
               SyncedLen(sync) <= MaxIdx}

\* The decided indices that may come with a synchronisation.
DecidedBy(t, sync) ==
  CASE sync = None -> t.decided_idx .. t.accepted_idx
    [] sync # None /\ sync.decided_snapshot.kind = "None" -> t.compacted_idx .. SyncedLen(sync)
    [] OTHER -> {sync.sync_idx} \cup IF sync.suffix = << >> THEN {SyncedLen(sync)} ELSE {}

------------------------------------------------------------------------------
(* When the protocol makes a call. *)

MayAppend(t, entries) ==
  t.stopsign = None /\ t.accepted_idx + Len(t.batched_entries) + Len(entries) <= MaxIdx

MayStop(t) == t.stopsign = None /\ t.accepted_idx + Len(t.batched_entries) < MaxIdx

\* A follower flushes before it takes the leader's stop sign.
MaySetStopSign(t) == t.batched_entries = << >> /\ t.accepted_idx < MaxIdx

\* The batch was flushed when the round was prepared.
MaySync(t) == t.batched_entries = << >>

------------------------------------------------------------------------------
SetPromise(b) == s.promise \prec b /\ s' = [s EXCEPT !.promise = b]

AppendEntries(entries) == MayAppend(s, entries) /\ s' = append_entries_with_batching(s, entries)

Flush == s' = flush_batch(s)

AppendStopSign(ss) == MayStop(s) /\ s' = append_stopsign(s, ss)

SetStopSign(ss) == MaySetStopSign(s) /\ s' = set_stopsign(s, ss)

SetDecidedIdx(idx) == idx \in s.decided_idx .. s.accepted_idx /\ s' = [s EXCEPT !.decided_idx = idx]

SyncLog(sync, decided_idx) ==
  MaySync(s) /\ s' = sync_log(s, s.promise, decided_idx, sync)

Trim(idx) == s' = try_trim(s, idx)

Snapshot(idx) == UseSnapshots /\ s' = try_snapshot(s, idx)

\* A crash loses the batch, unless append_stopsign had just flushed it.
Restart == \E t \in {s, flush_batch(s)} : s' = load_cache(t)

Init == s = EmptyStorage

Next ==
  \/ \E b \in Ballots : SetPromise(b)
  \/ \E entries \in Blocks(MaxSuffix) : AppendEntries(entries)
  \/ Flush
  \/ \E ss \in StopSign : AppendStopSign(ss) \/ SetStopSign(ss)
  \/ \E idx \in 0 .. MaxIdx : SetDecidedIdx(idx) \/ Trim(idx)
  \/ \E idx \in 0 .. MaxIdx : Snapshot(idx)
  \/ Restart
  \/ \E sync \in Syncs(s) : \E decided_idx \in DecidedBy(s, sync) : SyncLog(sync, decided_idx)

Spec == Init /\ [][Next]_s
==============================================================================
