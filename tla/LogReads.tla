------------------------------- MODULE LogReads -------------------------------
(***************************************************************************)
(* What the user reads of the log (the read functions of                   *)
(* storage/internal_storage.rs, called from omni_paxos.rs).  Reading does  *)
(* not change a server: the functions are operators on its storage, and    *)
(* the properties say what a user of any server may read at any time.      *)
(* Positions count from 0 and ranges exclude their end, as in the code.    *)
(***************************************************************************)
EXTENDS SequencePaxos

\* LogEntry
Decided(e) == [kind |-> "Decided", entry |-> e]
Undecided(e) == [kind |-> "Undecided", entry |-> e]
Trimmed(idx) == [kind |-> "Trimmed", idx |-> idx]
Snapshotted(idx, snap) == [kind |-> "Snapshotted", idx |-> idx, snapshot |-> snap]
ReadStopSign(ss, decided) == [kind |-> "StopSign", ss |-> ss, decided |-> decided]

\* Variant: the stop sign is looked for behind the last index.
stopsign_at_end(s, idx) ==
  IF idx < s.compacted_idx THEN "Compacted"
  ELSE IF idx < s.accepted_idx THEN "Entry"
  ELSE IF idx = s.accepted_idx /\ s.stopsign # None THEN "StopSign" ELSE "None"

\* IndexEntry: what is at position idx.
get_entry_type(s, idx) ==
  IF idx < s.compacted_idx THEN "Compacted"
  ELSE IF idx + 1 < s.accepted_idx THEN "Entry"
  ELSE IF idx + 1 > s.accepted_idx THEN "None"
  ELSE IF s.stopsign # None THEN "StopSign" ELSE "Entry"

create_read_log_entries(s, from, to) ==
  LET entries == get_entries(s, from, to)
  IN  [i \in DOMAIN entries |->
         IF from + i <= s.decided_idx THEN Decided(entries[i]) ELSE Undecided(entries[i])]

create_compacted_entry(s) ==
  IF s.snapshot = None THEN Trimmed(s.compacted_idx) ELSE Snapshotted(s.compacted_idx, s.snapshot)

\* The range from .. to; None if it is out of bounds.  (An empty range that
\* starts at the stop sign is "unimplemented!" in the code; from < to here.)
read(s, from, to) ==
  LET from_type == get_entry_type(s, from)
      to_type == get_entry_type(s, to - 1)
      compacted == << create_compacted_entry(s) >>
      stopsign == << ReadStopSign(s.stopsign, stopsign_is_decided(s)) >>
      entries == create_read_log_entries(s, IF from_type = "Compacted" THEN s.compacted_idx ELSE from,
                                            IF to_type = "StopSign" THEN to - 1 ELSE to)
  IN  IF to = 0 \/ to_type = "None"
        THEN None
        ELSE IF to_type = "Compacted"
               THEN compacted
               ELSE CASE from_type = "None" -> None
                      [] from_type = "StopSign" -> stopsign
                      [] from_type \in {"Compacted", "Entry"} ->
                           (IF from_type = "Compacted" THEN compacted ELSE << >>)
                           \o entries
                           \o (IF to_type = "StopSign" THEN stopsign ELSE << >>)

read_decided_suffix(s, from) ==
  IF from < s.decided_idx THEN read(s, from, s.decided_idx) ELSE None

------------------------------------------------------------------------------
(* Properties *)

\* The log as one would write it down: position i (from 1) with its mark.
MarkedEntry(s, i) ==
  IF EntryAt(s, i) \in StopSign
    THEN ReadStopSign(EntryAt(s, i), i <= s.decided_idx)
    ELSE IF i <= s.decided_idx THEN Decided(EntryAt(s, i)) ELSE Undecided(EntryAt(s, i))

\* What a read of the range from .. to should be: its entries in order, each
\* rightly marked as decided or not, the stop sign at its place, and one
\* compacted entry for all that is not in the log any more.
ExactRead(s, from, to) ==
  LET first == IF from < s.compacted_idx THEN s.compacted_idx ELSE from
      rest == [i \in 1 .. to - first |-> MarkedEntry(s, first + i)]
  IN  IF from < s.compacted_idx THEN << create_compacted_entry(s) >> \o rest ELSE rest

\* Reading a range returns that (read and its case distinction on the two ends).
ReadsAreExact ==
  \A p \in Server :
    \A to \in 1 .. storage[p].accepted_idx : \A from \in 0 .. to - 1 :
      read(storage[p], from, to) = ExactRead(storage[p], from, to)

\* What the entry of a read says was decided; None if nothing.
DecidedEntry(e) ==
  CASE e.kind = "Decided" -> e.entry
    [] e.kind = "StopSign" /\ e.decided -> e.ss
    [] OTHER -> None

\* The decided entries behind position from, which is below decided_idx: the
\* first of the entries read may be a snapshot, which stands for many.
DecidedEntries(s, from) ==
  LET suffix == read_decided_suffix(s, from)
      first == IF suffix[1].kind = "Snapshotted"
                 THEN drain(suffix[1].snapshot, from) ELSE << DecidedEntry(suffix[1]) >>
  IN  first \o [i \in 1 .. Len(suffix) - 1 |-> DecidedEntry(suffix[i + 1])]

\* Users of two servers who read the decided suffix from the same position get
\* the same entries, as far as both have decided, and neither misses one, be
\* they entries, snapshots or the stop sign, unless the position was trimmed.
ReadersAgree ==
  \A p, q \in Server :
    \A from \in 0 .. minimum(storage[p].decided_idx, storage[q].decided_idx) - 1 :
      from + 1 \in Held(storage[p]) \cap Held(storage[q]) =>
        LET mine == DecidedEntries(storage[p], from)
            theirs == DecidedEntries(storage[q], from)
        IN  /\ Len(mine) = storage[p].decided_idx - from
            /\ \A i \in 1 .. minimum(Len(mine), Len(theirs)) :
                 mine[i] = theirs[i] /\ mine[i] # None
==============================================================================
