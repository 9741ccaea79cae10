----------------------- MODULE PersistentStorageProofs -----------------------
(***************************************************************************)
(* For every value of the constants: the storage over RocksDB implements   *)
(* what ReplicaStorage promises to Sequence Paxos (ImplementsStorage),     *)
(* opening the database finds what the process had (RecoveryIsExact), the  *)
(* keys of the log have no gap (KeysAreContiguous), and reads return what  *)
(* the in-memory storage returns (ReadsAgree).                             *)
(*                                                                         *)
(* One invariant carries all of it: the log of the database is a function  *)
(* on the interval from the compacted index to the next key, and the state *)
(* keys hold what the cache holds.  Under it the iterator of RocksDB is    *)
(* plain indexing, and each batch of writes is an operation on sequences.  *)
(***************************************************************************)
EXTENDS PersistentStorage, BallotsProofs, FiniteSetTheorems, SequenceTheorems

Caches ==
  [promise : Ballot, accepted_round : Ballot, decided_idx : Nat, compacted_idx : Nat,
   stopsign : StopSign \cup {None}, accepted_idx : Nat, batched_entries : Seq(Value)]

\* The column LOG, from compacted index c to next key n.
LogOK(log, c, n) == c \in Nat /\ n \in Nat /\ c <= n /\ log \in [c .. n - 1 -> Value]

Logs == UNION {[c .. n - 1 -> Value] : c \in Nat, n \in Nat}

Databases ==
  [LOG : Logs, NPROM : Ballot \cup {None}, ACC : Ballot \cup {None}, DECIDE : Nat \cup {None},
   TRIM : Nat \cup {None}, STOPSIGN : StopSign \cup {None}, SNAPSHOT : Seq(Value) \cup {None}]

\* The log as the vector that the in-memory storage keeps.
AsSeq(log, c, n) == [i \in 1 .. n - c |-> log[c + i - 1]]

------------------------------------------------------------------------------
(* Iterators *)

\* An interval of keys has as many keys as numbers.
LEMMA IntervalSize ==
  ASSUME NEW a \in Nat, NEW b \in Nat, a <= b
  PROVE  Cardinality(a .. b - 1) = b - a
<1>1. a \in Int /\ b - 1 \in Int
  OBVIOUS
<1>2. Cardinality(a .. b - 1) = IF a > b - 1 THEN 0 ELSE (b - 1) - a + 1
  BY <1>1, FS_Interval
<1> QED BY <1>2

\* The i-th key that an iterator over an interval meets.
LEMMA NthKey ==
  ASSUME NEW a \in Nat, NEW b \in Nat, NEW i \in 1 .. b - a
  PROVE  nth_key(a .. b - 1, i) = a + i - 1
<1> DEFINE keys == a .. b - 1
           rank(k) == Cardinality({j \in keys : j < k})
<1>1. \A k \in keys : rank(k) = k - a
  <2> TAKE k \in keys
  <2>1. {j \in keys : j < k} = a .. k - 1
    OBVIOUS
  <2>2. k \in Nat /\ a <= k
    OBVIOUS
  <2> QED BY <2>1, <2>2, IntervalSize
<1>2. a + i - 1 \in keys
  OBVIOUS
<1>3. rank(a + i - 1) = i - 1
  BY <1>1, <1>2
<1>4. \A k \in keys : rank(k) = i - 1 => k = a + i - 1
  BY <1>1
<1> HIDE DEF keys, rank
<1>5. (CHOOSE k \in keys : rank(k) = i - 1) = a + i - 1
  BY <1>2, <1>3, <1>4
<1> QED BY <1>5 DEF nth_key, keys, rank

\* The vector of the log.
LEMMA AsSeqType ==
  ASSUME NEW log, NEW c, NEW n, LogOK(log, c, n)
  PROVE  /\ AsSeq(log, c, n) \in Seq(Value)
         /\ Len(AsSeq(log, c, n)) = n - c
         /\ \A i \in 1 .. n - c : AsSeq(log, c, n)[i] = log[c + i - 1]
<1>1. n - c \in Nat /\ c \in Nat /\ n \in Nat
  BY DEF LogOK
<1>2. \A i \in 1 .. n - c : log[c + i - 1] \in Value
  BY <1>1 DEF LogOK
<1>3. AsSeq(log, c, n) \in [1 .. n - c -> Value]
  BY <1>2 DEF AsSeq
<1>4. AsSeq(log, c, n) \in Seq(Value)
  BY <1>1, <1>3, SeqDef
<1>5. Len(AsSeq(log, c, n)) = n - c
  BY <1>1, <1>3, <1>4, LenProperties
<1> QED BY <1>4, <1>5 DEF AsSeq

\* The log in the order of the iterator is that vector.
LEMMA IteratorOrder ==
  ASSUME NEW log, NEW c, NEW n, LogOK(log, c, n)
  PROVE  [i \in 1 .. Cardinality(DOMAIN log) |-> log[nth_key(DOMAIN log, i)]] = AsSeq(log, c, n)
<1>1. DOMAIN log = c .. n - 1 /\ c \in Nat /\ n \in Nat /\ c <= n
  BY DEF LogOK
<1>2. Cardinality(DOMAIN log) = n - c
  BY <1>1, IntervalSize
<1>3. \A i \in 1 .. n - c : nth_key(DOMAIN log, i) = c + i - 1
  BY <1>1, NthKey
<1> QED BY <1>2, <1>3 DEF AsSeq

------------------------------------------------------------------------------
(* Batches of writes *)

\* What batch_append_entries writes into the column LOG from key n on.
Written(log, n, entries) ==
  LET keys == n .. n + Len(entries) - 1
  IN  [k \in DOMAIN log \cup keys |-> IF k \in keys THEN entries[k - n + 1] ELSE log[k]]

\* A pair of a database and a next key, as the writes take it.
IsStore(w) == w = [db |-> w.db, next_log_key |-> w.next_log_key] /\ w.db \in Databases

\* The database with another column LOG.
LEMMA WithLog ==
  ASSUME NEW d \in Databases, NEW c, NEW n, NEW log, LogOK(log, c, n)
  PROVE  /\ [d EXCEPT !.LOG = log] \in Databases
         /\ [d EXCEPT !.LOG = log].LOG = log
<1>1. log \in Logs
  <2>1. c \in Nat /\ n \in Nat /\ log \in [c .. n - 1 -> Value]
    BY DEF LogOK
  <2> DEFINE F == [c .. n - 1 -> Value]
  <2>2. F \in {[a .. b - 1 -> Value] : a \in Nat, b \in Nat}
    BY <2>1
  <2>3. log \in F
    BY <2>1
  <2> HIDE DEF F
  <2> QED BY <2>2, <2>3 DEF Logs
<1> QED BY <1>1 DEF Databases

\* The keys below n stay, those from n on are the entries.
LEMMA WrittenOK ==
  ASSUME NEW log, NEW c \in Nat, NEW n \in Nat, c <= n, NEW entries \in Seq(Value),
         c .. n - 1 \subseteq DOMAIN log, DOMAIN log \subseteq c .. n + Len(entries) - 1,
         \A k \in c .. n - 1 : log[k] \in Value
  PROVE  LET new == Written(log, n, entries)
             prefix == [i \in 1 .. n - c |-> log[c + i - 1]]
         IN  /\ LogOK(new, c, n + Len(entries))
             /\ AsSeq(new, c, n + Len(entries)) = prefix \o entries
<1> DEFINE len == Len(entries)
           new == Written(log, n, entries)
           prefix == [i \in 1 .. n - c |-> log[c + i - 1]]
<1>1. len \in Nat /\ n - c \in Nat /\ \A i \in 1 .. len : entries[i] \in Value
  BY LenProperties, ElementOfSeq
<1>2. DOMAIN log \cup (n .. n + len - 1) = c .. n + len - 1
  BY <1>1
<1>3. new = [k \in c .. n + len - 1 |-> IF k \in n .. n + len - 1 THEN entries[k - n + 1] ELSE log[k]]
  BY <1>2 DEF Written
<1>4. \A k \in c .. n + len - 1 :
        /\ k \in n .. n + len - 1 => k - n + 1 \in 1 .. len
        /\ k \notin n .. n + len - 1 => k \in c .. n - 1
  BY <1>1
<1>5. LogOK(new, c, n + len)
  <2>1. \A k \in c .. n + len - 1 :
          (IF k \in n .. n + len - 1 THEN entries[k - n + 1] ELSE log[k]) \in Value
    BY <1>1, <1>4
  <2>2. new \in [c .. n + len - 1 -> Value]
    BY <1>3, <2>1
  <2> QED BY <1>1, <2>2 DEF LogOK
<1>6. prefix \in Seq(Value) /\ Len(prefix) = n - c /\ \A i \in 1 .. n - c : prefix[i] = log[c + i - 1]
  <2>1. \A i \in 1 .. n - c : log[c + i - 1] \in Value
    BY <1>1
  <2>2. prefix \in [1 .. n - c -> Value]
    BY <2>1
  <2>3. prefix \in Seq(Value)
    BY <1>1, <2>2, SeqDef
  <2> QED BY <1>1, <2>2, <2>3, LenProperties
<1> DEFINE a == AsSeq(new, c, n + len)
           b == prefix \o entries
<1> HIDE DEF new, prefix
<1>7. a \in Seq(Value) /\ Len(a) = n + len - c /\ \A i \in 1 .. n + len - c : a[i] = new[c + i - 1]
  <2> DEFINE top == n + len
  <2>1. LogOK(new, c, top)
    BY <1>5
  <2> HIDE DEF top
  <2>2. /\ AsSeq(new, c, top) \in Seq(Value) /\ Len(AsSeq(new, c, top)) = top - c
        /\ \A i \in 1 .. top - c : AsSeq(new, c, top)[i] = new[c + i - 1]
    BY <2>1, AsSeqType
  <2> QED BY <2>2 DEF top
<1>8. /\ b \in Seq(Value) /\ Len(b) = n - c + len
      /\ \A i \in 1 .. n - c + len : b[i] = IF i <= n - c THEN prefix[i] ELSE entries[i - (n - c)]
  <2>1. /\ b \in Seq(Value) /\ Len(b) = Len(prefix) + Len(entries)
        /\ \A i \in 1 .. Len(prefix) + Len(entries) :
             b[i] = IF i <= Len(prefix) THEN prefix[i] ELSE entries[i - Len(prefix)]
    BY <1>6, ConcatProperties, Zenon
  <2> HIDE DEF b
  <2> QED BY <1>6, <2>1
<1> HIDE DEF a, b
<1>9. \A i \in 1 .. n + len - c : a[i] = b[i]
  <2> TAKE i \in 1 .. n + len - c
  <2>1. c + i - 1 \in c .. n + len - 1 /\ i \in 1 .. n - c + len
    BY <1>1
  <2>2. CASE i <= n - c
    <3>1. i \in 1 .. n - c /\ c + i - 1 \notin n .. n + len - 1
      BY <2>2, <1>1
    <3>2. a[i] = log[c + i - 1]
      BY <1>3, <1>7, <2>1, <3>1
    <3>3. b[i] = log[c + i - 1]
      BY <1>6, <1>8, <2>1, <2>2, <3>1
    <3> QED BY <3>2, <3>3
  <2>3. CASE i > n - c
    <3>1. c + i - 1 \in n .. n + len - 1 /\ (c + i - 1) - n + 1 = i - (n - c) /\ ~ (i <= n - c)
      BY <2>3, <1>1
    <3>2. a[i] = entries[(c + i - 1) - n + 1]
      BY <1>3, <1>7, <2>1, <3>1
    <3>3. b[i] = entries[i - (n - c)]
      BY <1>8, <2>1, <3>1
    <3> QED BY <3>1, <3>2, <3>3
  <2> QED BY <2>2, <2>3, <1>1
<1>10. a = b
  <2>1. Len(a) = Len(b) /\ \A i \in 1 .. Len(a) : a[i] = b[i]
    BY <1>1, <1>7, <1>8, <1>9
  <2> QED BY <1>7, <1>8, <2>1, SeqEqual
<1> QED BY <1>5, <1>10 DEF a, b, new, prefix

\* batch_append_entries appends to the vector.
LEMMA BatchAppendEntriesOK ==
  ASSUME NEW w, IsStore(w), NEW c, LogOK(w.db.LOG, c, w.next_log_key), NEW entries \in Seq(Value)
  PROVE  LET v == batch_append_entries(w, entries)
         IN  /\ IsStore(v)
             /\ v.next_log_key = w.next_log_key + Len(entries)
             /\ v.db = [w.db EXCEPT !.LOG = v.db.LOG]
             /\ LogOK(v.db.LOG, c, v.next_log_key)
             /\ AsSeq(v.db.LOG, c, v.next_log_key) = AsSeq(w.db.LOG, c, w.next_log_key) \o entries
<1> DEFINE n == w.next_log_key
           log == w.db.LOG
           new == Written(log, n, entries)
           d == [w.db EXCEPT !.LOG = new]
           v == batch_append_entries(w, entries)
<1>1. v = [db |-> d, next_log_key |-> n + Len(entries)]
  BY DEF batch_append_entries, Written, IsStore, Databases
<1>2. c \in Nat /\ n \in Nat /\ c <= n /\ log \in [c .. n - 1 -> Value] /\ Len(entries) \in Nat
  BY LenProperties DEF LogOK
<1>3. DOMAIN log = c .. n - 1 /\ DOMAIN log \subseteq c .. n + Len(entries) - 1
      /\ \A k \in c .. n - 1 : log[k] \in Value
  BY SMTT(30), <1>2
<1> HIDE DEF new, log, n
<1>4. /\ LogOK(new, c, n + Len(entries))
      /\ AsSeq(new, c, n + Len(entries)) = [i \in 1 .. n - c |-> log[c + i - 1]] \o entries
  BY <1>2, <1>3, WrittenOK DEF new
<1>5. d \in Databases /\ d.LOG = new
  BY <1>4, WithLog DEF IsStore
<1> HIDE DEF d, v
<1>6. v.db = d /\ v.next_log_key = n + Len(entries) /\ v.db.LOG = new
  BY <1>1, <1>5
<1>7. v.db = [w.db EXCEPT !.LOG = v.db.LOG]
  BY <1>6 DEF d
<1>8. IsStore(v)
  BY <1>1, <1>5, <1>6 DEF IsStore
<1> QED BY <1>4, <1>6, <1>7, <1>8 DEF AsSeq, log, n, v

\* The store v has the log of w up to idx, and the entries after it.
Prefixed(v, w, c, idx, entries) ==
  /\ IsStore(v)
  /\ v.next_log_key = idx + Len(entries)
  /\ v.db = [w.db EXCEPT !.LOG = v.db.LOG]
  /\ LogOK(v.db.LOG, c, v.next_log_key)
  /\ AsSeq(v.db.LOG, c, v.next_log_key) =
       SubSeq(AsSeq(w.db.LOG, c, w.next_log_key), 1, idx - c) \o entries

\* batch_append_on_prefix cuts the vector and appends.
LEMMA BatchAppendOnPrefixOK ==
  ASSUME NEW w, IsStore(w), NEW c, LogOK(w.db.LOG, c, w.next_log_key),
         NEW idx \in c .. w.next_log_key, NEW entries \in Seq(Value)
  PROVE  Prefixed(batch_append_on_prefix(w, idx, entries), w, c, idx, entries)
<1> DEFINE n == w.next_log_key
           log == w.db.LOG
           kept == delete_range(log, idx + Len(entries), n)
           new == Written(kept, idx, entries)
           d == [w.db EXCEPT !.LOG = new]
           v == batch_append_on_prefix(w, idx, entries)
<1>1. v = [db |-> d, next_log_key |-> idx + Len(entries)]
  BY DEF batch_append_on_prefix, batch_append_entries, Written, IsStore, Databases
<1>2. /\ c \in Nat /\ n \in Nat /\ c <= idx /\ idx <= n /\ idx \in Nat
      /\ log \in [c .. n - 1 -> Value] /\ Len(entries) \in Nat
  BY LenProperties DEF LogOK
<1>3. DOMAIN kept = {j \in c .. n - 1 : j < idx + Len(entries) \/ n <= j}
      /\ \A k \in DOMAIN kept : kept[k] = log[k]
  BY <1>2 DEF delete_range
<1>4. /\ c .. idx - 1 \subseteq DOMAIN kept /\ DOMAIN kept \subseteq c .. idx + Len(entries) - 1
      /\ \A k \in c .. idx - 1 : kept[k] = log[k] /\ log[k] \in Value
  BY SMTT(30), <1>2, <1>3
<1> HIDE DEF new, log, n, kept
<1>5. /\ LogOK(new, c, idx + Len(entries))
      /\ AsSeq(new, c, idx + Len(entries)) = [i \in 1 .. idx - c |-> kept[c + i - 1]] \o entries
  BY <1>2, <1>4, WrittenOK DEF new
<1>6. [i \in 1 .. idx - c |-> kept[c + i - 1]] = SubSeq(AsSeq(log, c, n), 1, idx - c)
  <2> DEFINE old == AsSeq(log, c, n)
  <2>1. old \in Seq(Value) /\ Len(old) = n - c /\ \A i \in 1 .. n - c : old[i] = log[c + i - 1]
    BY AsSeqType DEF log, n
  <2> HIDE DEF old
  <2>2. idx - c \in Nat /\ 1 .. idx - c \subseteq 1 .. n - c
    BY <1>2
  <2>3. \A i \in 1 .. idx - c : kept[c + i - 1] = old[i] /\ old[i] \in Value
    BY <1>2, <1>4, <2>1, <2>2
  <2>4. /\ SubSeq(old, 1, idx - c) \in Seq(Value) /\ Len(SubSeq(old, 1, idx - c)) = idx - c
        /\ \A i \in 1 .. idx - c : SubSeq(old, 1, idx - c)[i] = old[i]
    <3>1. 1 \in Int /\ idx - c \in Int /\ (idx - c) - 1 + 1 = idx - c
          /\ \A i \in 1 .. idx - c : 1 + i - 1 = i
      BY <2>2
    <3> QED BY <2>2, <2>3, <3>1, SubSeqProperties
  <2> DEFINE cut == [i \in 1 .. idx - c |-> kept[c + i - 1]]
  <2>5. cut \in Seq(Value) /\ Len(cut) = idx - c /\ \A i \in 1 .. idx - c : cut[i] = old[i]
    <3>1. cut \in [1 .. idx - c -> Value]
      BY <2>3
    <3>2. cut \in Seq(Value)
      BY SMTT(30), <2>2, <3>1, SeqDef
    <3> QED BY <2>2, <2>3, <3>1, <3>2, LenProperties
  <2> HIDE DEF cut
  <2>6. cut = SubSeq(old, 1, idx - c)
    BY <2>4, <2>5, SeqEqual
  <2> QED BY <2>6 DEF cut, old
<1>7. d \in Databases /\ d.LOG = new
  BY <1>5, WithLog DEF IsStore
<1> HIDE DEF d, v
<1>8. v.db = d /\ v.next_log_key = idx + Len(entries) /\ v.db.LOG = new
  BY <1>1, <1>7
<1>9. v.db = [w.db EXCEPT !.LOG = v.db.LOG]
  BY <1>8 DEF d
<1>10. IsStore(v)
  BY <1>1, <1>7, <1>8 DEF IsStore
<1> QED BY <1>5, <1>6, <1>8, <1>9, <1>10 DEF log, n, v, Prefixed

\* batch_trim drains the vector.
LEMMA BatchTrimOK ==
  ASSUME NEW w, IsStore(w), NEW c, LogOK(w.db.LOG, c, w.next_log_key),
         NEW idx \in c .. w.next_log_key
  PROVE  LET v == batch_trim(w, idx)
         IN  /\ IsStore(v)
             /\ v.next_log_key = w.next_log_key
             /\ v.db = [w.db EXCEPT !.LOG = v.db.LOG]
             /\ LogOK(v.db.LOG, idx, v.next_log_key)
             /\ AsSeq(v.db.LOG, idx, v.next_log_key) =
                  SubSeq(AsSeq(w.db.LOG, c, w.next_log_key), idx - c + 1, w.next_log_key - c)
<1> DEFINE n == w.next_log_key
           log == w.db.LOG
           new == delete_range(log, 0, idx)
           d == [w.db EXCEPT !.LOG = new]
           v == batch_trim(w, idx)
<1>1. v = [db |-> d, next_log_key |-> n]
  BY DEF batch_trim, IsStore, Databases
<1>2. /\ c \in Nat /\ n \in Nat /\ c <= idx /\ idx <= n /\ idx \in Nat /\ log \in [c .. n - 1 -> Value]
  BY DEF LogOK
<1>3. {j \in DOMAIN log : j < 0 \/ idx <= j} = idx .. n - 1
  BY <1>2
<1>4. new = [k \in idx .. n - 1 |-> log[k]]
  BY <1>3 DEF delete_range
<1>5. LogOK(new, idx, n)
  <2>1. \A k \in idx .. n - 1 : log[k] \in Value
    BY <1>2
  <2> QED BY <1>2, <1>4, <2>1 DEF LogOK
<1>6. AsSeq(new, idx, n) = SubSeq(AsSeq(log, c, n), idx - c + 1, n - c)
  <2> DEFINE old == AsSeq(log, c, n)
             cut == AsSeq(new, idx, n)
  <2>1. old \in Seq(Value) /\ Len(old) = n - c /\ \A i \in 1 .. n - c : old[i] = log[c + i - 1]
    BY AsSeqType
  <2>2. cut \in Seq(Value) /\ Len(cut) = n - idx /\ \A i \in 1 .. n - idx : cut[i] = new[idx + i - 1]
    BY <1>5, AsSeqType
  <2> HIDE DEF old, cut, new, log, n
  <2>3. \A i \in idx - c + 1 .. n - c : old[i] \in Value
    <3>1. \A i \in idx - c + 1 .. n - c : i \in 1 .. Len(old)
      BY <1>2, <2>1
    <3> QED BY <2>1, <3>1, ElementOfSeq
  <2>4. idx - c + 1 \in Int /\ n - c \in Int /\ (n - c) - (idx - c + 1) + 1 = n - idx
    BY <1>2
  <2>5. /\ SubSeq(old, idx - c + 1, n - c) \in Seq(Value)
        /\ Len(SubSeq(old, idx - c + 1, n - c)) = n - idx
        /\ \A i \in 1 .. n - idx : SubSeq(old, idx - c + 1, n - c)[i] = old[(idx - c + 1) + i - 1]
    BY <1>2, <2>3, <2>4, SubSeqProperties
  <2>6. \A i \in 1 .. n - idx : cut[i] = old[(idx - c + 1) + i - 1]
    <3> TAKE i \in 1 .. n - idx
    <3>1. /\ (idx - c + 1) + i - 1 \in 1 .. n - c /\ c + ((idx - c + 1) + i - 1) - 1 = idx + i - 1
          /\ idx + i - 1 \in idx .. n - 1
      BY <1>2
    <3> QED BY <1>4, <2>1, <2>2, <3>1
  <2>7. cut = SubSeq(old, idx - c + 1, n - c)
    BY <2>2, <2>5, <2>6, SeqEqual
  <2> QED BY <2>7 DEF cut, old
<1>7. d \in Databases /\ d.LOG = new
  BY <1>5, WithLog DEF IsStore
<1> HIDE DEF new, d, v
<1>8. v.db = d /\ v.next_log_key = n /\ v.db.LOG = new
  BY <1>1, <1>7
<1>9. v.db = [w.db EXCEPT !.LOG = v.db.LOG]
  BY <1>8 DEF d
<1>10. IsStore(v)
  BY <1>1, <1>7, <1>8 DEF IsStore
<1> QED BY <1>5, <1>6, <1>8, <1>9, <1>10 DEF v

\* The database after a snapshot that covers the entries below idx was taken over.
TakenOver(d, idx, snapshot, log) == [d EXCEPT !.TRIM = idx, !.SNAPSHOT = snapshot, !.LOG = log]

\* The store v has a snapshot up to idx, and the entries after it.
Replaced(v, w, idx, snapshot, entries) ==
  /\ IsStore(v)
  /\ v.next_log_key = idx + Len(entries)
  /\ v.db = TakenOver(w.db, idx, snapshot, v.db.LOG)
  /\ LogOK(v.db.LOG, idx, v.next_log_key)
  /\ AsSeq(v.db.LOG, idx, v.next_log_key) = entries

\* After a snapshot is taken over only the new entries are left.
LEMMA BatchReplaceOK ==
  ASSUME NEW w, IsStore(w), NEW c, LogOK(w.db.LOG, c, w.next_log_key),
         NEW idx \in Nat, NEW snapshot \in Seq(Value), NEW entries \in Seq(Value)
  PROVE  Replaced(batch_append_on_prefix(batch_compact(w, idx, snapshot), idx, entries),
                  w, idx, snapshot, entries)
<1> DEFINE n == w.next_log_key
           log == w.db.LOG
           trimmed == delete_range(log, 0, idx)
           kept == delete_range(trimmed, idx + Len(entries), n)
           new == Written(kept, idx, entries)
           d == [w.db EXCEPT !.TRIM = idx, !.SNAPSHOT = snapshot, !.LOG = new]
           v == batch_append_on_prefix(batch_compact(w, idx, snapshot), idx, entries)
<1>1. v = [db |-> d, next_log_key |-> idx + Len(entries)]
  <2> DEFINE e == [w.db EXCEPT !.LOG = trimmed, !.TRIM = idx, !.SNAPSHOT = snapshot]
             x == batch_compact(w, idx, snapshot)
  <2>1. x = [db |-> e, next_log_key |-> n]
    <3> DEFINE t == batch_trim(w, idx)
    <3> HIDE DEF trimmed
    <3>1. t = [db |-> [w.db EXCEPT !.LOG = trimmed], next_log_key |-> n]
      BY DEF batch_trim, IsStore, Databases, trimmed
    <3>2. x = [t EXCEPT !.db.TRIM = idx, !.db.SNAPSHOT = snapshot]
      BY DEF batch_compact
    <3> HIDE DEF t, x
    <3> QED BY <3>1, <3>2 DEF IsStore, Databases
  <2>2. e.LOG = trimmed /\ [e EXCEPT !.LOG = new] = d
    BY DEF IsStore, Databases
  <2> HIDE DEF e, x, trimmed, d
  <2>3. batch_append_on_prefix(x, idx, entries) =
          [db |-> [e EXCEPT !.LOG = new], next_log_key |-> idx + Len(entries)]
    <3>1. x.db = e /\ x.next_log_key = n
      BY <2>1
    <3>2. batch_append_on_prefix(x, idx, entries) =
            batch_append_entries([db |-> [e EXCEPT !.LOG = kept], next_log_key |-> idx], entries)
      BY <2>2, <3>1 DEF batch_append_on_prefix, kept
    <3> HIDE DEF kept
    <3>3. [e EXCEPT !.LOG = kept].LOG = kept
      BY <2>2 DEF e, IsStore, Databases
    <3>4. [[e EXCEPT !.LOG = kept] EXCEPT !.LOG = new] = [e EXCEPT !.LOG = new]
      OBVIOUS
    <3> QED BY <3>2, <3>3, <3>4 DEF batch_append_entries, Written
  <2> QED BY <2>2, <2>3 DEF x
<1>2. /\ c \in Nat /\ n \in Nat /\ c <= n /\ log \in [c .. n - 1 -> Value] /\ Len(entries) \in Nat
  BY LenProperties DEF LogOK
<1>3. DOMAIN trimmed = {j \in c .. n - 1 : j < 0 \/ idx <= j}
  BY <1>2 DEF delete_range
<1>4. DOMAIN kept = {j \in DOMAIN trimmed : j < idx + Len(entries) \/ n <= j}
  BY DEF delete_range
<1>5. /\ DOMAIN kept \subseteq idx .. idx + Len(entries) - 1
      /\ idx .. idx - 1 \subseteq DOMAIN kept /\ \A k \in idx .. idx - 1 : kept[k] \in Value
  BY <1>2, <1>3, <1>4
<1> HIDE DEF new, log, n, kept
<1>6. /\ LogOK(new, idx, idx + Len(entries))
      /\ AsSeq(new, idx, idx + Len(entries)) = [i \in 1 .. idx - idx |-> kept[idx + i - 1]] \o entries
  <2> DEFINE base == idx
  <2>1. /\ base \in Nat /\ base <= idx /\ base .. idx - 1 \subseteq DOMAIN kept
        /\ DOMAIN kept \subseteq base .. idx + Len(entries) - 1
        /\ \A k \in base .. idx - 1 : kept[k] \in Value
    BY <1>5
  <2> HIDE DEF base
  <2>2. /\ LogOK(new, base, idx + Len(entries))
        /\ AsSeq(new, base, idx + Len(entries)) = [i \in 1 .. idx - base |-> kept[base + i - 1]] \o entries
    BY <1>2, <2>1, WrittenOK DEF new
  <2> QED BY <2>2 DEF base
<1>7. [i \in 1 .. idx - idx |-> kept[idx + i - 1]] \o entries = entries
  <2> DEFINE empty == [i \in 1 .. idx - idx |-> kept[idx + i - 1]]
  <2>1. idx - idx = 0 /\ 1 .. 0 = {}
    OBVIOUS
  <2>2. empty \in [1 .. 0 -> Value]
    BY <2>1
  <2>3. empty \in Seq(Value) /\ Len(empty) = 0
    <3>1. empty \in Seq(Value)
      BY <2>2, SeqDef
    <3> QED BY <2>2, <3>1, LenProperties
  <2> HIDE DEF empty
  <2>4. empty = << >>
    BY <2>3, EmptySeq
  <2> QED BY <2>4, ConcatEmptySeq DEF empty
<1>8. d \in Databases /\ d.LOG = new
  <2> DEFINE e == [w.db EXCEPT !.LOG = new]
  <2>1. e \in Databases /\ e.LOG = new
    BY <1>6, WithLog DEF IsStore
  <2>2. d = [e EXCEPT !.TRIM = idx, !.SNAPSHOT = snapshot]
    BY DEF IsStore, Databases
  <2> HIDE DEF e, d
  <2> QED BY <2>1, <2>2 DEF Databases
<1> HIDE DEF d, v
<1>9. v.db = d /\ v.next_log_key = idx + Len(entries) /\ v.db.LOG = new
  BY <1>1, <1>8
<1>10. v.db = TakenOver(w.db, idx, snapshot, v.db.LOG)
  BY <1>9 DEF d, TakenOver
<1>11. IsStore(v)
  BY <1>1, <1>8, <1>9 DEF IsStore
<1> QED BY <1>6, <1>7, <1>9, <1>10, <1>11 DEF v, Replaced

------------------------------------------------------------------------------
(* The invariant, and what the storage stands for under it. *)

\* The cache c holds what the state keys of the database d hold.
Matches(d, n, c) ==
  /\ c.promise = unwrap_or(d.NPROM, DefaultBallot)
  /\ c.accepted_round = unwrap_or(d.ACC, DefaultBallot)
  /\ c.decided_idx = unwrap_or(d.DECIDE, 0)
  /\ c.compacted_idx = unwrap_or(d.TRIM, 0)
  /\ c.stopsign = d.STOPSIGN
  /\ c.accepted_idx = n + IF d.STOPSIGN = None THEN 0 ELSE 1

\* A trim goes up to the decided index, which must be in the log.
StoreOK(d, n, c) ==
  /\ d \in Databases
  /\ c \in Caches
  /\ LogOK(d.LOG, c.compacted_idx, n)
  /\ Matches(d, n, c)
  /\ c.decided_idx <= c.accepted_idx

\* The inductive invariant.
Inv == StoreOK(db, next_log_key, state_cache)

\* The record of the in-memory storage, field by field.
Mem(p, r, d, c, ss, a, b, l, sn) ==
  [promise |-> p, accepted_round |-> r, decided_idx |-> d, compacted_idx |-> c,
   stopsign |-> ss, accepted_idx |-> a, batched_entries |-> b, log |-> l, snapshot |-> sn]

AsMemory(d, n, c) ==
  Mem(c.promise, c.accepted_round, c.decided_idx, c.compacted_idx, c.stopsign, c.accepted_idx,
      c.batched_entries, AsSeq(d.LOG, c.compacted_idx, n), d.SNAPSHOT)

\* What the assignments of append_stopsign and set_stopsign make of it.
Stopped(m, x1, x2) == [m EXCEPT !.stopsign = x1, !.accepted_idx = x2]

\* Its record, when the stop sign and the accepted index are set.
LEMMA MemStop ==
  ASSUME NEW p, NEW r, NEW d, NEW c, NEW ss, NEW a, NEW b, NEW l, NEW sn, NEW x1, NEW x2
  PROVE  Stopped(Mem(p, r, d, c, ss, a, b, l, sn), x1, x2) =
           Mem(p, r, d, c, x1, x2, b, l, sn)
<1> DEFINE m0 == Mem(p, r, d, c, ss, a, b, l, sn)
           m1 == Mem(p, r, d, c, x1, a, b, l, sn)
           m2 == Mem(p, r, d, c, x1, x2, b, l, sn)
<1>1. [m0 EXCEPT !.stopsign = x1] = m1
  BY DEF Mem
<1>2. [m1 EXCEPT !.accepted_idx = x2] = m2
  BY DEF Mem
<1> HIDE DEF m0, m1, m2
<1>3. [m0 EXCEPT !.stopsign = x1, !.accepted_idx = x2] =
        [[m0 EXCEPT !.stopsign = x1] EXCEPT !.accepted_idx = x2]
  OBVIOUS
<1> QED BY <1>1, <1>2, <1>3 DEF m0, m2, Stopped

\* What an append makes of it.
Appended(m, x1, x2) == [m EXCEPT !.log = x1, !.accepted_idx = x2]

\* Its record, when the log and the accepted index are set.
LEMMA MemAppend ==
  ASSUME NEW p, NEW r, NEW d, NEW c, NEW ss, NEW a, NEW b, NEW l, NEW sn, NEW x1, NEW x2
  PROVE  Appended(Mem(p, r, d, c, ss, a, b, l, sn), x1, x2) =
           Mem(p, r, d, c, ss, x2, b, x1, sn)
<1> DEFINE m0 == Mem(p, r, d, c, ss, a, b, l, sn)
           m1 == Mem(p, r, d, c, ss, a, b, x1, sn)
           m2 == Mem(p, r, d, c, ss, x2, b, x1, sn)
<1>1. [m0 EXCEPT !.log = x1] = m1
  BY DEF Mem
<1>2. [m1 EXCEPT !.accepted_idx = x2] = m2
  BY DEF Mem
<1> HIDE DEF m0, m1, m2
<1>3. [m0 EXCEPT !.log = x1, !.accepted_idx = x2] =
        [[m0 EXCEPT !.log = x1] EXCEPT !.accepted_idx = x2]
  OBVIOUS
<1> QED BY <1>1, <1>2, <1>3 DEF m0, m2, Appended

\* What a compaction makes of it.
Compacted(m, x1, x2) == [m EXCEPT !.log = x1, !.compacted_idx = x2]

\* Its record, when the log and the compacted index are set.
LEMMA MemCompact ==
  ASSUME NEW p, NEW r, NEW d, NEW c, NEW ss, NEW a, NEW b, NEW l, NEW sn, NEW x1, NEW x2
  PROVE  Compacted(Mem(p, r, d, c, ss, a, b, l, sn), x1, x2) =
           Mem(p, r, d, x2, ss, a, b, x1, sn)
<1> DEFINE m0 == Mem(p, r, d, c, ss, a, b, l, sn)
           m1 == Mem(p, r, d, c, ss, a, b, x1, sn)
           m2 == Mem(p, r, d, x2, ss, a, b, x1, sn)
<1>1. [m0 EXCEPT !.log = x1] = m1
  BY DEF Mem
<1>2. [m1 EXCEPT !.compacted_idx = x2] = m2
  BY DEF Mem
<1> HIDE DEF m0, m1, m2
<1>3. [m0 EXCEPT !.log = x1, !.compacted_idx = x2] =
        [[m0 EXCEPT !.log = x1] EXCEPT !.compacted_idx = x2]
  OBVIOUS
<1> QED BY <1>1, <1>2, <1>3 DEF m0, m2, Compacted

\* What a new round makes of it.
InRound(m, x1, x2) == [m EXCEPT !.accepted_round = x1, !.decided_idx = x2]

\* Its record, when the accepted round and the decided index are set.
LEMMA MemRound ==
  ASSUME NEW p, NEW r, NEW d, NEW c, NEW ss, NEW a, NEW b, NEW l, NEW sn, NEW x1, NEW x2
  PROVE  InRound(Mem(p, r, d, c, ss, a, b, l, sn), x1, x2) =
           Mem(p, x1, x2, c, ss, a, b, l, sn)
<1> DEFINE m0 == Mem(p, r, d, c, ss, a, b, l, sn)
           m1 == Mem(p, x1, d, c, ss, a, b, l, sn)
           m2 == Mem(p, x1, x2, c, ss, a, b, l, sn)
<1>1. [m0 EXCEPT !.accepted_round = x1] = m1
  BY DEF Mem
<1>2. [m1 EXCEPT !.decided_idx = x2] = m2
  BY DEF Mem
<1> HIDE DEF m0, m1, m2
<1>3. [m0 EXCEPT !.accepted_round = x1, !.decided_idx = x2] =
        [[m0 EXCEPT !.accepted_round = x1] EXCEPT !.decided_idx = x2]
  OBVIOUS
<1> QED BY <1>1, <1>2, <1>3 DEF m0, m2, InRound

\* What a synchronisation makes of it.
Synced(m, x1, x2, x3, x4, x5) == [m EXCEPT !.compacted_idx = x1, !.snapshot = x2, !.log = x3, !.stopsign = x4, !.accepted_idx = x5]

\* Its record, when all that a synchronisation replaces is set.
LEMMA MemSync ==
  ASSUME NEW p, NEW r, NEW d, NEW c, NEW ss, NEW a, NEW b, NEW l, NEW sn, NEW x1, NEW x2, NEW x3, NEW x4, NEW x5
  PROVE  Synced(Mem(p, r, d, c, ss, a, b, l, sn), x1, x2, x3, x4, x5) =
           Mem(p, r, d, x1, x4, x5, b, x3, x2)
<1> DEFINE m0 == Mem(p, r, d, c, ss, a, b, l, sn)
           m1 == Mem(p, r, d, x1, ss, a, b, l, sn)
           m2 == Mem(p, r, d, x1, ss, a, b, l, x2)
           m3 == Mem(p, r, d, x1, ss, a, b, x3, x2)
           m4 == Mem(p, r, d, x1, x4, a, b, x3, x2)
           m5 == Mem(p, r, d, x1, x4, x5, b, x3, x2)
<1>1. [m0 EXCEPT !.compacted_idx = x1] = m1
  BY DEF Mem
<1>2. [m1 EXCEPT !.snapshot = x2] = m2
  BY DEF Mem
<1>3. [m2 EXCEPT !.log = x3] = m3
  BY DEF Mem
<1>4. [m3 EXCEPT !.stopsign = x4] = m4
  BY DEF Mem
<1>5. [m4 EXCEPT !.accepted_idx = x5] = m5
  BY DEF Mem
<1> HIDE DEF m0, m1, m2, m3, m4, m5
<1>6. [m0 EXCEPT !.compacted_idx = x1, !.snapshot = x2, !.log = x3, !.stopsign = x4, !.accepted_idx = x5] =
        [[[[[m0 EXCEPT !.compacted_idx = x1] EXCEPT !.snapshot = x2] EXCEPT !.log = x3] EXCEPT !.stopsign = x4] EXCEPT !.accepted_idx = x5]
  OBVIOUS
<1> QED BY <1>1, <1>2, <1>3, <1>4, <1>5, <1>6 DEF m0, m5, Synced

\* Opening a database finds the next key and the cache, without the batch.
LEMMA OpenOK ==
  ASSUME NEW d, NEW n, NEW c, StoreOK(d, n, c)
  PROVE  open(d) = n /\ load_cache(d, n) = [c EXCEPT !.batched_entries = << >>]
<1>1. /\ c.compacted_idx \in Nat /\ n \in Nat /\ c.compacted_idx <= n
      /\ DOMAIN d.LOG = c.compacted_idx .. n - 1
      /\ c.compacted_idx = unwrap_or(d.TRIM, 0)
  BY DEF StoreOK, LogOK, Matches
<1>2. open(d) = n
  <2>1. CASE c.compacted_idx = n
    <3>1. DOMAIN d.LOG = {}
      BY <1>1, <2>1
    <3> QED BY <3>1, <1>1, <2>1 DEF open
  <2>2. CASE c.compacted_idx < n
    <3> DEFINE keys == c.compacted_idx .. n - 1
    <3>1. n - 1 \in keys /\ \A k \in keys : n - 1 >= k
      BY <1>1, <2>2
    <3>2. \A k \in keys : (\A j \in keys : k >= j) => k = n - 1
      BY <1>1, <3>1
    <3> HIDE DEF keys
    <3>3. Max(keys) = n - 1
      BY <3>1, <3>2 DEF Max
    <3>4. open(d) = Max(keys) + 1
      BY <1>1, <3>1 DEF open, keys
    <3> QED BY <1>1, <3>3, <3>4
  <2> QED BY <1>1, <2>1, <2>2
<1>3. get_log_len(d, n) + unwrap_or(d.TRIM, 0) + (IF d.STOPSIGN = None THEN 0 ELSE 1) = c.accepted_idx
  BY <1>1 DEF get_log_len, StoreOK, Matches
<1>4. load_cache(d, n) = [c EXCEPT !.batched_entries = << >>]
  <2>1. load_cache(d, n) =
          [promise |-> c.promise, accepted_round |-> c.accepted_round, decided_idx |-> c.decided_idx,
           compacted_idx |-> c.compacted_idx, stopsign |-> c.stopsign,
           accepted_idx |-> c.accepted_idx, batched_entries |-> << >>]
    BY <1>3 DEF load_cache, StoreOK, Matches
  <2> QED BY <2>1 DEF StoreOK, Caches
<1> QED BY <1>2, <1>4

\* The state as the in-memory storage has it.
LEMMA MemoryOK ==
  ASSUME Inv
  PROVE  Memory = AsMemory(db, next_log_key, state_cache) /\ Memory \in Abstract!Storage
<1>1. LogOK(db.LOG, state_cache.compacted_idx, next_log_key)
  BY DEF Inv, StoreOK
<1>2. Memory = AsMemory(db, next_log_key, state_cache)
  BY <1>1, IteratorOrder DEF Memory, AsMemory, Mem
<1>3. AsSeq(db.LOG, state_cache.compacted_idx, next_log_key) \in Seq(Value)
  BY <1>1, AsSeqType
<1>4. db.SNAPSHOT \in Seq(Value) \cup {None} /\ state_cache \in Caches
  BY DEF Inv, StoreOK, Databases
<1> QED BY <1>2, <1>3, <1>4 DEF AsMemory, Mem, Caches, Ballot, Abstract!Storage, Abstract!Entries, Abstract!Ballot

\* A step that writes w and leaves the cache c.
LEMMA StepOK ==
  ASSUME NEW d, NEW n, NEW c, StoreOK(d, n, c),
         db' = d, next_log_key' = n, state_cache' = c
  PROVE  Inv' /\ Memory' = AsMemory(d, n, c)
<1>1. Inv'
  BY DEF Inv
<1>2. LogOK(d.LOG, c.compacted_idx, n)
  BY DEF StoreOK
<1>3. Memory' = AsMemory(d, n, c)
  BY <1>2, IteratorOrder DEF Memory, AsMemory, Mem
<1> QED BY <1>1, <1>3

\* What load_cache makes of the in-memory storage is a cache without its batch.
LEMMA LoadOK ==
  ASSUME NEW d, NEW n, NEW c, StoreOK(d, n, c)
  PROVE  LET fresh == [c EXCEPT !.batched_entries = << >>]
         IN  /\ StoreOK(d, n, fresh)
             /\ Abstract!load_cache(AsMemory(d, n, c)) = AsMemory(d, n, fresh)
<1> DEFINE fresh == [c EXCEPT !.batched_entries = << >>]
<1>1. << >> \in Seq(Value)
  BY EmptySeq
<1>2. c \in Caches
  BY DEF StoreOK
<1>3. fresh \in Caches /\ fresh.compacted_idx = c.compacted_idx
  BY <1>1, <1>2 DEF Caches
<1>4. StoreOK(d, n, fresh)
  <2>1. LogOK(d.LOG, fresh.compacted_idx, n)
    BY <1>3 DEF StoreOK
  <2>2. Matches(d, n, fresh) /\ fresh.decided_idx <= fresh.accepted_idx
    BY <1>2 DEF StoreOK, Matches, Caches
  <2> QED BY <1>3, <2>1, <2>2 DEF StoreOK
<1> DEFINE log == AsSeq(d.LOG, c.compacted_idx, n)
<1>5. Len(log) + c.compacted_idx + (IF c.stopsign = None THEN 0 ELSE 1) = c.accepted_idx
  <2>1. Len(log) = n - c.compacted_idx /\ n \in Nat /\ c.compacted_idx \in Nat
    BY AsSeqType DEF StoreOK, LogOK
  <2> HIDE DEF log
  <2> QED BY <2>1 DEF StoreOK, Matches
<1>6. Abstract!load_cache(AsMemory(d, n, c)) = AsMemory(d, n, fresh)
  <2> HIDE DEF log
  <2>1. AsMemory(d, n, c).log = log /\ AsMemory(d, n, c).compacted_idx = c.compacted_idx
        /\ AsMemory(d, n, c).stopsign = c.stopsign
    BY DEF AsMemory, Mem, log
  <2>2. Abstract!load_cache(AsMemory(d, n, c)) =
          [AsMemory(d, n, c) EXCEPT !.batched_entries = << >>, !.accepted_idx = c.accepted_idx]
    BY <1>5, <2>1 DEF Abstract!load_cache
  <2> QED BY <1>2, <2>2 DEF AsMemory, Mem, Caches
<1> QED BY <1>4, <1>6

\* append_entries_without_batching, of entries that may come from the batch.
LEMMA FlushedOK ==
  ASSUME Inv, NEW batched \in Seq(Value)
  PROVE  LET v == batch_append_entries(Store, batched)
             c == [state_cache EXCEPT !.batched_entries = << >>, !.accepted_idx = @ + Len(batched)]
         IN  /\ StoreOK(v.db, v.next_log_key, c)
             /\ v.next_log_key = next_log_key + Len(batched)
             /\ v.db = [db EXCEPT !.LOG = v.db.LOG]
             /\ AsMemory(v.db, v.next_log_key, c) =
                  Abstract!append_entries_without_batching([Memory EXCEPT !.batched_entries = << >>], batched)
<1> DEFINE v == batch_append_entries(Store, batched)
           k == state_cache.compacted_idx
           a == state_cache.accepted_idx + Len(batched)
           c == [state_cache EXCEPT !.batched_entries = << >>, !.accepted_idx = a]
<1>1. /\ IsStore(Store) /\ Store.db = db /\ Store.next_log_key = next_log_key
      /\ LogOK(db.LOG, k, next_log_key) /\ k \in Nat /\ next_log_key \in Nat
  BY DEF Inv, StoreOK, IsStore, Store, LogOK
<1>2. /\ IsStore(v)
      /\ v.next_log_key = next_log_key + Len(batched)
      /\ v.db = [db EXCEPT !.LOG = v.db.LOG]
      /\ LogOK(v.db.LOG, k, v.next_log_key)
      /\ AsSeq(v.db.LOG, k, v.next_log_key) = AsSeq(db.LOG, k, next_log_key) \o batched
  BY <1>1, BatchAppendEntriesOK
<1>3. state_cache \in Caches /\ Len(batched) \in Nat /\ << >> \in Seq(Value)
  BY LenProperties, EmptySeq DEF Inv, StoreOK
<1>4. a \in Nat /\ state_cache.decided_idx \in Nat /\ state_cache.decided_idx <= a
      /\ state_cache.accepted_idx \in Nat
  BY <1>3 DEF Caches, Inv, StoreOK
<1> HIDE DEF v, a
<1>8. /\ c \in Caches /\ c.compacted_idx = k /\ c.accepted_idx = a /\ c.promise = state_cache.promise
      /\ c.accepted_round = state_cache.accepted_round /\ c.decided_idx = state_cache.decided_idx
      /\ c.stopsign = state_cache.stopsign /\ c.batched_entries = << >>
  BY <1>3, <1>4 DEF Caches
<1>5. StoreOK(v.db, v.next_log_key, c)
  <2> DEFINE e == v.db
             m == v.next_log_key
  <2>1. e = [db EXCEPT !.LOG = e.LOG] /\ m = next_log_key + Len(batched) /\ db \in Databases
    BY <1>2 DEF Inv, StoreOK
  <2> HIDE DEF e, m
  <2>2. /\ e.NPROM = db.NPROM /\ e.ACC = db.ACC /\ e.DECIDE = db.DECIDE /\ e.TRIM = db.TRIM
        /\ e.STOPSIGN = db.STOPSIGN
    BY <2>1 DEF Databases
  <2>5. a = m + (IF e.STOPSIGN = None THEN 0 ELSE 1)
    BY <1>1, <1>3, <2>1, <2>2 DEF Inv, StoreOK, Matches, a
  <2> HIDE DEF c
  <2>3. Matches(e, m, c) /\ c.decided_idx <= c.accepted_idx
    BY <1>4, <1>8, <2>2, <2>5 DEF Inv, StoreOK, Matches
  <2>4. e \in Databases /\ LogOK(e.LOG, c.compacted_idx, m)
    BY <1>2, <1>8 DEF IsStore, e, m
  <2> QED BY <1>8, <2>3, <2>4 DEF StoreOK, e, m
<1>6. v.db.SNAPSHOT = db.SNAPSHOT
  BY <1>2 DEF Inv, StoreOK, Databases
<1>7. AsMemory(v.db, v.next_log_key, c) =
        Abstract!append_entries_without_batching([Memory EXCEPT !.batched_entries = << >>], batched)
  <2> DEFINE old == AsSeq(db.LOG, k, next_log_key)
             m == [Memory EXCEPT !.batched_entries = << >>]
  <2>1. Memory = AsMemory(db, next_log_key, state_cache)
    BY MemoryOK
  <2>2. m.log = old /\ m.accepted_idx = state_cache.accepted_idx
    BY <2>1 DEF AsMemory, Mem
  <2> HIDE DEF m, old
  <2>3. Abstract!append_entries_without_batching(m, batched) =
          [m EXCEPT !.log = old \o batched, !.accepted_idx = a]
    BY <2>2 DEF Abstract!append_entries_without_batching, a
  <2>4. AsSeq(v.db.LOG, c.compacted_idx, v.next_log_key) = old \o batched
    BY <1>2, <1>8 DEF old
  <2>5. m = [AsMemory(db, next_log_key, state_cache) EXCEPT !.batched_entries = << >>]
    BY <2>1 DEF m
  <2> HIDE DEF c
  <2>6. AsMemory(v.db, v.next_log_key, c) = [m EXCEPT !.log = old \o batched, !.accepted_idx = a]
    <3> DEFINE new == old \o batched
    <3>1. AsSeq(v.db.LOG, c.compacted_idx, v.next_log_key) = new
      BY <2>4
    <3> HIDE DEF new
    <3>2. AsMemory(v.db, v.next_log_key, c) = [m EXCEPT !.log = new, !.accepted_idx = a]
      <4>1. m = Mem(state_cache.promise, state_cache.accepted_round, state_cache.decided_idx, k,
                    state_cache.stopsign, state_cache.accepted_idx, << >>, old, db.SNAPSHOT)
        BY <2>5 DEF AsMemory, Mem, old
      <4>2. AsMemory(v.db, v.next_log_key, c) =
              Mem(state_cache.promise, state_cache.accepted_round, state_cache.decided_idx, k,
                  state_cache.stopsign, a, << >>, new, db.SNAPSHOT)
        BY <1>6, <1>8, <3>1 DEF AsMemory
      <4>3. AsMemory(v.db, v.next_log_key, c) = Appended(m, new, a)
        BY <4>1, <4>2, MemAppend
      <4> QED BY <4>3 DEF Appended
    <3> QED BY <3>2 DEF new
  <2> QED BY <2>3, <2>6 DEF m
<1> QED BY <1>2, <1>5, <1>7 DEF v, a

------------------------------------------------------------------------------
(* Each step keeps the invariant, and is a step of ReplicaStorage. *)

\* The fields of the store.
LEMMA StoreFields ==
  ASSUME Inv
  PROVE  /\ Store = [db |-> db, next_log_key |-> next_log_key]
         /\ db \in Databases /\ state_cache \in Caches
         /\ next_log_key \in Nat /\ state_cache.compacted_idx \in Nat
         /\ state_cache.compacted_idx <= next_log_key
         /\ Memory = AsMemory(db, next_log_key, state_cache)
BY MemoryOK DEF Inv, StoreOK, LogOK, Store

\* A step that writes state keys only.
LEMMA KeysOK ==
  ASSUME Inv, NEW d \in Databases, NEW c \in Caches,
         d.LOG = db.LOG, d.SNAPSHOT = db.SNAPSHOT, c.compacted_idx = state_cache.compacted_idx,
         Matches(d, next_log_key, c), c.decided_idx <= c.accepted_idx,
         db' = d, next_log_key' = next_log_key, state_cache' = c
  PROVE  /\ Inv'
         /\ Memory' = [promise |-> c.promise, accepted_round |-> c.accepted_round,
                       decided_idx |-> c.decided_idx, compacted_idx |-> state_cache.compacted_idx,
                       stopsign |-> c.stopsign, accepted_idx |-> c.accepted_idx,
                       batched_entries |-> c.batched_entries,
                       log |-> Memory.log, snapshot |-> db.SNAPSHOT]
<1>1. StoreOK(d, next_log_key, c)
  BY DEF Inv, StoreOK
<1>2. Inv' /\ Memory' = AsMemory(d, next_log_key, c)
  BY <1>1, StepOK
<1>3. Memory.log = AsSeq(db.LOG, state_cache.compacted_idx, next_log_key)
  BY StoreFields DEF AsMemory, Mem
<1> QED BY <1>2, <1>3 DEF AsMemory, Mem

\* set_promise writes the promise through.
LEMMA SetPromiseOK ==
  ASSUME Inv, NEW b \in Ballots, set_promise(b)
  PROVE  Inv' /\ Abstract!SetPromise(b)
<1> DEFINE d == [db EXCEPT !.NPROM = b]
           c == [state_cache EXCEPT !.promise = b]
<1>1. b \in Ballot /\ b # None
  BY PersistenceAssumption
<1>2. db' = d /\ next_log_key' = next_log_key /\ state_cache' = c /\ state_cache.promise \prec b
  BY StoreFields DEF set_promise, Write
<1>3. /\ d \in Databases /\ c \in Caches /\ d.LOG = db.LOG /\ d.SNAPSHOT = db.SNAPSHOT
      /\ c.compacted_idx = state_cache.compacted_idx /\ c.decided_idx <= c.accepted_idx
  BY <1>1, StoreFields DEF Databases, Caches, Inv, StoreOK
<1>4. Matches(d, next_log_key, c)
  BY <1>1, StoreFields DEF Databases, Caches, Inv, StoreOK, Matches, unwrap_or
<1> HIDE DEF d, c
<1>5. Inv' /\ Memory' = [promise |-> c.promise, accepted_round |-> c.accepted_round,
                       decided_idx |-> c.decided_idx, compacted_idx |-> state_cache.compacted_idx,
                       stopsign |-> c.stopsign, accepted_idx |-> c.accepted_idx,
                       batched_entries |-> c.batched_entries,
                       log |-> Memory.log, snapshot |-> db.SNAPSHOT]
  BY <1>2, <1>3, <1>4, KeysOK
<1>6. Memory' = [Memory EXCEPT !.promise = b]
  BY <1>5, StoreFields DEF c, AsMemory, Mem, Caches
<1>7. Abstract!\prec(Memory.promise, b)
  BY <1>2, StoreFields DEF AsMemory, Mem, \prec, Abstract!\prec
<1> QED BY <1>5, <1>6, <1>7 DEF Abstract!SetPromise

\* append_entries_without_batching as a step.
LEMMA FlushOK ==
  ASSUME Inv, NEW batched \in Seq(Value), flush(batched)
  PROVE  /\ Inv'
         /\ Memory' = Abstract!append_entries_without_batching(
                        [Memory EXCEPT !.batched_entries = << >>], batched)
<1> DEFINE v == batch_append_entries(Store, batched)
           c == [state_cache EXCEPT !.batched_entries = << >>, !.accepted_idx = @ + Len(batched)]
<1>1. db' = v.db /\ next_log_key' = v.next_log_key /\ state_cache' = c
  BY DEF flush, Write
<1>2. /\ StoreOK(v.db, v.next_log_key, c)
      /\ AsMemory(v.db, v.next_log_key, c) =
           Abstract!append_entries_without_batching([Memory EXCEPT !.batched_entries = << >>], batched)
  BY FlushedOK
<1> HIDE DEF v, c
<1>3. Inv' /\ Memory' = AsMemory(v.db, v.next_log_key, c)
  BY <1>1, <1>2, StepOK
<1> QED BY <1>2, <1>3

\* flush_batch appends the batch.
LEMMA FlushBatchOK ==
  ASSUME Inv, flush_batch
  PROVE  Inv' /\ Abstract!Flush
<1>1. state_cache.batched_entries \in Seq(Value) /\ Memory.batched_entries = state_cache.batched_entries
  BY StoreFields DEF Caches, AsMemory, Mem
<1>2. /\ Inv'
      /\ Memory' = Abstract!append_entries_without_batching(
                     [Memory EXCEPT !.batched_entries = << >>], state_cache.batched_entries)
  BY <1>1, FlushOK DEF flush_batch
<1> QED BY <1>1, <1>2 DEF Abstract!Flush, Abstract!flush_batch

\* The entries of a call.
LEMMA BlocksType ==
  ASSUME NEW n \in Nat, NEW block \in Abstract!Blocks(n)
  PROVE  block \in Seq(Value)
<1>1. PICK k \in 0 .. n : block \in [1 .. k -> Value]
  BY DEF Abstract!Blocks
<1> QED BY <1>1, SeqDef

\* append_entries_with_batching appends a full batch at once and keeps others.
LEMMA AppendEntriesWithBatchingOK ==
  ASSUME Inv, NEW entries \in Abstract!Blocks(MaxSuffix), append_entries_with_batching(entries)
  PROVE  Inv' /\ Abstract!AppendEntries(entries)
<1> DEFINE old == state_cache.batched_entries
           batched == old \o entries
<1>1. entries \in Seq(Value) /\ old \in Seq(Value)
  BY BlocksType, StoreFields, PersistenceAssumption DEF Caches
<1>2. batched \in Seq(Value) /\ Len(batched) = Len(old) + Len(entries)
  BY <1>1, ConcatProperties
<1>3. Memory.batched_entries = old /\ Abstract!MayAppend(Memory, entries)
  BY StoreFields DEF AsMemory, Mem, append_entries_with_batching
<1> DEFINE t == [Memory EXCEPT !.batched_entries = batched]
<1>4. /\ t.batched_entries = batched
      /\ [t EXCEPT !.batched_entries = << >>] = [Memory EXCEPT !.batched_entries = << >>]
  BY StoreFields DEF AsMemory, Mem
<1>5. Abstract!append_entries_with_batching(Memory, entries) =
        IF Len(batched) >= BatchSize THEN Abstract!flush_batch(t) ELSE t
  BY <1>2, <1>3 DEF Abstract!append_entries_with_batching, Abstract!fills_batch
<1> HIDE DEF batched, t
<1>6. CASE Len(batched) >= BatchSize
  <2>1. flush(batched)
    BY <1>6 DEF append_entries_with_batching, batched
  <2>2. /\ Inv'
        /\ Memory' = Abstract!append_entries_without_batching(
                       [Memory EXCEPT !.batched_entries = << >>], batched)
    BY <1>2, <2>1, FlushOK
  <2>3. Memory' = Abstract!flush_batch(t)
    BY <1>4, <2>2 DEF Abstract!flush_batch
  <2> QED BY <1>3, <1>5, <1>6, <2>2, <2>3 DEF Abstract!AppendEntries
<1>7. CASE ~ (Len(batched) >= BatchSize)
  <2> DEFINE c == [state_cache EXCEPT !.batched_entries = batched]
  <2>1. state_cache' = c /\ db' = db /\ next_log_key' = next_log_key
    BY <1>7 DEF append_entries_with_batching, batched
  <2>2. /\ c \in Caches /\ c.compacted_idx = state_cache.compacted_idx
        /\ Matches(db, next_log_key, c) /\ c.decided_idx <= c.accepted_idx
    BY <1>2, StoreFields DEF Caches, Inv, StoreOK, Matches
  <2> HIDE DEF c
  <2>3. Inv' /\ Memory' = [promise |-> c.promise, accepted_round |-> c.accepted_round,
                       decided_idx |-> c.decided_idx, compacted_idx |-> state_cache.compacted_idx,
                       stopsign |-> c.stopsign, accepted_idx |-> c.accepted_idx,
                       batched_entries |-> c.batched_entries,
                       log |-> Memory.log, snapshot |-> db.SNAPSHOT]
    BY <2>1, <2>2, KeysOK, StoreFields
  <2>4. Memory' = t
    BY <2>3, StoreFields DEF c, t, AsMemory, Mem, Caches
  <2> QED BY <1>3, <1>5, <1>7, <2>3, <2>4 DEF Abstract!AppendEntries
<1> QED BY <1>6, <1>7

\* append_stopsign flushes the batch and writes the stop sign after it.
LEMMA AppendStopSignOK ==
  ASSUME Inv, NEW ss \in StopSign, append_stopsign(ss)
  PROVE  Inv' /\ Abstract!AppendStopSign(ss)
<1> DEFINE old == state_cache.batched_entries
           v == batch_append_entries(Store, old)
           a == state_cache.accepted_idx + Len(old)
           c == [state_cache EXCEPT !.batched_entries = << >>, !.accepted_idx = a]
           d == [v.db EXCEPT !.STOPSIGN = ss]
           b == a + 1
           e == [c EXCEPT !.stopsign = ss, !.accepted_idx = b]
<1>1. old \in Seq(Value) /\ Memory.batched_entries = old /\ ss # None /\ state_cache.stopsign = None
  BY StoreFields, PersistenceAssumption DEF Caches, AsMemory, Mem, append_stopsign, Abstract!MayStop
<1>2. /\ StoreOK(v.db, v.next_log_key, c)
      /\ AsMemory(v.db, v.next_log_key, c) = Abstract!flush_batch(Memory)
  BY <1>1, FlushedOK DEF Abstract!flush_batch
<1>3. v = [db |-> v.db, next_log_key |-> v.next_log_key]
  BY DEF batch_append_entries
<1>4. /\ db' = d /\ next_log_key' = v.next_log_key
      /\ state_cache' = [state_cache EXCEPT !.stopsign = ss, !.batched_entries = << >>,
                           !.accepted_idx = a + 1]
  <2> HIDE DEF v
  <2>1. Write([v EXCEPT !.db.STOPSIGN = ss])
    BY DEF append_stopsign, v
  <2>2. [v EXCEPT !.db.STOPSIGN = ss] = [db |-> d, next_log_key |-> v.next_log_key]
    BY <1>3
  <2> HIDE DEF d
  <2>3. db' = d /\ next_log_key' = v.next_log_key
    BY <2>1, <2>2 DEF Write
  <2> QED BY <2>3 DEF append_stopsign
<1>5. state_cache' = e /\ c.stopsign = None /\ c.accepted_idx = a /\ a \in Nat /\ b \in Nat /\ b = a + 1
  <2>1. a \in Nat
    BY <1>1, StoreFields, LenProperties DEF Caches
  <2>2. b \in Nat /\ b = a + 1
    BY <2>1
  <2> HIDE DEF a, b
  <2> QED BY <1>1, <1>4, <2>1, <2>2, StoreFields DEF Caches
<1> HIDE DEF v, a, b, c
<1>6. /\ d \in Databases /\ e \in Caches /\ d.LOG = v.db.LOG /\ d.SNAPSHOT = v.db.SNAPSHOT
      /\ e.compacted_idx = c.compacted_idx /\ e.decided_idx <= e.accepted_idx
  <2>1. v.db \in Databases /\ c \in Caches /\ c.decided_idx <= a /\ c.decided_idx \in Nat
    BY <1>2, <1>5 DEF StoreOK, Caches
  <2>2. d \in Databases /\ d.LOG = v.db.LOG /\ d.SNAPSHOT = v.db.SNAPSHOT
    BY <2>1 DEF Databases
  <2>3. e \in Caches /\ e.compacted_idx = c.compacted_idx
    BY <1>5, <2>1 DEF Caches
  <2>4. e.decided_idx = c.decided_idx /\ e.accepted_idx = b
    BY <2>1 DEF Caches
  <2> HIDE DEF d, e
  <2> QED BY <1>5, <2>1, <2>2, <2>3, <2>4
<1>7. v.next_log_key \in Nat
  BY <1>2 DEF StoreOK, LogOK
<1>8. Matches(d, v.next_log_key, e)
  BY <1>1, <1>2, <1>5, <1>7 DEF StoreOK, Databases, Caches, Matches
<1> HIDE DEF d
<1>9. StoreOK(d, v.next_log_key, e)
  BY <1>2, <1>6, <1>8 DEF StoreOK
<1>10. Inv' /\ Memory' = AsMemory(d, v.next_log_key, e)
  BY <1>4, <1>5, <1>9, StepOK
<1>11. AsMemory(d, v.next_log_key, e) =
         [AsMemory(v.db, v.next_log_key, c) EXCEPT !.stopsign = ss, !.accepted_idx = b]
  <2>1. c \in Caches
    BY <1>2 DEF StoreOK
  <2>2. /\ e.promise = c.promise /\ e.accepted_round = c.accepted_round /\ e.stopsign = ss
        /\ e.decided_idx = c.decided_idx /\ e.batched_entries = c.batched_entries /\ e.accepted_idx = b
    BY <2>1 DEF Caches
  <2> HIDE DEF e
  <2>3. AsMemory(d, v.next_log_key, e) =
          Mem(c.promise, c.accepted_round, c.decided_idx, c.compacted_idx, ss, b,
              c.batched_entries, AsSeq(v.db.LOG, c.compacted_idx, v.next_log_key), v.db.SNAPSHOT)
    BY <1>6, <2>2 DEF AsMemory
  <2>4. AsMemory(d, v.next_log_key, e) = Stopped(AsMemory(v.db, v.next_log_key, c), ss, b)
    BY <2>3, MemStop DEF AsMemory
  <2> QED BY <2>4 DEF Stopped
<1>12. AsMemory(v.db, v.next_log_key, c).accepted_idx = a
  BY <1>5 DEF AsMemory, Mem
<1>13. Memory' = Abstract!append_stopsign(Memory, ss)
  BY <1>2, <1>5, <1>10, <1>11, <1>12 DEF Abstract!append_stopsign
<1>14. Abstract!MayStop(Memory)
  BY DEF append_stopsign
<1> QED BY <1>10, <1>13, <1>14 DEF Abstract!AppendStopSign

\* set_stopsign counts the stop sign once.
LEMMA SetStopSignOK ==
  ASSUME Inv, NEW ss \in StopSign, set_stopsign(ss)
  PROVE  Inv' /\ Abstract!SetStopSign(ss)
<1> DEFINE d == [db EXCEPT !.STOPSIGN = ss]
           a == IF state_cache.stopsign = None THEN state_cache.accepted_idx + 1
                                               ELSE state_cache.accepted_idx
           c == [state_cache EXCEPT !.stopsign = ss, !.accepted_idx = a]
<1>1. ss # None
  BY PersistenceAssumption
<1>2. db' = d /\ next_log_key' = next_log_key /\ state_cache' = c /\ Abstract!MaySetStopSign(Memory)
  BY StoreFields DEF set_stopsign, Write
<1>3. /\ a \in Nat /\ a = next_log_key + 1 /\ state_cache.decided_idx <= a
  BY StoreFields DEF Caches, Inv, StoreOK, Matches
<1> HIDE DEF a
<1>4. /\ d \in Databases /\ c \in Caches /\ d.LOG = db.LOG /\ d.SNAPSHOT = db.SNAPSHOT
      /\ c.compacted_idx = state_cache.compacted_idx /\ c.decided_idx <= c.accepted_idx
  BY <1>1, <1>3, StoreFields DEF Databases, Caches
<1>5. Matches(d, next_log_key, c)
  BY <1>1, <1>3, StoreFields DEF Databases, Caches, Inv, StoreOK, Matches
<1> HIDE DEF d, c
<1>6. Inv' /\ Memory' = [promise |-> c.promise, accepted_round |-> c.accepted_round,
                       decided_idx |-> c.decided_idx, compacted_idx |-> state_cache.compacted_idx,
                       stopsign |-> c.stopsign, accepted_idx |-> c.accepted_idx,
                       batched_entries |-> c.batched_entries,
                       log |-> Memory.log, snapshot |-> db.SNAPSHOT]
  BY <1>2, <1>4, <1>5, KeysOK
<1>7. Memory' = [Memory EXCEPT !.stopsign = ss, !.accepted_idx = a]
  <2>1. /\ c.promise = state_cache.promise /\ c.accepted_round = state_cache.accepted_round
        /\ c.decided_idx = state_cache.decided_idx /\ c.batched_entries = state_cache.batched_entries
        /\ c.stopsign = ss /\ c.accepted_idx = a
    BY StoreFields DEF c, Caches
  <2>2. Memory = AsMemory(db, next_log_key, state_cache)
    BY StoreFields
  <2>3. Memory.log = AsSeq(db.LOG, state_cache.compacted_idx, next_log_key)
    BY <2>2 DEF AsMemory, Mem
  <2>4. Memory' = Mem(state_cache.promise, state_cache.accepted_round, state_cache.decided_idx,
                      state_cache.compacted_idx, ss, a, state_cache.batched_entries,
                      AsSeq(db.LOG, state_cache.compacted_idx, next_log_key), db.SNAPSHOT)
    BY <1>6, <2>1, <2>3 DEF Mem
  <2>5. Memory' = Stopped(AsMemory(db, next_log_key, state_cache), ss, a)
    BY <2>4, MemStop DEF AsMemory
  <2> QED BY <2>2, <2>5 DEF Stopped
<1>8. Memory.stopsign = state_cache.stopsign /\ Memory.accepted_idx = state_cache.accepted_idx
  BY StoreFields DEF AsMemory, Mem
<1> QED BY <1>2, <1>6, <1>7, <1>8 DEF Abstract!SetStopSign, Abstract!set_stopsign, a

\* set_decided_idx writes the decided index through.
LEMMA SetDecidedIdxOK ==
  ASSUME Inv, NEW idx \in 0 .. MaxIdx, set_decided_idx(idx)
  PROVE  Inv' /\ Abstract!SetDecidedIdx(idx)
<1> DEFINE d == [db EXCEPT !.DECIDE = idx]
           c == [state_cache EXCEPT !.decided_idx = idx]
<1>1. idx \in Nat /\ idx # None
  BY PersistenceAssumption
<1>2. /\ db' = d /\ next_log_key' = next_log_key /\ state_cache' = c
      /\ idx \in state_cache.decided_idx .. state_cache.accepted_idx
  BY StoreFields DEF set_decided_idx, Write
<1>3. /\ d \in Databases /\ c \in Caches /\ d.LOG = db.LOG /\ d.SNAPSHOT = db.SNAPSHOT
      /\ c.compacted_idx = state_cache.compacted_idx /\ c.decided_idx <= c.accepted_idx
  <2>1. d \in Databases /\ d.LOG = db.LOG /\ d.SNAPSHOT = db.SNAPSHOT
    BY <1>1, StoreFields DEF Databases
  <2>2. /\ c \in Caches /\ c.compacted_idx = state_cache.compacted_idx
        /\ c.decided_idx = idx /\ c.accepted_idx = state_cache.accepted_idx
    BY <1>1, StoreFields DEF Caches
  <2>3. state_cache.decided_idx \in Nat /\ state_cache.accepted_idx \in Nat
    BY StoreFields DEF Caches
  <2> HIDE DEF c, d
  <2> QED BY <1>2, <2>1, <2>2, <2>3
<1>4. Matches(d, next_log_key, c)
  BY <1>1, StoreFields DEF Databases, Caches, Inv, StoreOK, Matches, unwrap_or
<1> HIDE DEF d, c
<1>5. Inv' /\ Memory' = [promise |-> c.promise, accepted_round |-> c.accepted_round,
                       decided_idx |-> c.decided_idx, compacted_idx |-> state_cache.compacted_idx,
                       stopsign |-> c.stopsign, accepted_idx |-> c.accepted_idx,
                       batched_entries |-> c.batched_entries,
                       log |-> Memory.log, snapshot |-> db.SNAPSHOT]
  BY <1>2, <1>3, <1>4, KeysOK
<1>6. Memory' = [Memory EXCEPT !.decided_idx = idx]
  BY <1>5, StoreFields DEF c, AsMemory, Mem, Caches
<1>7. idx \in Memory.decided_idx .. Memory.accepted_idx
  BY <1>2, StoreFields DEF AsMemory, Mem
<1> QED BY <1>5, <1>6, <1>7 DEF Abstract!SetDecidedIdx

------------------------------------------------------------------------------
(* Reads *)

\* The log of Memory.
LEMMA MemoryLog ==
  ASSUME Inv
  PROVE  /\ Memory.compacted_idx = state_cache.compacted_idx
         /\ Memory.log \in Seq(Value)
         /\ Len(Memory.log) = next_log_key - state_cache.compacted_idx
         /\ \A i \in 1 .. next_log_key - state_cache.compacted_idx :
              Memory.log[i] = db.LOG[state_cache.compacted_idx + i - 1]
<1>1. LogOK(db.LOG, state_cache.compacted_idx, next_log_key)
  BY DEF Inv, StoreOK
<1>2. Memory.log = AsSeq(db.LOG, state_cache.compacted_idx, next_log_key)
      /\ Memory.compacted_idx = state_cache.compacted_idx
  BY StoreFields DEF AsMemory, Mem
<1> QED BY <1>1, <1>2, AsSeqType

\* Reading through the iterator returns the part of the vector, from any index
\* that is not compacted.
LEMMA GetEntriesAgrees ==
  ASSUME Inv, NEW from \in Nat, state_cache.compacted_idx <= from, NEW to \in Int
  PROVE  /\ get_entries(from, to) = Abstract!get_entries(Memory, from, to)
         /\ get_entries(from, to) \in Seq(Value)
         /\ ~ get_entries_fails(from, to)
<1> DEFINE c == state_cache.compacted_idx
           n == next_log_key
           log == Memory.log
           i0 == from - c + 1
           i1 == to - c
<1>1. c \in Nat /\ n \in Nat /\ c <= n /\ DOMAIN db.LOG = c .. n - 1
  BY DEF Inv, StoreOK, LogOK
<1>2. log \in Seq(Value) /\ Len(log) = n - c /\ \A i \in 1 .. n - c : log[i] = db.LOG[c + i - 1]
  BY MemoryLog
<1>3. Abstract!get_entries(Memory, from, to) =
        IF from <= to /\ to <= n THEN SubSeq(log, i0, i1) ELSE << >>
  <2>1. (to - c <= n - c) <=> to <= n
    BY <1>1
  <2> HIDE DEF log
  <2>2. Abstract!get_entries(Memory, from, to) =
          IF c <= from /\ from <= to /\ to - c <= Len(log) THEN SubSeq(log, i0, i1) ELSE << >>
    BY MemoryLog DEF Abstract!get_entries, log
  <2> QED BY <1>2, <2>1, <2>2
<1> HIDE DEF log
<1>4. CASE is_in_log(from, to)
  <2> DEFINE read == get_entries(from, to)
             part == SubSeq(log, i0, i1)
             len == to - from
  <2>1. to <= n /\ from < to /\ len \in Nat /\ len > 0 /\ to \in Nat
    BY <1>4 DEF is_in_log
  <2>2. seek(db.LOG, from) = from .. n - 1
    BY <1>1, <2>1 DEF seek
  <2>3. \A i \in 1 .. len : nth_key(from .. n - 1, i) = from + i - 1
    <3> TAKE i \in 1 .. len
    <3>1. i \in 1 .. n - from
      BY <1>1, <2>1
    <3> QED BY <1>1, <3>1, NthKey
  <2>4. read = [i \in 1 .. len |-> db.LOG[from + i - 1]]
    BY <1>4, <2>2, <2>3 DEF get_entries
  <2>5. i0 \in Int /\ i1 \in Int /\ i1 - i0 + 1 = len /\ i0 <= i1 + 1
        /\ \A i \in i0 .. i1 : i \in 1 .. n - c
    BY SMTT(30), <1>1, <2>1
  <2>6. \A i \in i0 .. i1 : log[i] \in Value
    BY <1>2, <2>5, ElementOfSeq
  <2>7. /\ part \in Seq(Value) /\ Len(part) = len
        /\ \A i \in 1 .. len : part[i] = log[i0 + i - 1]
    <3> HIDE DEF i0, i1, len
    <3> QED BY <2>1, <2>5, <2>6, SubSeqProperties
  <2>8. \A i \in 1 .. len : db.LOG[from + i - 1] = part[i] /\ part[i] \in Value
    <3> TAKE i \in 1 .. len
    <3>1. i0 + i - 1 \in 1 .. n - c /\ c + (i0 + i - 1) - 1 = from + i - 1 /\ i0 + i - 1 \in i0 .. i1
      BY SMTT(30), <1>1, <2>1
    <3> QED BY <1>2, <2>6, <2>7, <3>1
  <2>9. read \in Seq(Value) /\ Len(read) = len /\ \A i \in 1 .. len : read[i] = part[i]
    <3>1. read \in [1 .. len -> Value]
      BY <2>4, <2>8
    <3> HIDE DEF read, len
    <3>2. read \in Seq(Value)
      BY <2>1, <3>1, SeqDef
    <3>3. Len(read) = len
      BY <2>1, <3>1, <3>2, LenProperties
    <3> QED BY <2>4, <2>8, <3>2, <3>3
  <2> HIDE DEF read, part
  <2>10. read = part
    BY <2>7, <2>9, SeqEqual
  <2>11. Cardinality(seek(db.LOG, from)) = n - from
    BY <1>1, <2>1, <2>2, IntervalSize
  <2>12. ~ get_entries_fails(from, to)
    BY <1>1, <2>1, <2>11 DEF get_entries_fails
  <2>13. from <= to /\ to <= n
    BY <2>1
  <2>14. Abstract!get_entries(Memory, from, to) = part
    <3> HIDE DEF i0, i1
    <3> QED BY <1>3, <2>13 DEF part
  <2> QED BY <2>9, <2>10, <2>12, <2>14 DEF read
<1>5. CASE ~ is_in_log(from, to)
  <2>1. get_entries(from, to) = << >> /\ ~ get_entries_fails(from, to)
    BY <1>5 DEF get_entries, get_entries_fails
  <2>2. << >> \in Seq(Value)
    BY EmptySeq
  <2>3. CASE from <= to /\ to <= n
    <3>1. i0 > i1 /\ i0 \in Int /\ i1 \in Int
      BY <1>1, <1>5, <2>3 DEF is_in_log
    <3>2. SubSeq(log, i0, i1) = << >>
      <4> HIDE DEF i0, i1
      <4> QED BY <1>2, <3>1, SubSeqEmpty
    <3> QED BY <1>3, <2>1, <2>2, <2>3, <3>2
  <2>4. CASE ~ (from <= to /\ to <= n)
    BY <1>3, <2>1, <2>2, <2>4
  <2> QED BY <2>3, <2>4
<1> QED BY <1>4, <1>5

\* create_snapshot covers the same entries.
LEMMA CreateSnapshotAgrees ==
  ASSUME Inv, NEW idx \in Int
  PROVE  /\ create_snapshot(idx) = Abstract!create_snapshot(Memory, idx)
         /\ create_snapshot(idx) \in Seq(Value)
<1> DEFINE c == state_cache.compacted_idx
           part == get_entries(c, idx)
<1>1. c \in Nat /\ c <= c /\ db.SNAPSHOT \in Seq(Value) \cup {None}
  BY StoreFields DEF Databases
<1>2. part = Abstract!get_entries(Memory, c, idx) /\ part \in Seq(Value)
  BY <1>1, GetEntriesAgrees
<1>3. Memory.snapshot = db.SNAPSHOT /\ Memory.compacted_idx = c
  BY StoreFields DEF AsMemory, Mem
<1> HIDE DEF part
<1>4. create_snapshot(idx) = merge(db.SNAPSHOT, part)
  BY DEF create_snapshot, part
<1>5. Abstract!create_snapshot(Memory, idx) = Abstract!merge(db.SNAPSHOT, part)
  BY <1>2, <1>3 DEF Abstract!create_snapshot
<1>6. merge(db.SNAPSHOT, part) = Abstract!merge(db.SNAPSHOT, part)
  BY DEF merge, Abstract!merge
<1>7. merge(db.SNAPSHOT, part) \in Seq(Value)
  BY <1>1, <1>2, ConcatProperties DEF merge
<1> QED BY <1>4, <1>5, <1>6, <1>7

------------------------------------------------------------------------------
(* Compaction *)

\* The index of a compaction is in the log, and the one ReplicaStorage takes.
LEMMA CompactionIdx ==
  ASSUME Inv, NEW idx \in 0 .. MaxIdx, may_compact(idx)
  PROVE  LET k == compacts_to(idx)
         IN  /\ k \in Nat /\ state_cache.compacted_idx < k /\ k <= next_log_key
             /\ Abstract!compaction_idx(Memory, idx) = k
             /\ k \in state_cache.compacted_idx .. next_log_key
             /\ k <= state_cache.decided_idx
<1> DEFINE k == compacts_to(idx)
<1>1. /\ state_cache.decided_idx \in Nat /\ state_cache.accepted_idx \in Nat /\ idx \in Nat
      /\ state_cache.decided_idx <= state_cache.accepted_idx
      /\ state_cache.compacted_idx \in Nat /\ next_log_key \in Nat
      /\ state_cache.accepted_idx = next_log_key + (IF state_cache.stopsign = None THEN 0 ELSE 1)
  BY StoreFields, PersistenceAssumption DEF Inv, StoreOK, Matches, Caches
<1>2. /\ Memory.decided_idx = state_cache.decided_idx /\ Memory.stopsign = state_cache.stopsign
      /\ Memory.accepted_idx = state_cache.accepted_idx
  BY StoreFields DEF AsMemory, Mem
<1>3. idx <= state_cache.decided_idx /\ k > state_cache.compacted_idx
  BY DEF may_compact
<1>4. k = IF idx = state_cache.decided_idx
            THEN IF state_cache.stopsign # None /\ state_cache.decided_idx = state_cache.accepted_idx
                   THEN state_cache.decided_idx - 1 ELSE state_cache.decided_idx
            ELSE idx
  BY DEF compacts_to, decided_idx_without_stopsign
<1>5. Abstract!compaction_idx(Memory, idx) = k
  BY <1>2, <1>4 DEF Abstract!compaction_idx, Abstract!get_decided_idx_without_stopsign,
                    Abstract!stopsign_is_decided
<1>6. k \in Int /\ k <= next_log_key /\ k <= state_cache.decided_idx
  BY <1>1, <1>3, <1>4
<1> HIDE DEF k
<1>7. k \in Nat /\ k \in state_cache.compacted_idx .. next_log_key
  BY <1>1, <1>3, <1>6
<1> QED BY <1>3, <1>5, <1>6, <1>7 DEF k

\* A step that removes the entries below k and sets the snapshot.
LEMMA CompactOK ==
  ASSUME Inv, NEW k \in Nat, state_cache.compacted_idx < k, k <= next_log_key,
         NEW d \in Databases,
         d = [db EXCEPT !.LOG = batch_trim(Store, k).db.LOG, !.TRIM = k, !.SNAPSHOT = d.SNAPSHOT],
         db' = d, next_log_key' = next_log_key,
         state_cache' = [state_cache EXCEPT !.compacted_idx = k]
  PROVE  /\ Inv'
         /\ Memory' = [Abstract!compact(Memory, k) EXCEPT !.snapshot = d.SNAPSHOT]
<1> DEFINE k0 == state_cache.compacted_idx
           v == batch_trim(Store, k)
           c == [state_cache EXCEPT !.compacted_idx = k]
<1>1. IsStore(Store) /\ Store.db = db /\ Store.next_log_key = next_log_key
      /\ LogOK(db.LOG, k0, next_log_key) /\ k0 \in Nat /\ next_log_key \in Nat
      /\ k \in k0 .. next_log_key /\ k # None
  BY PersistenceAssumption DEF Inv, StoreOK, IsStore, Store, LogOK
<1>2. /\ v.next_log_key = next_log_key
      /\ LogOK(v.db.LOG, k, next_log_key)
      /\ AsSeq(v.db.LOG, k, next_log_key) =
           SubSeq(AsSeq(db.LOG, k0, next_log_key), k - k0 + 1, next_log_key - k0)
  <2> DEFINE w == Store
  <2>1. /\ IsStore(w) /\ w.next_log_key = next_log_key /\ w.db = db
        /\ LogOK(w.db.LOG, k0, w.next_log_key) /\ k \in k0 .. w.next_log_key
    BY <1>1
  <2> HIDE DEF w, k0
  <2>2. /\ batch_trim(w, k).next_log_key = w.next_log_key
        /\ LogOK(batch_trim(w, k).db.LOG, k, batch_trim(w, k).next_log_key)
        /\ AsSeq(batch_trim(w, k).db.LOG, k, batch_trim(w, k).next_log_key) =
             SubSeq(AsSeq(w.db.LOG, k0, w.next_log_key), k - k0 + 1, w.next_log_key - k0)
    BY <2>1, BatchTrimOK
  <2> QED BY <2>1, <2>2 DEF w
<1> HIDE DEF v
<1>3. /\ d.LOG = v.db.LOG /\ d.TRIM = k /\ d.NPROM = db.NPROM /\ d.ACC = db.ACC
      /\ d.DECIDE = db.DECIDE /\ d.STOPSIGN = db.STOPSIGN
  BY StoreFields DEF Databases, v
<1>4. /\ c \in Caches /\ c.compacted_idx = k /\ c.accepted_idx = state_cache.accepted_idx
      /\ c.promise = state_cache.promise /\ c.accepted_round = state_cache.accepted_round
      /\ c.decided_idx = state_cache.decided_idx /\ c.stopsign = state_cache.stopsign
      /\ c.batched_entries = state_cache.batched_entries
  BY StoreFields DEF Caches
<1> HIDE DEF c
<1>5. StoreOK(d, next_log_key, c)
  <2>1. Matches(d, next_log_key, c)
    BY <1>1, <1>3, <1>4 DEF Inv, StoreOK, Matches, unwrap_or
  <2> QED BY <1>2, <1>3, <1>4, <2>1 DEF Inv, StoreOK
<1>6. Inv' /\ Memory' = AsMemory(d, next_log_key, c)
  BY <1>5, StepOK DEF c
<1>7. Abstract!drain(Memory.log, k - Memory.compacted_idx) = AsSeq(d.LOG, k, next_log_key)
  <2> DEFINE log == Memory.log
  <2>1. log = AsSeq(db.LOG, k0, next_log_key) /\ Memory.compacted_idx = k0
    BY StoreFields DEF AsMemory, Mem
  <2>2. Len(log) = next_log_key - k0
    BY MemoryLog
  <2> HIDE DEF log
  <2>3. k - k0 <= next_log_key - k0
    BY <1>1
  <2>4. Abstract!minimum(k - k0, Len(log)) = k - k0
    BY <2>2, <2>3 DEF Abstract!minimum
  <2>5. Abstract!drain(log, k - k0) = SubSeq(log, k - k0 + 1, next_log_key - k0)
    BY <2>2, <2>4 DEF Abstract!drain
  <2> QED BY <1>2, <1>3, <2>1, <2>5 DEF log
<1> DEFINE cut == AsSeq(d.LOG, k, next_log_key)
           m == Mem(state_cache.promise, state_cache.accepted_round, state_cache.decided_idx, k,
                    state_cache.stopsign, state_cache.accepted_idx,
                    state_cache.batched_entries, cut, db.SNAPSHOT)
<1>8. Abstract!compact(Memory, k) = m
  <2>1. Abstract!compact(Memory, k) =
          [Memory EXCEPT !.log = Abstract!drain(Memory.log, k - Memory.compacted_idx),
                         !.compacted_idx = k]
    BY DEF Abstract!compact
  <2> HIDE DEF cut
  <2>2. Abstract!compact(Memory, k) = Compacted(Memory, cut, k)
    BY <1>7, <2>1 DEF Compacted, cut
  <2> QED BY <2>2, MemCompact, StoreFields DEF AsMemory
<1>9. AsMemory(d, next_log_key, c) = [m EXCEPT !.snapshot = d.SNAPSHOT]
  <2> HIDE DEF cut
  <2>1. AsMemory(d, next_log_key, c) =
          Mem(state_cache.promise, state_cache.accepted_round, state_cache.decided_idx, k,
                    state_cache.stopsign, state_cache.accepted_idx,
                    state_cache.batched_entries, cut, d.SNAPSHOT)
    BY <1>4 DEF AsMemory, cut
  <2> QED BY <2>1 DEF Mem
<1> QED BY <1>6, <1>8, <1>9

\* What batch_trim leaves of the database.
LEMMA TrimmedStore ==
  ASSUME Inv, NEW k \in Nat, state_cache.compacted_idx < k, k <= next_log_key
  PROVE  LET v == batch_trim(Store, k)
         IN  /\ v = [db |-> v.db, next_log_key |-> next_log_key]
             /\ v.db = [db EXCEPT !.LOG = v.db.LOG]
             /\ v.db \in Databases
<1> DEFINE w == Store
           k0 == state_cache.compacted_idx
<1>1. /\ IsStore(w) /\ w.next_log_key = next_log_key /\ w.db = db
      /\ LogOK(w.db.LOG, k0, w.next_log_key) /\ k \in k0 .. w.next_log_key
  BY DEF Inv, StoreOK, IsStore, Store, LogOK
<1> HIDE DEF w, k0
<1>2. /\ IsStore(batch_trim(w, k)) /\ batch_trim(w, k).next_log_key = w.next_log_key
      /\ batch_trim(w, k).db = [w.db EXCEPT !.LOG = batch_trim(w, k).db.LOG]
  BY <1>1, BatchTrimOK
<1> DEFINE v == batch_trim(w, k)
<1> HIDE DEF v
<1>3. /\ v = [db |-> v.db, next_log_key |-> next_log_key] /\ v.db \in Databases
      /\ v.db = [db EXCEPT !.LOG = v.db.LOG]
  BY <1>1, <1>2 DEF IsStore, v
<1> QED BY <1>3 DEF v, w

\* try_trim removes the entries below the index.
LEMMA TryTrimOK ==
  ASSUME Inv, NEW idx \in 0 .. MaxIdx, try_trim(idx)
  PROVE  Inv' /\ Abstract!Trim(idx)
<1> DEFINE k == compacts_to(idx)
           v == batch_trim(Store, k)
           d == [v.db EXCEPT !.TRIM = k]
<1>1. /\ k \in Nat /\ state_cache.compacted_idx < k /\ k <= next_log_key
      /\ Abstract!compaction_idx(Memory, idx) = k
  BY CompactionIdx DEF try_trim
<1>2. v = [db |-> v.db, next_log_key |-> next_log_key] /\ v.db \in Databases
      /\ v.db = [db EXCEPT !.LOG = v.db.LOG]
  BY <1>1, TrimmedStore
<1>3. Write([v EXCEPT !.db.TRIM = k]) /\ state_cache' = [state_cache EXCEPT !.compacted_idx = k]
  BY DEF try_trim
<1> HIDE DEF k, v
<1>4. db' = d /\ next_log_key' = next_log_key
  <2>1. [v EXCEPT !.db.TRIM = k] = [db |-> d, next_log_key |-> next_log_key]
    BY <1>2
  <2> HIDE DEF d
  <2> QED BY <1>3, <2>1 DEF Write
<1>5. d \in Databases /\ d.SNAPSHOT = db.SNAPSHOT
  BY <1>1, <1>2, StoreFields DEF Databases
<1>6. d = [db EXCEPT !.LOG = v.db.LOG, !.TRIM = k, !.SNAPSHOT = d.SNAPSHOT]
  <2> DEFINE log == v.db.LOG
  <2>1. v.db = [db EXCEPT !.LOG = log]
    BY <1>2
  <2> HIDE DEF log
  <2>2. d = [[db EXCEPT !.LOG = log] EXCEPT !.TRIM = k]
    BY <2>1
  <2>3. d = [db EXCEPT !.LOG = log, !.TRIM = k, !.SNAPSHOT = db.SNAPSHOT]
    BY <2>2, StoreFields DEF Databases
  <2> HIDE DEF d
  <2> QED BY <1>5, <2>3 DEF log
<1> HIDE DEF d
<1>7. Inv' /\ Memory' = [Abstract!compact(Memory, k) EXCEPT !.snapshot = db.SNAPSHOT]
  BY <1>1, <1>3, <1>4, <1>5, <1>6, CompactOK DEF v
<1>8. Memory' = Abstract!compact(Memory, k)
  <2> DEFINE m == Abstract!compact(Memory, k)
             cut == Abstract!drain(Memory.log, k - Memory.compacted_idx)
             t == Mem(state_cache.promise, state_cache.accepted_round, state_cache.decided_idx, k,
                      state_cache.stopsign, state_cache.accepted_idx,
                      state_cache.batched_entries, cut, db.SNAPSHOT)
  <2>1. m = Compacted(Memory, cut, k)
    BY DEF Abstract!compact, Compacted
  <2> HIDE DEF cut
  <2>2. m = t
    BY <2>1, MemCompact, StoreFields DEF AsMemory
  <2>3. [t EXCEPT !.snapshot = db.SNAPSHOT] = t
    BY DEF Mem
  <2> HIDE DEF t
  <2> QED BY <1>7, <2>2, <2>3
<1>9. idx <= Memory.decided_idx /\ k > Memory.compacted_idx
  BY StoreFields DEF try_trim, may_compact, AsMemory, Mem, k
<1>10. Memory' = Abstract!try_trim(Memory, idx)
  BY <1>1, <1>8, <1>9 DEF Abstract!try_trim
<1> QED BY <1>7, <1>10 DEF Abstract!Trim

\* try_snapshot keeps what it removes in the snapshot.
LEMMA TrySnapshotOK ==
  ASSUME Inv, NEW idx \in 0 .. MaxIdx, try_snapshot(idx)
  PROVE  Inv' /\ Abstract!Snapshot(idx)
<1> DEFINE k == compacts_to(idx)
           v == batch_trim(Store, k)
           sn == create_snapshot(k)
           d == [v.db EXCEPT !.TRIM = k, !.SNAPSHOT = sn]
<1>1. /\ k \in Nat /\ state_cache.compacted_idx < k /\ k <= next_log_key
      /\ Abstract!compaction_idx(Memory, idx) = k
  BY CompactionIdx DEF try_snapshot
<1>2. v = [db |-> v.db, next_log_key |-> next_log_key] /\ v.db \in Databases
      /\ v.db = [db EXCEPT !.LOG = v.db.LOG]
  BY <1>1, TrimmedStore
<1>3. /\ Write([v EXCEPT !.db.TRIM = k, !.db.SNAPSHOT = sn])
      /\ state_cache' = [state_cache EXCEPT !.compacted_idx = k]
  BY DEF try_snapshot, batch_compact
<1>4. sn = Abstract!create_snapshot(Memory, k) /\ sn \in Seq(Value)
  BY <1>1, CreateSnapshotAgrees
<1> HIDE DEF k, v, sn
<1>5. db' = d /\ next_log_key' = next_log_key
  <2>1. [v EXCEPT !.db.TRIM = k, !.db.SNAPSHOT = sn] = [db |-> d, next_log_key |-> next_log_key]
    <3> DEFINE u == [v EXCEPT !.db.TRIM = k]
               e == [v.db EXCEPT !.TRIM = k]
    <3>1. u = [db |-> e, next_log_key |-> next_log_key]
      BY <1>2
    <3>2. [v EXCEPT !.db.TRIM = k, !.db.SNAPSHOT = sn] = [u EXCEPT !.db.SNAPSHOT = sn]
      OBVIOUS
    <3>3. d = [e EXCEPT !.SNAPSHOT = sn]
      OBVIOUS
    <3> HIDE DEF u, e, d
    <3> QED BY <3>1, <3>2, <3>3
  <2> HIDE DEF d
  <2> QED BY <1>3, <2>1 DEF Write
<1>6. d \in Databases /\ d.SNAPSHOT = sn
  BY <1>1, <1>2, <1>4 DEF Databases
<1>7. d = [db EXCEPT !.LOG = v.db.LOG, !.TRIM = k, !.SNAPSHOT = d.SNAPSHOT]
  <2> DEFINE log == v.db.LOG
  <2>1. v.db = [db EXCEPT !.LOG = log]
    BY <1>2
  <2> HIDE DEF log
  <2>2. d = [[db EXCEPT !.LOG = log] EXCEPT !.TRIM = k, !.SNAPSHOT = sn]
    BY <2>1
  <2>3. d = [db EXCEPT !.LOG = log, !.TRIM = k, !.SNAPSHOT = sn]
    BY <2>2, StoreFields DEF Databases
  <2> HIDE DEF d
  <2> QED BY <1>6, <2>3 DEF log
<1> HIDE DEF d
<1>8. Inv' /\ Memory' = [Abstract!compact(Memory, k) EXCEPT !.snapshot = sn]
  BY <1>1, <1>3, <1>5, <1>6, <1>7, CompactOK DEF v
<1>9. idx <= Memory.decided_idx /\ k > Memory.compacted_idx /\ UseSnapshots
  BY StoreFields DEF try_snapshot, may_compact, AsMemory, Mem, k
<1>10. idx # None
  BY PersistenceAssumption
<1>11. Memory' = Abstract!try_snapshot(Memory, idx)
  BY <1>1, <1>4, <1>8, <1>9, <1>10 DEF Abstract!try_snapshot
<1> QED BY <1>8, <1>9, <1>11 DEF Abstract!Snapshot

------------------------------------------------------------------------------
(* Crashes *)

\* Opening what a write left: the batch is lost and nothing else.
LEMMA ReopenOK ==
  ASSUME NEW w, NEW c, StoreOK(w.db, w.next_log_key, c), reopen(w)
  PROVE  Inv' /\ Memory' = Abstract!load_cache(AsMemory(w.db, w.next_log_key, c))
<1> DEFINE d == w.db
           n == w.next_log_key
           fresh == [c EXCEPT !.batched_entries = << >>]
<1>1. open(d) = n /\ load_cache(d, n) = fresh
  BY OpenOK
<1>2. StoreOK(d, n, fresh) /\ Abstract!load_cache(AsMemory(d, n, c)) = AsMemory(d, n, fresh)
  BY LoadOK
<1>3. db' = d /\ next_log_key' = n /\ state_cache' = fresh
  BY <1>1 DEF reopen
<1> HIDE DEF d, n, fresh
<1>4. Inv' /\ Memory' = AsMemory(d, n, fresh)
  BY <1>2, <1>3, StepOK
<1> QED BY <1>2, <1>4 DEF d, n

\* A restart at any moment between two writes.
LEMMA RestartOK ==
  ASSUME Inv, restart
  PROVE  Inv' /\ Abstract!Restart
<1> DEFINE w == Store
<1>1. w.db = db /\ w.next_log_key = next_log_key
  BY DEF Store
<1>2. StoreOK(w.db, w.next_log_key, state_cache) /\ reopen(w)
  BY <1>1 DEF Inv, restart
<1> HIDE DEF w
<1>3. Inv' /\ Memory' = Abstract!load_cache(AsMemory(w.db, w.next_log_key, state_cache))
  BY <1>2, ReopenOK
<1>4. Memory' = Abstract!load_cache(Memory)
  BY <1>1, <1>3, StoreFields
<1> QED BY <1>3, <1>4 DEF Abstract!Restart

\* A restart between the two writes of append_stopsign: the batch was flushed.
LEMMA CrashInAppendStopSignOK ==
  ASSUME Inv, crash_in_append_stopsign
  PROVE  Inv' /\ Abstract!Restart
<1> DEFINE old == state_cache.batched_entries
           w == batch_append_entries(Store, old)
           c == [state_cache EXCEPT !.batched_entries = << >>, !.accepted_idx = @ + Len(old)]
<1>1. old \in Seq(Value) /\ Memory.batched_entries = old
  BY StoreFields DEF Caches, AsMemory, Mem
<1>2. /\ StoreOK(w.db, w.next_log_key, c)
      /\ AsMemory(w.db, w.next_log_key, c) = Abstract!flush_batch(Memory)
  BY <1>1, FlushedOK DEF Abstract!flush_batch
<1>3. reopen(w)
  BY DEF crash_in_append_stopsign
<1> HIDE DEF w, c
<1>4. Inv' /\ Memory' = Abstract!load_cache(AsMemory(w.db, w.next_log_key, c))
  BY <1>2, <1>3, ReopenOK
<1>5. Memory' = Abstract!load_cache(Abstract!flush_batch(Memory))
  BY <1>2, <1>4
<1> QED BY <1>4, <1>5 DEF Abstract!Restart

------------------------------------------------------------------------------
(* Synchronisation *)

\* The synchronisations that may be asked for.
LEMMA SyncsType ==
  ASSUME Inv, NEW sync \in Abstract!Syncs(Memory), sync # None
  PROVE  /\ sync.suffix \in Seq(Value) /\ sync.sync_idx \in Nat
         /\ sync.stopsign \in StopSign \cup {None}
         /\ \/ /\ sync.decided_snapshot.kind = "None"
               /\ sync.sync_idx \in state_cache.compacted_idx .. next_log_key
            \/ /\ sync.decided_snapshot.kind \in {"Complete", "Delta"}
               /\ sync.decided_snapshot.snapshot \in Seq(Value)
<1>1. \/ sync \in Abstract!SyncsAfterPrefix(Memory)
      \/ sync \in Abstract!SyncsAfterSnapshot(Memory)
  BY Zenon DEF Abstract!Syncs
<1>2. \A block \in Abstract!Blocks(MaxSuffix) : block \in Seq(Value)
  BY BlocksType, PersistenceAssumption
<1>3. CASE sync \in Abstract!SyncsAfterPrefix(Memory)
  <2>1. /\ sync.suffix \in Abstract!Blocks(MaxSuffix) /\ sync.stopsign \in StopSign \cup {None}
        /\ sync.decided_snapshot = [kind |-> "None", snapshot |-> None]
        /\ sync.sync_idx \in Memory.compacted_idx .. Memory.compacted_idx + Len(Memory.log)
    BY <1>3 DEF Abstract!SyncsAfterPrefix
  <2>2. sync.sync_idx \in state_cache.compacted_idx .. next_log_key
    <3>1. state_cache.compacted_idx + (next_log_key - state_cache.compacted_idx) = next_log_key
      BY StoreFields
    <3> QED BY <2>1, <3>1, MemoryLog
  <2>3. sync.sync_idx \in Nat
    BY <2>2, StoreFields
  <2>4. sync.decided_snapshot.kind = "None"
    BY <2>1
  <2> QED BY <1>2, <2>1, <2>2, <2>3, <2>4
<1>4. CASE sync \in Abstract!SyncsAfterSnapshot(Memory)
  <2> DEFINE from == Abstract!get_decided_idx_without_stopsign(Memory)
  <2>1. from \in Nat
    <3>1. /\ Memory.decided_idx = state_cache.decided_idx /\ Memory.stopsign = state_cache.stopsign
          /\ Memory.accepted_idx = state_cache.accepted_idx
      BY StoreFields DEF AsMemory, Mem
    <3>2. /\ state_cache.decided_idx \in Nat /\ next_log_key \in Nat
          /\ state_cache.accepted_idx = next_log_key + (IF state_cache.stopsign = None THEN 0 ELSE 1)
      BY StoreFields DEF Inv, StoreOK, Matches, Caches
    <3> QED BY <3>1, <3>2 DEF Abstract!get_decided_idx_without_stopsign, Abstract!stopsign_is_decided
  <2>2. PICK idx \in from .. MaxIdx :
          sync \in [decided_snapshot : Abstract!SnapshotsUpTo(Memory, idx),
                    suffix : Abstract!Blocks(MaxSuffix),
                    sync_idx : {idx}, stopsign : StopSign \cup {None}]
    BY <1>4 DEF Abstract!SyncsAfterSnapshot
  <2> HIDE DEF from
  <2>3. idx \in Nat /\ idx - from \in Nat
    BY <2>1, <2>2, PersistenceAssumption
  <2>4. /\ sync.suffix \in Abstract!Blocks(MaxSuffix) /\ sync.stopsign \in StopSign \cup {None}
        /\ sync.sync_idx = idx /\ sync.decided_snapshot \in Abstract!SnapshotsUpTo(Memory, idx)
    BY <2>2
  <2>5. \A m \in Nat : \A sn \in Abstract!SnapshotsOf(m) : sn \in Seq(Value)
    <3> TAKE m \in Nat
    <3> TAKE sn \in Abstract!SnapshotsOf(m)
    <3>1. PICK v \in Value : sn = [i \in 1 .. m |-> v]
      BY DEF Abstract!SnapshotsOf
    <3>2. sn \in [1 .. m -> Value]
      BY <3>1
    <3> QED BY <3>2, SeqDef
  <2>6. \E m \in Nat : /\ sync.decided_snapshot.kind \in {"Complete", "Delta"}
                       /\ sync.decided_snapshot.snapshot \in Abstract!SnapshotsOf(m)
    <3> DEFINE sn == sync.decided_snapshot
    <3>1. \/ sn \in [kind : {"Complete"}, snapshot : Abstract!SnapshotsOf(idx)]
          \/ sn \in [kind : {"Delta"}, snapshot : Abstract!SnapshotsOf(idx - from)]
      BY <2>4, Zenon DEF Abstract!SnapshotsUpTo, from
    <3> HIDE DEF sn
    <3>2. \/ sn.kind = "Complete" /\ sn.snapshot \in Abstract!SnapshotsOf(idx)
          \/ sn.kind = "Delta" /\ sn.snapshot \in Abstract!SnapshotsOf(idx - from)
      BY <3>1
    <3> QED BY <2>3, <3>2 DEF sn
  <2> QED BY <1>2, <2>3, <2>4, <2>5, <2>6
<1> QED BY <1>1, <1>3, <1>4

\* What is decided with a synchronisation is in the synchronised log.
LEMMA DecidedByType ==
  ASSUME Inv, NEW sync \in Abstract!Syncs(Memory), NEW decided_idx \in Abstract!DecidedBy(Memory, sync)
  PROVE  /\ decided_idx \in Nat
         /\ sync = None => decided_idx <= state_cache.accepted_idx
         /\ sync # None => decided_idx <= sync.sync_idx + Len(sync.suffix)
                                          + (IF sync.stopsign = None THEN 0 ELSE 1)
<1>1. CASE sync = None
  <2>1. decided_idx \in Memory.decided_idx .. Memory.accepted_idx
    BY <1>1 DEF Abstract!DecidedBy
  <2>2. decided_idx \in state_cache.decided_idx .. state_cache.accepted_idx
    BY <2>1, StoreFields DEF AsMemory, Mem
  <2> QED BY <1>1, <2>2, StoreFields DEF Caches
<1>2. CASE sync # None
  <2> DEFINE len == sync.sync_idx + Len(sync.suffix) + (IF sync.stopsign = None THEN 0 ELSE 1)
  <2>1. sync.sync_idx \in Nat /\ Len(sync.suffix) \in Nat
    BY <1>2, SyncsType, LenProperties
  <2>2. len \in Nat /\ sync.sync_idx <= len /\ Abstract!SyncedLen(sync) = len
    BY <2>1 DEF Abstract!SyncedLen
  <2> HIDE DEF len
  <2>3. CASE sync.decided_snapshot.kind = "None"
    <3>1. decided_idx \in Memory.compacted_idx .. len
      BY <1>2, <2>2, <2>3 DEF Abstract!DecidedBy
    <3>2. decided_idx \in state_cache.compacted_idx .. len
      BY <3>1, MemoryLog
    <3> QED BY <1>2, <2>2, <3>2, StoreFields DEF len
  <2>4. CASE sync.decided_snapshot.kind # "None"
    <3>1. decided_idx \in {sync.sync_idx} \cup (IF sync.suffix = << >> THEN {len} ELSE {})
      BY <1>2, <2>2, <2>4 DEF Abstract!DecidedBy
    <3>2. decided_idx = sync.sync_idx \/ decided_idx = len
      BY <3>1
    <3> QED BY <1>2, <2>1, <2>2, <3>2 DEF len
  <2> QED BY <2>3, <2>4
<1> QED BY <1>1, <1>2

\* The store v that the synchronisation makes of w, for the storage t that it
\* makes of Memory.
SyncedStore(v, w, t, sync, decided_idx) ==
  /\ IsStore(v)
  /\ v.next_log_key = sync.sync_idx + Len(sync.suffix)
  /\ v.db = [w.db EXCEPT !.TRIM = v.db.TRIM, !.SNAPSHOT = v.db.SNAPSHOT, !.LOG = v.db.LOG]
  /\ t.compacted_idx \in Nat
  /\ t.compacted_idx = IF sync.decided_snapshot.kind = "None"
                         THEN state_cache.compacted_idx ELSE sync.sync_idx
  /\ LogOK(v.db.LOG, t.compacted_idx, v.next_log_key)
  /\ t = Mem(state_cache.promise, state_cache.promise, decided_idx, t.compacted_idx, sync.stopsign,
             sync.sync_idx + Len(sync.suffix) + (IF sync.stopsign = None THEN 0 ELSE 1),
             state_cache.batched_entries,
             AsSeq(v.db.LOG, t.compacted_idx, v.next_log_key), v.db.SNAPSHOT)
  /\ unwrap_or(v.db.TRIM, 0) = t.compacted_idx

\* The database and the next key that batch_decided_snapshot and
\* batch_append_on_prefix leave, from a store w with the log of this one.
LEMMA SyncedLogOK ==
  ASSUME Inv, NEW sync \in Abstract!Syncs(Memory), sync # None, NEW decided_idx \in Nat,
         NEW w, IsStore(w), w.next_log_key = next_log_key, w.db.LOG = db.LOG,
         w.db.SNAPSHOT = db.SNAPSHOT, w.db.TRIM = db.TRIM
  PROVE  SyncedStore(batch_append_on_prefix(batch_decided_snapshot(w, sync, decided_idx),
                                            sync.sync_idx, sync.suffix),
                     w, Abstract!sync_log(Memory, Memory.promise, decided_idx, sync), sync, decided_idx)
<1> DEFINE c == state_cache.compacted_idx
           n == next_log_key
           idx == sync.sync_idx
           suffix == sync.suffix
           kind == sync.decided_snapshot.kind
           received == sync.decided_snapshot.snapshot
           own == create_snapshot(decided_idx_without_stopsign([state_cache EXCEPT !.decided_idx = decided_idx]))
           x == batch_decided_snapshot(w, sync, decided_idx)
           v == batch_append_on_prefix(x, idx, suffix)
           t == Abstract!sync_log(Memory, Memory.promise, decided_idx, sync)
           acc == idx + Len(suffix) + (IF sync.stopsign = None THEN 0 ELSE 1)
           c1 == IF kind = "None" THEN c ELSE idx
           sn == CASE kind = "None" -> db.SNAPSHOT
                   [] kind = "Complete" -> received
                   [] kind = "Delta" -> merge(own, received)
           log == IF kind = "None" THEN Abstract!truncate(Memory.log, idx - c) \o suffix
                                   ELSE suffix
<1>1. /\ suffix \in Seq(Value) /\ idx \in Nat /\ c \in Nat /\ n \in Nat /\ c <= n
      /\ \/ kind = "None" /\ idx \in c .. n
         \/ kind \in {"Complete", "Delta"} /\ received \in Seq(Value)
  BY SyncsType, StoreFields
<1>2. LogOK(w.db.LOG, c, w.next_log_key) /\ c = unwrap_or(w.db.TRIM, 0)
  BY DEF Inv, StoreOK, Matches
<1>3. own = Abstract!create_snapshot(Memory, Abstract!create_decided_snapshot_idx(Memory, decided_idx))
      /\ own \in Seq(Value)
  <2> DEFINE k == decided_idx_without_stopsign([state_cache EXCEPT !.decided_idx = decided_idx])
  <2>1. /\ [state_cache EXCEPT !.decided_idx = decided_idx].decided_idx = decided_idx
        /\ [state_cache EXCEPT !.decided_idx = decided_idx].stopsign = state_cache.stopsign
        /\ [state_cache EXCEPT !.decided_idx = decided_idx].accepted_idx = state_cache.accepted_idx
    BY StoreFields DEF Caches
  <2>2. k = IF state_cache.stopsign # None /\ decided_idx = state_cache.accepted_idx
              THEN decided_idx - 1 ELSE decided_idx
    BY <2>1 DEF decided_idx_without_stopsign
  <2>3. k \in Int
    BY <2>2
  <2>4. /\ [Memory EXCEPT !.decided_idx = decided_idx].decided_idx = decided_idx
        /\ [Memory EXCEPT !.decided_idx = decided_idx].stopsign = state_cache.stopsign
        /\ [Memory EXCEPT !.decided_idx = decided_idx].accepted_idx = state_cache.accepted_idx
    BY StoreFields DEF AsMemory, Mem
  <2>5. Abstract!create_decided_snapshot_idx(Memory, decided_idx) = k
    BY <2>2, <2>4 DEF Abstract!create_decided_snapshot_idx, Abstract!stopsign_is_decided,
                      Abstract!get_decided_idx_without_stopsign
  <2> HIDE DEF k
  <2>6. create_snapshot(k) = Abstract!create_snapshot(Memory, k) /\ create_snapshot(k) \in Seq(Value)
    BY <2>3, CreateSnapshotAgrees
  <2> QED BY <2>5, <2>6 DEF k
<1> HIDE DEF own
<1>4. merge(own, received) = Abstract!merge(own, received)
      /\ (kind \in {"Complete", "Delta"} => merge(own, received) \in Seq(Value))
  <2>1. merge(own, received) = Abstract!merge(own, received)
    BY DEF merge, Abstract!merge
  <2>2. ASSUME kind \in {"Complete", "Delta"} PROVE merge(own, received) \in Seq(Value)
    <3>1. received \in Seq(Value)
      BY <1>1, <2>2
    <3> HIDE DEF received
    <3> QED BY <1>3, <3>1, ConcatProperties DEF merge
  <2> QED BY <2>1, <2>2
<1>5. Memory.compacted_idx = c /\ Memory.snapshot = db.SNAPSHOT /\ Memory.promise = state_cache.promise
      /\ Memory.log = AsSeq(db.LOG, c, n) /\ Len(Memory.log) = n - c
  BY StoreFields, MemoryLog DEF AsMemory, Mem
<1>6. t = Mem(state_cache.promise, state_cache.promise, decided_idx, c1, sync.stopsign, acc,
              state_cache.batched_entries, log, sn)
  <2> DEFINE s1 == [Memory EXCEPT !.accepted_round = Memory.promise, !.decided_idx = decided_idx]
  <2>1. s1 = Mem(state_cache.promise, state_cache.promise, decided_idx, c, state_cache.stopsign,
                 state_cache.accepted_idx, state_cache.batched_entries, Memory.log, db.SNAPSHOT)
    <3>1. s1 = InRound(Memory, state_cache.promise, decided_idx)
      BY <1>5 DEF InRound
    <3> QED BY <1>5, <3>1, MemRound, StoreFields DEF AsMemory
  <2>2. s1.compacted_idx = c /\ s1.snapshot = db.SNAPSHOT /\ s1.log = Memory.log
    BY <2>1 DEF Mem
  <2> HIDE DEF s1
  <2>3. t = [s1 EXCEPT
              !.compacted_idx = IF kind = "None" THEN s1.compacted_idx ELSE idx,
              !.snapshot = CASE kind = "None" -> s1.snapshot
                             [] kind = "Complete" -> received
                             [] kind = "Delta" -> Abstract!merge(own, received),
              !.log = IF kind = "None"
                        THEN Abstract!truncate(s1.log, idx - Memory.compacted_idx) \o suffix
                        ELSE suffix,
              !.stopsign = sync.stopsign,
              !.accepted_idx = acc]
    <3> HIDE DEF acc
    <3> QED BY <1>3 DEF Abstract!sync_log, s1, acc
  <2>4. t = Synced(s1, c1, sn, log, sync.stopsign, acc)
    <3> HIDE DEF acc
    <3> QED BY <1>4, <1>5, <2>2, <2>3 DEF Synced
  <2> HIDE DEF c1, sn, log, acc
  <2> QED BY <2>1, <2>4, MemSync
<1>7. t.compacted_idx = c1
  <2> HIDE DEF c1, sn, log, acc, t
  <2> QED BY <1>6 DEF Mem
<1> HIDE DEF t, acc
<1>8. CASE kind = "None"
  <2>1. x = w /\ c1 = c /\ sn = db.SNAPSHOT /\ log = Abstract!truncate(Memory.log, idx - c) \o suffix
    BY <1>8 DEF batch_decided_snapshot
  <2>2. /\ IsStore(w) /\ LogOK(w.db.LOG, c, w.next_log_key)
        /\ idx \in c .. w.next_log_key /\ suffix \in Seq(Value)
    BY <1>1, <1>2, <1>8
  <2> HIDE DEF v, x, n, c, idx, suffix
  <2>3. Prefixed(batch_append_on_prefix(w, idx, suffix), w, c, idx, suffix)
    BY <2>2, BatchAppendOnPrefixOK
  <2>4. /\ IsStore(v) /\ v.next_log_key = idx + Len(suffix)
        /\ v.db = [w.db EXCEPT !.LOG = v.db.LOG] /\ LogOK(v.db.LOG, c, v.next_log_key)
        /\ AsSeq(v.db.LOG, c, v.next_log_key) = SubSeq(AsSeq(db.LOG, c, n), 1, idx - c) \o suffix
    BY <2>1, <2>3 DEF v, n, Prefixed
  <2>5. v.db.SNAPSHOT = db.SNAPSHOT /\ v.db.TRIM = db.TRIM
    BY <2>4 DEF IsStore, Databases
  <2>6. v.db = [w.db EXCEPT !.TRIM = v.db.TRIM, !.SNAPSHOT = v.db.SNAPSHOT, !.LOG = v.db.LOG]
    <3> DEFINE new == v.db.LOG
    <3>1. v.db = [w.db EXCEPT !.LOG = new]
      BY <2>4
    <3> HIDE DEF new
    <3>2. v.db = [w.db EXCEPT !.TRIM = w.db.TRIM, !.SNAPSHOT = w.db.SNAPSHOT, !.LOG = new]
      <4> DEFINE d == w.db
      <4>1. d \in Databases
        BY DEF IsStore
      <4>2. d = [d EXCEPT !.TRIM = d.TRIM, !.SNAPSHOT = d.SNAPSHOT]
        BY <4>1 DEF Databases
      <4> HIDE DEF d
      <4>3. [d EXCEPT !.TRIM = d.TRIM, !.SNAPSHOT = d.SNAPSHOT, !.LOG = new] =
              [[d EXCEPT !.TRIM = d.TRIM, !.SNAPSHOT = d.SNAPSHOT] EXCEPT !.LOG = new]
        OBVIOUS
      <4>4. v.db = [d EXCEPT !.LOG = new]
        BY <3>1 DEF d
      <4>5. v.db = [d EXCEPT !.TRIM = d.TRIM, !.SNAPSHOT = d.SNAPSHOT, !.LOG = new]
        BY <4>2, <4>3, <4>4
      <4> QED BY <4>5 DEF d
    <3> QED BY <2>5, <3>2 DEF new
  <2>7. Abstract!truncate(Memory.log, idx - c) = SubSeq(AsSeq(db.LOG, c, n), 1, idx - c)
    <3>1. idx - c <= n - c
      BY <1>1, <2>2 DEF n, c
    <3>2. Abstract!minimum(idx - c, Len(Memory.log)) = idx - c
      BY <1>5, <3>1 DEF Abstract!minimum
    <3> QED BY <1>5, <3>2 DEF Abstract!truncate
  <2>8. log = AsSeq(v.db.LOG, c1, v.next_log_key) /\ sn = v.db.SNAPSHOT /\ c1 \in Nat
        /\ LogOK(v.db.LOG, c1, v.next_log_key) /\ unwrap_or(v.db.TRIM, 0) = c1
    BY <1>1, <1>2, <2>1, <2>4, <2>5, <2>7 DEF c
  <2> HIDE DEF c1, sn, log
  <2> QED BY <1>6, <1>7, <1>8, <2>1, <2>4, <2>6, <2>8 DEF v, x, t, acc, idx, suffix, c, SyncedStore
<1>9. CASE kind \in {"Complete", "Delta"}
  <2>1. /\ x = batch_compact(w, idx, sn) /\ c1 = idx /\ log = suffix /\ sn \in Seq(Value)
    <3>1. CASE kind = "Complete"
      BY <1>1, <3>1 DEF batch_decided_snapshot
    <3>2. CASE kind = "Delta"
      BY <1>1, <1>4, <3>2 DEF batch_decided_snapshot, own
    <3> QED BY <1>9, <3>1, <3>2
  <2> HIDE DEF v, x, n, c, idx, sn, suffix
  <2> DEFINE u == batch_append_on_prefix(batch_compact(w, idx, sn), idx, suffix)
  <2>2. /\ IsStore(u) /\ u.next_log_key = idx + Len(suffix)
        /\ u.db = TakenOver(w.db, idx, sn, u.db.LOG)
        /\ LogOK(u.db.LOG, idx, u.next_log_key) /\ AsSeq(u.db.LOG, idx, u.next_log_key) = suffix
    <3>1. IsStore(w) /\ LogOK(w.db.LOG, c, w.next_log_key) /\ idx \in Nat
          /\ sn \in Seq(Value) /\ suffix \in Seq(Value)
      BY <1>1, <1>2, <2>1 DEF c, idx, suffix
    <3>2. Replaced(u, w, idx, sn, suffix)
      BY <3>1, BatchReplaceOK
    <3> HIDE DEF u
    <3> QED BY <3>2 DEF Replaced
  <2>3. v = u
    BY <2>1 DEF v
  <2> HIDE DEF u
  <2>4. v.db.TRIM = idx /\ v.db.SNAPSHOT = sn /\ idx # None
    BY <1>1, <2>2, <2>3, PersistenceAssumption DEF IsStore, Databases, TakenOver
  <2>5. /\ v.db = [w.db EXCEPT !.TRIM = v.db.TRIM, !.SNAPSHOT = v.db.SNAPSHOT, !.LOG = v.db.LOG]
        /\ IsStore(v) /\ v.next_log_key = idx + Len(suffix)
    BY <2>2, <2>3, <2>4 DEF TakenOver
  <2>6. log = AsSeq(v.db.LOG, c1, v.next_log_key) /\ sn = v.db.SNAPSHOT /\ c1 \in Nat
        /\ LogOK(v.db.LOG, c1, v.next_log_key) /\ unwrap_or(v.db.TRIM, 0) = c1
    BY <1>1, <2>1, <2>2, <2>3, <2>4 DEF unwrap_or
  <2>7. kind # "None"
    BY <1>9
  <2> HIDE DEF c1, log
  <2> QED BY <1>6, <1>7, <2>1, <2>5, <2>6, <2>7 DEF v, x, t, acc, idx, suffix, SyncedStore
<1> QED BY <1>1, <1>8, <1>9

\* sync_log, with and without a log to take over.
LEMMA SyncLogOK ==
  ASSUME Inv, NEW sync \in Abstract!Syncs(Memory), NEW decided_idx \in Abstract!DecidedBy(Memory, sync),
         sync_log(sync, decided_idx)
  PROVE  Inv' /\ Abstract!SyncLog(sync, decided_idx)
<1> DEFINE promise == state_cache.promise
           d == [db EXCEPT !.ACC = promise, !.DECIDE = decided_idx]
           w == [Store EXCEPT !.db.ACC = promise, !.db.DECIDE = decided_idx]
           t == Abstract!sync_log(Memory, Memory.promise, decided_idx, sync)
<1>1. decided_idx \in Nat /\ decided_idx # None /\ promise \in Ballot /\ promise # None
  BY DecidedByType, StoreFields, PersistenceAssumption DEF Caches
<1>2. /\ Abstract!MaySync(Memory) /\ state_cache' = synced_cache(sync, decided_idx)
      /\ Write(batch_sync(Store, sync, decided_idx))
  BY DEF sync_log
<1>3. w = [db |-> d, next_log_key |-> next_log_key]
  <2> DEFINE u == [Store EXCEPT !.db.ACC = promise]
             e == [db EXCEPT !.ACC = promise]
  <2>1. u = [db |-> e, next_log_key |-> next_log_key]
    BY StoreFields
  <2>2. w = [u EXCEPT !.db.DECIDE = decided_idx] /\ d = [e EXCEPT !.DECIDE = decided_idx]
    OBVIOUS
  <2> HIDE DEF u, e, w, d
  <2> QED BY <2>1, <2>2
<1>4. /\ d \in Databases /\ d.LOG = db.LOG /\ d.SNAPSHOT = db.SNAPSHOT /\ d.TRIM = db.TRIM
      /\ d.NPROM = db.NPROM /\ d.STOPSIGN = db.STOPSIGN /\ d.ACC = promise /\ d.DECIDE = decided_idx
  BY <1>1, StoreFields DEF Databases
<1> HIDE DEF d, w, t, promise
<1>5. Memory.promise = promise
  BY StoreFields DEF AsMemory, Mem, promise
<1>6. CASE sync = None
  <2> DEFINE c == [state_cache EXCEPT !.accepted_round = promise, !.decided_idx = decided_idx]
  <2>1. state_cache' = c
    BY <1>2, <1>6 DEF synced_cache, promise
  <2>2. batch_sync(Store, sync, decided_idx) = w
    BY <1>6 DEF batch_sync, w, promise
  <2>3. db' = d /\ next_log_key' = next_log_key
    BY <1>2, <1>3, <2>2 DEF Write
  <2>4. /\ c \in Caches /\ c.compacted_idx = state_cache.compacted_idx
        /\ c.promise = promise /\ c.accepted_round = promise /\ c.decided_idx = decided_idx
        /\ c.stopsign = state_cache.stopsign /\ c.accepted_idx = state_cache.accepted_idx
        /\ c.batched_entries = state_cache.batched_entries
    BY <1>1, StoreFields DEF Caches, promise
  <2> HIDE DEF c
  <2>5. c.decided_idx <= c.accepted_idx
    BY <1>6, <2>4, DecidedByType
  <2>6. Matches(d, next_log_key, c)
    BY <1>1, <1>4, <2>4 DEF Inv, StoreOK, Matches, unwrap_or, promise
  <2>7. Inv' /\ Memory' = [promise |-> c.promise, accepted_round |-> c.accepted_round,
                       decided_idx |-> c.decided_idx, compacted_idx |-> state_cache.compacted_idx,
                       stopsign |-> c.stopsign, accepted_idx |-> c.accepted_idx,
                       batched_entries |-> c.batched_entries,
                       log |-> Memory.log, snapshot |-> db.SNAPSHOT]
    BY <1>4, <2>1, <2>3, <2>4, <2>5, <2>6, KeysOK
  <2>8. Memory' = Mem(promise, promise, decided_idx, state_cache.compacted_idx, state_cache.stopsign,
                      state_cache.accepted_idx, state_cache.batched_entries, Memory.log, db.SNAPSHOT)
    BY <2>4, <2>7 DEF Mem
  <2>9. Memory.log = AsSeq(db.LOG, state_cache.compacted_idx, next_log_key)
    BY StoreFields DEF AsMemory, Mem
  <2>10. Memory' = InRound(Memory, promise, decided_idx)
    BY <2>8, <2>9, MemRound, StoreFields DEF AsMemory, promise
  <2>11. t = InRound(Memory, promise, decided_idx)
    BY <1>5, <1>6 DEF t, Abstract!sync_log, InRound
  <2> QED BY <1>2, <2>7, <2>10, <2>11 DEF Abstract!SyncLog, t
<1>7. CASE sync # None
  <2> DEFINE v == batch_append_on_prefix(batch_decided_snapshot(w, sync, decided_idx),
                                         sync.sync_idx, sync.suffix)
             c1 == IF sync.decided_snapshot.kind = "None" THEN state_cache.compacted_idx
                                                          ELSE sync.sync_idx
             acc == sync.sync_idx + Len(sync.suffix) + (IF sync.stopsign = None THEN 0 ELSE 1)
             e == [v.db EXCEPT !.STOPSIGN = sync.stopsign]
             n == v.next_log_key
             c == synced_cache(sync, decided_idx)
  <2>1. IsStore(w) /\ w.db = d /\ w.next_log_key = next_log_key
    BY <1>3, <1>4 DEF IsStore
  <2>2. SyncedStore(v, w, t, sync, decided_idx)
    BY <1>1, <1>4, <1>7, <2>1, SyncedLogOK DEF t
  <2> HIDE DEF v
  <2>3. /\ IsStore(v) /\ n = sync.sync_idx + Len(sync.suffix)
        /\ v.db = [d EXCEPT !.TRIM = v.db.TRIM, !.SNAPSHOT = v.db.SNAPSHOT, !.LOG = v.db.LOG]
        /\ c1 \in Nat /\ LogOK(v.db.LOG, c1, n) /\ unwrap_or(v.db.TRIM, 0) = c1
        /\ t = Mem(promise, promise, decided_idx, c1, sync.stopsign, acc,
                   state_cache.batched_entries, AsSeq(v.db.LOG, c1, n), v.db.SNAPSHOT)
    BY <2>1, <2>2 DEF SyncedStore, promise
  <2> HIDE DEF c1, n, acc
  <2>4. v.db.NPROM = db.NPROM /\ v.db.ACC = promise /\ v.db.DECIDE = decided_idx
        /\ v.db.STOPSIGN = db.STOPSIGN /\ v.db \in Databases
    <3> DEFINE dt == v.db.TRIM
               ds == v.db.SNAPSHOT
               dl == v.db.LOG
    <3>1. v.db = [d EXCEPT !.TRIM = dt, !.SNAPSHOT = ds, !.LOG = dl] /\ v.db \in Databases
      BY <2>3 DEF IsStore
    <3> HIDE DEF dt, ds, dl
    <3> QED BY <1>4, <3>1 DEF Databases
  <2>5. /\ sync.stopsign \in StopSign \cup {None} /\ sync.sync_idx \in Nat
        /\ Len(sync.suffix) \in Nat
    BY <1>7, SyncsType, LenProperties
  <2>6. acc \in Nat /\ acc = n + (IF sync.stopsign = None THEN 0 ELSE 1) /\ decided_idx <= acc
    BY <1>7, <2>3, <2>5, DecidedByType DEF acc
  <2>7. c = [state_cache EXCEPT !.accepted_round = promise, !.decided_idx = decided_idx,
               !.compacted_idx = c1, !.accepted_idx = acc, !.stopsign = sync.stopsign]
    <3> DEFINE k == [state_cache EXCEPT !.accepted_round = promise, !.decided_idx = decided_idx]
    <3>1. k.compacted_idx = state_cache.compacted_idx
      BY StoreFields DEF Caches
    <3> HIDE DEF k
    <3>2. c = [k EXCEPT !.compacted_idx = IF sync.decided_snapshot.kind = "None" THEN k.compacted_idx
                                                                                 ELSE sync.sync_idx,
                        !.accepted_idx = acc, !.stopsign = sync.stopsign]
      BY <1>7 DEF synced_cache, acc, k, promise
    <3>3. c = [k EXCEPT !.compacted_idx = c1, !.accepted_idx = acc, !.stopsign = sync.stopsign]
      BY <3>1, <3>2 DEF c1
    <3> HIDE DEF c
    <3> QED BY <3>3 DEF k
  <2> HIDE DEF c
  <2>8. /\ c \in Caches /\ c.compacted_idx = c1 /\ c.promise = promise /\ c.accepted_round = promise
        /\ c.decided_idx = decided_idx /\ c.stopsign = sync.stopsign /\ c.accepted_idx = acc
        /\ c.batched_entries = state_cache.batched_entries
    BY <1>1, <2>3, <2>5, <2>6, <2>7, StoreFields DEF Caches, promise
  <2>9. batch_sync(Store, sync, decided_idx) = [db |-> e, next_log_key |-> n]
    <3>1. v = [db |-> v.db, next_log_key |-> n]
      BY <2>3 DEF IsStore, n
    <3>2. CASE sync.stopsign = None /\ state_cache.stopsign = None
      <4>1. batch_sync(Store, sync, decided_idx) = v
        BY <1>7, <3>2 DEF batch_sync, v, w, promise
      <4>2. v.db.STOPSIGN = None
        BY <2>4, <3>2 DEF Inv, StoreOK, Matches
      <4>3. e = v.db
        BY <2>4, <3>2, <4>2 DEF Databases
      <4> QED BY <3>1, <4>1, <4>3
    <3>3. CASE ~ (sync.stopsign = None /\ state_cache.stopsign = None)
      <4>1. batch_sync(Store, sync, decided_idx) = [v EXCEPT !.db.STOPSIGN = sync.stopsign]
        BY <1>7, <3>3 DEF batch_sync, v, w, promise
      <4> HIDE DEF n
      <4> QED BY <3>1, <4>1
    <3> QED BY <3>2, <3>3
  <2>10. db' = e /\ next_log_key' = n /\ state_cache' = c
    <3> HIDE DEF e
    <3> QED BY <1>2, <2>9 DEF Write, c
  <2>11. /\ e \in Databases /\ e.LOG = v.db.LOG /\ e.SNAPSHOT = v.db.SNAPSHOT /\ e.TRIM = v.db.TRIM
         /\ e.NPROM = db.NPROM /\ e.ACC = promise /\ e.DECIDE = decided_idx /\ e.STOPSIGN = sync.stopsign
    BY <2>4, <2>5 DEF Databases
  <2> HIDE DEF e
  <2>12. StoreOK(e, n, c)
    <3>1. c.promise = unwrap_or(e.NPROM, DefaultBallot)
      BY <2>8, <2>11 DEF Inv, StoreOK, Matches, promise
    <3>2. Matches(e, n, c)
      BY <1>1, <2>3, <2>6, <2>8, <2>11, <3>1 DEF Matches, unwrap_or
    <3> QED BY <2>3, <2>6, <2>8, <2>11, <3>2 DEF StoreOK
  <2>13. Inv' /\ Memory' = AsMemory(e, n, c)
    BY <2>10, <2>12, StepOK
  <2>14. Memory' = t
    BY <2>3, <2>8, <2>11, <2>13 DEF AsMemory
  <2> QED BY <1>2, <2>13, <2>14 DEF Abstract!SyncLog, t
<1> QED BY <1>6, <1>7

------------------------------------------------------------------------------
(* The theorems *)

\* A new database is well formed, and an empty storage.
LEMMA InitOK ==
  ASSUME Init
  PROVE  Inv /\ Abstract!Init
<1>1. DOMAIN << >> = {} /\ << >> \in Seq(Value)
  BY EmptySeq
<1>2. EmptyDB.LOG = << >> /\ EmptyDB.NPROM = None /\ EmptyDB.ACC = None /\ EmptyDB.DECIDE = None
      /\ EmptyDB.TRIM = None /\ EmptyDB.STOPSIGN = None /\ EmptyDB.SNAPSHOT = None
  BY DEF EmptyDB
<1>3. open(EmptyDB) = 0
  BY <1>1, <1>2 DEF open, unwrap_or
<1> DEFINE c == [promise |-> DefaultBallot, accepted_round |-> DefaultBallot, decided_idx |-> 0,
                 compacted_idx |-> 0, stopsign |-> None, accepted_idx |-> 0,
                 batched_entries |-> << >>]
<1>4. load_cache(EmptyDB, 0) = c
  BY <1>2 DEF load_cache, unwrap_or, get_log_len
<1>5. << >> \in [0 .. 0 - 1 -> Value]
  BY <1>1
<1>6. LogOK(<< >>, 0, 0)
  BY <1>5 DEF LogOK
<1>7. EmptyDB \in Databases
  <2>1. << >> \in Logs
    <3> DEFINE F == [0 .. 0 - 1 -> Value]
    <3>1. F \in {[a .. b - 1 -> Value] : a \in Nat, b \in Nat}
      OBVIOUS
    <3>2. << >> \in F
      BY <1>5
    <3> HIDE DEF F
    <3> QED BY <3>1, <3>2 DEF Logs
  <2> QED BY <2>1 DEF EmptyDB, Databases
<1>8. c \in Caches
  BY <1>1, DefaultBallotType DEF Caches
<1>9. Matches(EmptyDB, 0, c) /\ c.decided_idx <= c.accepted_idx /\ c.compacted_idx = 0
  BY <1>2 DEF Matches, unwrap_or
<1>10. Inv
  <2>1. db = EmptyDB /\ next_log_key = 0 /\ state_cache = c
    BY <1>3, <1>4 DEF Init
  <2> HIDE DEF c
  <2>2. StoreOK(EmptyDB, 0, c)
    BY <1>2, <1>6, <1>7, <1>8, <1>9 DEF StoreOK
  <2> QED BY <2>1, <2>2 DEF Inv
<1>11. AsSeq(<< >>, 0, 0) = << >>
  <2>1. AsSeq(<< >>, 0, 0) \in Seq(Value) /\ Len(AsSeq(<< >>, 0, 0)) = 0
    BY <1>6, AsSeqType
  <2> QED BY <2>1, EmptySeq
<1>12. Memory = Mem(DefaultBallot, DefaultBallot, 0, 0, None, 0, << >>, << >>, None)
  <2>1. Memory = AsMemory(EmptyDB, 0, c)
    BY <1>3, <1>4, <1>10, StoreFields DEF Init
  <2> QED BY <1>2, <1>11, <2>1 DEF AsMemory
<1>13. DefaultBallot = Abstract!DefaultBallot
  BY DEF DefaultBallot, Abstract!DefaultBallot
<1>14. Abstract!Init
  BY <1>12, <1>13 DEF Abstract!Init, Abstract!EmptyStorage, Mem
<1> QED BY <1>10, <1>14

\* A step keeps the invariant and is a step of ReplicaStorage.
LEMMA NextOK ==
  ASSUME Inv, Next
  PROVE  Inv' /\ Abstract!Next
<1>1. CASE \E b \in Ballots : set_promise(b)
  BY <1>1, SetPromiseOK DEF Abstract!Next
<1>2. CASE \E entries \in Abstract!Blocks(MaxSuffix) : append_entries_with_batching(entries)
  BY <1>2, AppendEntriesWithBatchingOK DEF Abstract!Next
<1>3. CASE flush_batch
  BY <1>3, FlushBatchOK DEF Abstract!Next
<1>4. CASE \E ss \in StopSign : append_stopsign(ss)
  BY <1>4, AppendStopSignOK DEF Abstract!Next
<1>5. CASE \E ss \in StopSign : set_stopsign(ss)
  BY <1>5, SetStopSignOK DEF Abstract!Next
<1>6. CASE \E idx \in 0 .. MaxIdx : set_decided_idx(idx)
  BY <1>6, SetDecidedIdxOK DEF Abstract!Next
<1>7. CASE \E idx \in 0 .. MaxIdx : try_trim(idx)
  BY <1>7, TryTrimOK DEF Abstract!Next
<1>8. CASE \E idx \in 0 .. MaxIdx : try_snapshot(idx)
  BY <1>8, TrySnapshotOK DEF Abstract!Next
<1>9. CASE \E sync \in Abstract!Syncs(Memory) :
             \E decided_idx \in Abstract!DecidedBy(Memory, sync) : sync_log(sync, decided_idx)
  BY <1>9, SyncLogOK DEF Abstract!Next
<1>10. CASE restart
  BY <1>10, RestartOK DEF Abstract!Next
<1>11. CASE crash_in_append_stopsign
  BY <1>11, CrashInAppendStopSignOK DEF Abstract!Next
<1> QED BY <1>1, <1>2, <1>3, <1>4, <1>5, <1>6, <1>7, <1>8, <1>9, <1>10, <1>11 DEF Next

\* So does a step that changes nothing.
LEMMA StepSimulation ==
  Inv /\ [Next]_vars => Inv' /\ [Abstract!Next]_Memory
<1> SUFFICES ASSUME Inv, [Next]_vars PROVE Inv' /\ [Abstract!Next]_Memory
  OBVIOUS
<1>1. CASE Next
  BY <1>1, NextOK
<1>2. CASE UNCHANGED vars
  BY <1>2 DEF vars, Inv, Memory
<1> QED BY <1>1, <1>2

\* The invariant holds in every reachable state.
THEOREM Invariance == Spec => []Inv
<1>1. Init => Inv
  BY InitOK
<1>2. Inv /\ [Next]_vars => Inv'
  BY StepSimulation
<1> QED BY <1>1, <1>2, PTL DEF Spec

\* To Sequence Paxos the storage over RocksDB behaves like the in-memory one,
\* crashes included: every step of persistent_storage.rs below the cache is a
\* step of ReplicaStorage, or changes nothing that it shows.
THEOREM Refinement == Spec => ImplementsStorage
<1>1. Init => Abstract!Init
  BY InitOK
<1>2. Inv /\ [Next]_vars => [Abstract!Next]_Memory
  BY StepSimulation
<1> QED BY <1>1, <1>2, Invariance, PTL DEF Spec, ImplementsStorage, Abstract!Spec

\* At any moment a crash may come: PersistentStorage::open and load_cache find
\* the next key, the rounds, the indices and the stop sign that the process had.
THEOREM RecoveryTheorem == Spec => []RecoveryIsExact
<1>1. Inv => RecoveryIsExact
  BY OpenOK DEF Inv, RecoveryIsExact
<1> QED BY <1>1, Invariance, PTL

\* The keys of the log have no gap and none are left behind, which
\* get_entries takes for granted when it follows the iterator.
THEOREM ContiguityTheorem == Spec => []KeysAreContiguous
<1>1. Inv => KeysAreContiguous
  BY DEF Inv, StoreOK, LogOK, KeysAreContiguous
<1> QED BY <1>1, Invariance, PTL

\* get_entries and get_suffix never fail and return what the in-memory storage
\* returns, for every range that is not partly compacted.
THEOREM ReadsTheorem == Spec => []ReadsAgree
<1>1. ASSUME Inv PROVE ReadsAgree
  <2> SUFFICES ASSUME NEW from \in state_cache.compacted_idx .. MaxIdx + 1
               PROVE  /\ get_suffix(from) = Abstract!get_suffix(Memory, from)
                      /\ \A to \in from .. MaxIdx + 1 :
                           /\ ~ get_entries_fails(from, to)
                           /\ get_entries(from, to) = Abstract!get_entries(Memory, from, to)
    BY DEF ReadsAgree
  <2>1. from \in Nat /\ state_cache.compacted_idx <= from /\ state_cache.compacted_idx \in Nat
        /\ next_log_key \in Nat /\ state_cache.compacted_idx <= next_log_key
    BY <1>1, StoreFields
  <2>2. ASSUME NEW to \in from .. MaxIdx + 1
        PROVE  /\ ~ get_entries_fails(from, to)
               /\ get_entries(from, to) = Abstract!get_entries(Memory, from, to)
    <3>1. to \in Int
      BY <2>1
    <3> QED BY <1>1, <2>1, <3>1, GetEntriesAgrees
  <2>3. get_suffix(from) = Abstract!get_suffix(Memory, from)
    <3> DEFINE c == state_cache.compacted_idx
               n == next_log_key
               log == Memory.log
    <3>1. get_suffix(from) = Abstract!get_entries(Memory, from, n)
      BY <1>1, <2>1, GetEntriesAgrees DEF get_suffix
    <3>2. log \in Seq(Value) /\ Len(log) = n - c /\ Memory.compacted_idx = c
      BY <1>1, MemoryLog
    <3> HIDE DEF log
    <3>3. Abstract!get_suffix(Memory, from) = Abstract!drain(log, from - c)
      BY <3>2 DEF Abstract!get_suffix, log
    <3>4. CASE from <= n
      <4>1. from - c <= n - c /\ n - c <= n - c
        BY <2>1, <3>4
      <4>2. Abstract!minimum(from - c, Len(log)) = from - c
        BY <3>2, <4>1 DEF Abstract!minimum
      <4>3. Abstract!drain(log, from - c) = SubSeq(log, from - c + 1, n - c)
        BY <3>2, <4>2 DEF Abstract!drain
      <4>4. Abstract!get_entries(Memory, from, n) = SubSeq(log, from - c + 1, n - c)
        BY <2>1, <3>2, <3>4, <4>1 DEF Abstract!get_entries, log
      <4> QED BY <3>1, <3>3, <4>3, <4>4
    <3>5. CASE n < from
      <4>1. ~ (from - c <= n - c) /\ ~ (from <= n) /\ n - c + 1 > n - c
            /\ n - c + 1 \in Int /\ n - c \in Int
        BY <2>1, <3>5
      <4>2. Abstract!minimum(from - c, Len(log)) = n - c
        BY <3>2, <4>1 DEF Abstract!minimum
      <4>3. Abstract!drain(log, from - c) = SubSeq(log, n - c + 1, n - c)
        BY <3>2, <4>2 DEF Abstract!drain
      <4>4. SubSeq(log, n - c + 1, n - c) = << >>
        BY <3>2, <4>1, SubSeqEmpty
      <4>5. Abstract!get_entries(Memory, from, n) = << >>
        BY <4>1 DEF Abstract!get_entries
      <4> QED BY <3>1, <3>3, <4>3, <4>4, <4>5
    <3> QED BY <2>1, <3>4, <3>5
  <2> QED BY <2>2, <2>3
<1>2. Inv => ReadsAgree
  BY <1>1
<1> QED BY <1>2, Invariance, PTL
==============================================================================
