# OmniPaxos in TLA+

A TLA+ model of the replicated log in this repository: the Sequence Paxos
protocol with its storage, the Ballot Leader Election (BLE) that drives it, their
composition, the storage over RocksDB and the erasure-coded variant. The modules
are translated from the Rust source, checked with TLC on small clusters, and most
of the safety they claim is proved with TLAPS for clusters of any size. Paths below are
relative to `omnipaxos/src/` unless they say otherwise.

## 1. The system

A user links the library into each server, calls it, takes its outgoing messages
from time to time, sends them over a network of its own, and hands it the
messages that arrive. The library has no threads: each call runs to its end.
What is concurrent is the servers, the network and the moments at which the user
calls.

| component | state | operations | correct if |
|---|---|---|---|
| ballots (`ballot_leader_election.rs`) | - | order by n, priority, pid | the order is total |
| quorums (`util.rs`, `omni_paxos.rs`) | sizes | `is_prepare_quorum`, `is_accept_quorum` | every read quorum meets every write quorum |
| storage (`storage/*`, `omnipaxos_storage/src/memory_storage.rs`) | promise, accepted round, decided index, log, compacted index, snapshot, stop sign; cached: accepted index, batch | append, flush, `sync_log`, `create_log_sync`, trim, snapshot, `load_cache`, read | what was acknowledged survives a crash; indices agree with the log; readers see the decided log |
| persistent storage (`omnipaxos_storage/src/persistent_storage.rs`) | the same, as keys of RocksDB; the next key in memory | as the in-memory one, `open` | to the protocol it is the in-memory one |
| leader bookkeeping (`util.rs` `LeaderState`) | promises, the best promise, accepted indexes, sequence numbers, positions of waiting accepts | `set_promise`, `is_chosen`, ... | it never claims more than the followers did |
| Sequence Paxos (`sequence_paxos/*`) | role and phase, leader bookkeeping, follower's sequence number and cached promise, buffered proposals, outgoing messages | one handler per message, `append`, `reconfigure`, `trim`, `snapshot`, `reconnected`, two timeouts, recovery | agreement, durability, a sealed log after a stop sign, progress |
| BLE (`ballot_leader_election.rs`) | heartbeat round and replies, own ballot, leader, happiness | `hb_timeout`, `handle_request`, `handle_reply`, `set_priority`, recovery | a quorum-connected server ends up leading; ballots only rise; a recovered server does not lead on |
| OmniPaxos (`omni_paxos.rs`) | both protocols and three clocks | the user's calls, `tick`, `election_timeout`, `try_become_leader` | both come to agree on a leader, and proposals get decided |
| erasure-coded variant (`omni_paxos_ec.rs`, `sequence_paxos_ec/`, `erasure/`) | as Sequence Paxos, with a fragment in place of an entry | as Sequence Paxos | any `data_shards` fragments rebuild a decided value |
| UniCache (`unicache/`) | a cache at encoder and decoders | encode, decode | caches stay equal |
| macros, dashboard, logger, examples | none of the protocol's | - | - |

The components interact by calls: `election_timeout` asks BLE with the promise
and the role of Sequence Paxos, and hands a ballot that leads to
`handle_leader`; Sequence Paxos calls the storage; messages join the servers.
BLE and Sequence Paxos share no state but the promise.

What is hard: rounds of several leaders that overlap; accept messages that are
lost between others; crashes between a reply and the next message, or between two
writes; retries of what did arrive; positions in the outgoing buffer that are
remembered so that a waiting message can be extended; indices that count the stop
sign, the batch or the compacted prefix, or do not; a log of fragments that is
encoded again. PROJECT.json lists these hazards with the line at which each one
bites and the properties that watch it.

## 2. Modules

    Ballots   Quorums
       |  \    /  |
       |  InternalStorage
       |      |    |    \
       |      |    |   ReplicaStorage <- PersistentStorage - MCPersistentStorage
       |      |    |
       |      |  LeaderState
       |      |    |
       |    SequencePaxos
       |      |       \      \
       |      |        \      SequencePaxosEC - MCSequencePaxosEC
       |  MCSequencePaxos  LogReads - MCLogReads
       |      |
       |   OmniPaxos - MCOmniPaxos
       |      ^
    BallotLeaderElection - MCBallotLeaderElection

The proofs are in modules of their own. Each extends the one before it, and the
module it is about:

    BallotsProofs --- BallotLeaderElectionProofs    (BallotLeaderElection)
       |    \
       |     PersistentStorageProofs                (PersistentStorage)
       |
    SequencePaxosProofs       (SequencePaxos: operators, types, rounds)
       |            \
       |             ErasureProofs                  (SequencePaxosEC)
       |
    HistoryProofs             (the invariant about logs; the actions of a leader)
       |
    AgreementProofs           (those of a follower, compaction, recovery; the theorems,
       |                       with those on reads of LogReads)
    OmniPaxosProofs           (OmniPaxos)

* **Ballots**: the record of n, priority and pid with its order. `config_id` is
  constant in an instance and ignored by `Ord`.
* **Quorums**: `Server`, the quorum sizes and what `ClusterConfig::validate`
  demands of them. A majority is one choice of sizes.
* **InternalStorage**: the storage of one server as operators on a record. All
  fields but `accepted_idx` and `batched_entries` are written through in the call
  that changes them, so one copy stands for cache and persistent state;
  `load_cache` is what a restart makes of it. `write_atomically` is one step. A
  snapshot is the sequence of entries it covers: `Snapshot::create` and `merge`
  belong to the user and only have to fold entries in order.
* **ReplicaStorage**: what a storage promises to Sequence Paxos, as an abstract
  specification: the operators of InternalStorage, called in any order the
  protocol may call them in, and a crash that loses only the batch.
* **PersistentStorage**: the storage over RocksDB in detail: the column of log
  keys, the state keys, write batches and `write_atomically` as lists of writes,
  `next_log_key` and the state cache kept by the process, and what `open` and
  `load_cache` find. A crash may fall between any two writes that are not one
  batch (`append_stopsign` is the only call with two). It implements
  ReplicaStorage, with the cache and the database joined to one record.
* **LeaderState**: the bookkeeping of the round a server leads. Its vectors have
  a slot for every pid up to the largest, as in the code.
* **SequencePaxos**: all servers and the network. Every handler, call of the
  user and timeout is an action; the sub-calls of a handler are operators it
  applies in the order of the code. `net[p][q]` is a FIFO channel, as the
  library assumes of sessions; `drop` loses its head, and `Links` says which
  channels exist at all. `EagerTake` chooses between a user who takes the
  outgoing messages after every call and one who takes them at any time
  (`take_outgoing_msgs`); in the second case messages can be extended while they
  wait. A panic puts a server into `panicked` until it restarts. The election is
  an environment that may hand any of `Ballots` to the server it names, in any
  order: more than BLE allows.
* **LogReads**: what the user reads, as operators on the storage, and what
  readers may rely on.
* **BallotLeaderElection**: heartbeat rounds. Of Sequence Paxos it sees the
  promise, raised by `handle_leader` and by Prepares that arrive, and whether the
  server may be a leader in the Accept phase. With `Timely`, election timeouts
  are longer than a round trip and equally long everywhere, which is what the
  documentation asks of the timeout; without it there is no relation.
* **OmniPaxos**: the composition. BLE is instantiated with the promise that is in
  the storage; `election_timeout` tells it whether Sequence Paxos accepts and
  hands its ballot to `handle_leader` in the same step; a crash restarts both from
  one storage. Calls that concern one protocol only (trim, snapshot, reconfigure,
  set_priority, ...) are checked with that protocol.
* **SequencePaxosEC**: `sequence_paxos_ec/` is a copy of `sequence_paxos/` in which
  the leader encodes an entry, keeps its own fragment and sends each peer the
  peer's. Handlers that are equal are those of SequencePaxos; the others are
  translated again (`ec_...`). An entry is the value it stands for with the path
  of encodings it went through, so that a fragment of a fragment can be told from
  a fragment; arithmetic over the bytes is left out. `Data` is what users propose
  and `Piece` the type of these entries, which `Value` is here; a piece can be of a
  stop sign, because a batch that the stop sign flushes is announced that way.
* **MC...**: values for the constants.

The modules correspond to the code by name: an operator or action `f` is the Rust
function `f`. A handler's early returns are collected in `ignored`. A few
operators marked *Variant* state a plausible mistake next to the definition it
would replace (a dropped guard, an index off by one, a lost write). No
specification uses them; replacing the definition by its variant must violate the
property PROJECT.json names, which shows that the property depends on that line of
the code.

## 3. What TLC checks

All runs are exhaustive. Each kind of fault, timeout and compaction has a
`Budget` per server, and `Disturbances` bounds how many of these happen in one
behaviour, so that every combination of that many is tried; each proposal is made
once, and each ballot is elected at most once. Nothing else is bounded, and
channels never grow without bound because of it. Runs of `SequencePaxos` and
`SequencePaxosEC` do not check for deadlock: a cluster rests when everything is
delivered and the budgets are spent. BLE, the composition and the storage do.

| run | instance | shows |
|---|---|---|
| elections | 3 servers, 3 ballots, 2 proposals; servers 1 and 2 only reach 3 | `Agreement`, `LogMatching`, `LeaderCompleteness`, `DecidedIsStable`, `DecidedIdxAdvances`, `NeverUnpromised`, `NoDuplicates` |
| faults | 2 ballots of the same rivals, 2 proposals, any two of: a lost message, a resend of leader or follower, `reconnected`, a crash of the first leader or of the shared acceptor | `Agreement`, `DecidedIsDurable`, `AckedIsStored`, `RoundsAdvance` |
| batching | batches of 2, 3 proposals, flush timeouts, a trim, outgoing messages taken at any time | `TypeOK`, `LogMatching`, `AckedIsStored`, `DecidedIsAccepted`, `TrimmedIsAcceptedByAll` |
| reconfiguration | batches of 2, 2 proposals and a forwarded stop sign, a snapshot | `ReadsAreExact`, `ReadersAgree`, `LogIsSealed`, `AcceptedIdxIsLogLength`, `DecidedIsStable`, `NoPanic` |
| service | 2 servers with elections and Sequence Paxos, a forwarded proposal, a crash of either server or a takeover by hand, fairness | `Settles`, `DecidedOrLost`, `ElectionSeesRounds` |
| partial_connectivity | a star of 3 servers, read quorum 3; one of: a crash, `set_priority`, `try_become_leader`, a Prepare that overtakes the heartbeats | `LeaderOnceCalm`, `NoRetainedLeadership`, `LeaderAdvances`, `TypeOK` |
| persistence | one storage, indices up to 3, batches of 2, snapshots, stop signs, all synchronisations | `ImplementsStorage`, `RecoveryIsExact`, `KeysAreContiguous`, `ReadsAgree` |
| erasure_elections | 4 servers, read quorum 3, write quorum 2, 2 data and 2 parity shards, 2 ballots of rivals | `CodedAgreement`, `CodedDurable`, `FollowersHoldTheirFragment` |
| erasure_steps | 2 servers, 2 proposals and a stop sign, one of every other kind of step, outgoing messages taken at any time | `CodedAgreement`, `CodedDurable`, `LogIsSealed`, `DecidedIsStable` |
| deferred_resync | 2 of the servers, outgoing messages taken late, a lost message | violates `Agreement` |
| snapshot_resync | 4 ballots of two servers that take turns, snapshots | violates `Agreement` |
| erasure_resync | a follower that promises after the leader accepted an entry | violates `DecidedIsRebuildable` |

Why the bounds are enough to be interesting. Three ballots are needed for a
leader to choose between promises of different accepted rounds; that 1 and 2 do
not hear each other is what makes them rivals and leaves 3 as the acceptor they
share. Two proposals make two logs that differ. Two entries in flight are what a
lost message needs to leave a hole, and two disturbances are a loss with its
repair, or a crash while something is repaired. A batch of 2 with 3 entries is
once full and once flushed. Four servers are the fewest with a write quorum that
is no majority, and with read quorum 3 both phases must use their own size; the runs of
`SequencePaxos` have majorities, and other sizes there are left to the theorems of
section 4. In the
star only the hub can gather a read quorum; ten rounds of calm are what
it needs; with nine the property fails. In `service` the server
with the larger pid wins the first election, so a crash of 2 takes the leader and
a crash of 1 its follower; with two servers nothing is decided without either.
`ElectionSeesRounds` leaves out servers that panicked: one that panics in
`handle_prepare` stops with the new promise and the role of a leader in its Accept
phase, but no code of it runs any more that would tell the election.
Three indices let a log be compacted, hold an entry and end in a stop sign.

Fairness (`OmniFairness`, only in `service`): clocks tick, and messages are handled.
Both are the user's part, which the documentation asks for. Proposals, crashes and
takeovers are not fair, and no message is lost in this run: see 5. Two of the
conditions are weak fairness with the enabling condition written out, because TLC
takes very long to find it from the composed actions; that no step is disabled by
the bound `MaxN` is seen from the ballots, which stay below it.

### Disagreements between code and documentation

* **deferred_resync.** `send_accsync` opens a new session without forgetting the
  AcceptDecide that still waits for the follower, and `send_acceptdecide` later
  extends that one (`sequence_paxos/leader.rs` 150-221). It carries a number of
  the old session, the follower drops it, and two servers decide different
  entries at an index. `sequence_paxos/mod.rs:23` promises decided entries that
  are "guaranteed to be strongly consistent and linearizable". It needs a Promise
  that is sent twice and a user who takes the messages late.
* **snapshot_resync.** `sync_log` sets the decided index before it merges a delta
  snapshot, so `create_decided_snapshot` covers the new decided index with the
  old log (`storage/internal_storage.rs` 328-373), and a decided entry is lost.
* **erasure_resync.** The erasure-coded `send_accsync` says "EC-aware log sync:
  send only the correct fragments" and encodes every entry of the suffix for the
  follower (`sequence_paxos_ec/leader.rs` 382-398), but the leader's log holds its
  own fragments. The follower gets a fragment of a fragment, and the servers
  together no longer hold enough fragments of the value.

Other things seen while modelling, which the instances above avoid so that what
holds can be checked:

* "Note that changing the priority triggers a leader re-election"
  (`ballot_leader_election.rs:152`). If a leader's priority changes, the others
  follow the changed ballot, but its owner never compares its own ballot with the
  leader's in `update_leader`, goes on following the old one and is happy: nobody
  leads, and `LeaderOnceCalm` fails. In partial_connectivity the priority of a leaf
  is raised instead, which the election overcomes.
* A leader may lower a follower's decided index in `sync_log`
  (`internal_storage.rs:328`); the entries stay (`DecidedIsStable`), but a reader
  may see a decided entry as undecided for a while, against
  `docs/omnipaxos/log.md:23`. `DecidedIdxAdvances` says that this is the only way:
  a leader never lowers its own index, and a follower only when the leader of a
  later round synchronises it.
* A follower that has the stop sign and is synchronised once more counts it twice
  (`leader.rs` 168-175, `internal_storage.rs` 351-356): `AcceptedIdxIsLogLength`
  fails with a stop sign and two ballots. A later leader may derive a decided index
  from the wrong count, above its own accepted one. With three ballots, and a stop
  sign proposed at server 1 or 3, `LogIsSealed` (which compares the counts),
  `LeaderCompleteness` and `DecidedIsAccepted` then fail, and `AckedIsStored` when a
  crash in between loads the right count. `stopsign_is_decided` compares the same two
  indexes, so such a server does not report the reconfiguration. `Agreement` and
  `DecidedIsStable` hold there: the stop sign stays and nothing is stored behind it.
  reconfiguration and erasure_steps check stop signs under one leader.
* `trim` compares accepted indexes, where `docs/omnipaxos/compaction.md:30`
  speaks of decided ones. If server 1 leads twice and trims, and a server that
  did not decide the entry leads next, `get_suffix` of the in-memory storage
  underflows (`memory_storage.rs:109`): `NoPanic` fails with that order of
  ballots. Without overflow checks the suffix is empty instead.
* With a gap in the pids, as in the example of
  `docs/omnipaxos/reconfiguration.md`, the slot of the missing pid keeps
  `get_min_all_accepted_idx` at 0 and every trim is refused.
* Heartbeat rounds start over after a crash, so a late reply can count beside a
  new one of the same server in `check_takeover`.
* `read` panics on an empty range that starts at the stop sign
  (`internal_storage.rs:157`).
* `get_entries` of the persistent storage, asked from below the compacted index,
  returns entries of other indices or fails, where `storage/mod.rs` documents an
  empty vector. Sequence Paxos does not ask that; `ReadsAgree` is about the ranges
  it may ask for.
* In the erasure-coded variant a batch of more than one entry does not work: when
  it fills, only the fragments of the last call are sent (and a stop sign that
  flushes a batch sends none), so with a batch size of 2 `CodedAgreement` fails.
  The runs use the default batch size of 1. Entries go to every peer, also to one
  that has not promised, so the branch marked "Should never happen" does happen
  there. The default `ECService::new(1, 1)` panics with three servers, and no
  `validate` compares shards with servers.

## 4. What is proved

All theorems are about the specifications of section 2, with their crashes, lost
messages, timeouts and retries, and for every value of the constants that satisfies
the assumptions of the modules: `ServerAssumption` (finitely many pids, none 0),
`QuorumAssumption` (what `validate` demands), `StorageAssumption` and
`NoneAssumption` (entries, stop signs and None differ; the batch size is positive),
`PaxosAssumption` (types of the other constants; a ballot's pid is a server's),
`ElectionAssumption`, `ServiceAssumption` (types), `PersistenceAssumption` (as
`StorageAssumption`) and `ErasureAssumption` (there is a shard for every server). TLC evaluates each of them on the instances of section 3.

### Types and rounds of Sequence Paxos (SequencePaxosProofs)

* `TypeCorrectness`: `Spec => []TypeOK`. All positions and pids that handlers
  index with exist, and all messages are well formed.
* `AcceptsArePromised`: `Spec => []NeverUnpromised`. The branch of
  `check_valid_ballot` marked "Should never happen" does not.
* `RoundsNeverGoBack`: `Spec => RoundsAdvance`.

The lemmas also serve the erasure-coded variant, where the one thing an accept
message does not imply is that its receiver has promised. The module declares a
constant `Coded` for that: if it is true, `Inv` says so of all accept messages but
AcceptDecide (`Broadcast`), and `AcceptsArePromised` has `~ Coded` as its hypothesis.
No definition of SequencePaxos depends on `Coded`.

They hold with or without snapshots, stop signs, batches and `EagerTake`. All three
follow from `Invariance`: `Spec => []Inv`, one induction. `TypeOK` alone is not
inductive: `get_decided_idx_without_stopsign` subtracts one, so the storage must
know that a stop sign has an index (`StorageOK`); an extended message must exist, so
cached positions matter; and that an accept message goes to a server that promised
is a chain: the leader counts it as promised (`PromiseInv`), because a Promise
arrived (`ChannelInv`), because the follower promised, or sent again the Promise it
had cached (`CachedInv`), and promises only rise (`StorageInv`). A leader leads the
round it promised (`RoleInv`); a panicked server is exempt, since it stopped in the
middle of a handler. `StepPreservesInv` states once what a call of one server has to
leave behind for `Inv` to hold again; then there is one lemma per action. The first
part of the module has the lemmas on what the operators of InternalStorage and
LeaderState return.

### The logs of Sequence Paxos (HistoryProofs, AgreementProofs)

Under the hypothesis

    Plain == EagerTake = TRUE /\ UseSnapshots = FALSE /\ StopSign = {} /\ ~ Coded

* `AgreementTheorem`, `DurabilityTheorem`, `StabilityTheorem`: `Agreement`,
  `DecidedIsDurable` and `DecidedIsStable`. What is decided is the same everywhere,
  is held by a write quorum or trimmed, and stays.
* `LogMatchingTheorem`, `LeaderCompletenessTheorem`, `AckedTheorem`, `TrimmedTheorem`,
  `StoredTheorem` and `LengthTheorem`: `LogMatching`, `LeaderCompleteness`,
  `AckedIsStored`, `TrimmedIsAcceptedByAll`, `DecidedIsAccepted` and
  `AcceptedIdxIsLogLength`.
* `ReadsTheorem` and `ReadersTheorem`: `ReadsAreExact` and `ReadersAgree`, what users
  read (LogReads).

`Plain` is what the runs elections, faults and service are instances of: the user
takes the outgoing messages after every call, and entries are neither snapshots nor
stop signs. Batching, trimming, crashes, lost messages, all retries and elections in
any order are included. The first two restrictions cannot be dropped: without either
of them `Agreement` is false, which deferred_resync and snapshot_resync show. Stop
signs are left out because a log with a stop sign is a sequence and a flag that the
indices sometimes count; the argument below would have to speak of both.

The state does not contain what the argument is about: what a server accepted in
rounds it has left, and the log of a leader that is gone. The invariant therefore
says that there is a *history* (`History`): for every round its log (`rlog`), how
much of it each server ever accepted (`acc`), whether its leader left the Prepare
phase (`est`) and with how many entries (`base`), and where each accept message goes
on (`start`, by sequence number). `Explains(h)` relates it to the state:

* `RoundInv`, `VoteInv`: an established round has a read quorum of promises; nobody
  accepted in a round above its accepted round.
* `ChoiceInv`: if a write quorum accepted the first i entries of a round, *or may
  still do so* because enough servers have not promised anything higher, then every
  later established round began with these i entries. The second half makes it
  inductive: a promise only takes servers out of the set that may still accept.
* `LogInv`: the log of a server is the beginning of the log of the round it accepted
  in, as long as `acc` says, and what it decided was chosen in that round or before;
  what it compacted all servers hold (`HeldByAll`).
* `KeptPromiseInv`, `CountsInv`, `LeaderInv`, `FollowerInv`: what a follower promised
  and keeps, what a leader counted, which promise is the best and what
  `sync_log` would make of it, where the next accept message goes on.
* `MessageInv`, `OrderInv`: the same for messages on their way. An accept message
  continues at the index `start` has for its number; the suffix of an AcceptSync or a
  Promise fits behind the common prefix; a later AcceptSync of a round brings no less
  than the accept messages before it.

`HistoryInvariance` proves that such a history always exists: for each action there
is one lemma that takes the history before the step and names the one after it
(`Succeeds`): the same in most, a longer log when a leader appends, a larger `acc`
when a server accepts, a new established round when the promises are a majority
(`Establishes`), and a new `start` when an accept message is sent. No log of a round
and nothing a server accepted is ever taken back (`Later`), which is what stability
needs. The theorems about state follow from `Explained` without further induction.

Those on reads rest on `ReadTheorem`, which needs no hypothesis but that one storage
is well formed (`WellFormed`: it has its type, and the accepted index counts the
compacted prefix, the log and the stop sign): a read of any range returns `ExactRead`,
with snapshots and stop signs as well. `Plain` comes in because it is under `Plain`
that every storage is proved well formed, and that two servers agree on their entries.
With a stop sign and two ballots `AcceptedIdxIsLogLength` fails, see section 3.

### The composition and the way of a proposal (OmniPaxosProofs)

* `ServiceSafetyTheorem`, `ServiceStabilityTheorem`: `Plain /\ OmniSpec` implies
  `Agreement`, `DecidedIsDurable` and `DecidedIsStable`. The lemmas about Sequence
  Paxos are stated for `AnyStep`, the steps of `Next` or `handle_leader` with *any*
  ballot, because the ballots of the composition are computed and `Ballots` does not
  bound them; so every step of the service is a step they cover (`ServiceStepOK`).
* `ElectionTheorem`: `Plain /\ OmniSpec => []ElectionSeesRounds`: what
  `election_timeout` tells the election of the other protocol is true.
* `LedRoundsTheorem`: without `Plain`, every promise and every round a leader works
  in was handed to some server by the election. `ElectedRoundsTheorem` says the same
  of Sequence Paxos alone, with snapshots, stop signs and messages taken late.

A round travels in Prepares only, so the invariant behind the last three says that
all Prepares under way, and all promises, are of rounds in a given set (`RoundsIn`),
and this set is `led` (`ServiceInv`).

* `NoDuplicatesTheorem`, `ServiceNoDuplicatesTheorem`: `NoDuplicates`, of
  Sequence Paxos and of the whole service: what is proposed once is never twice in a
  log, although it is buffered, forwarded, buffered again by who receives it, batched
  and adopted by later leaders. The second covers every step of the composition.

Their hypothesis, besides `Plain`, is `OneProposer`: no two servers propose the same
value (nor does one of them propose it twice, since `proposed` remembers). The run
elections is an instance of it. Without it a log may rightly have the value twice, as
nothing in the code compares entries. The invariant is `Traced`: the history `h` that
explains the state can be chosen such that `Unique(h)`. A proposal *waits* in a buffer,
in the batch of a server that leads, or in a ProposalForward under way; each waits in
at most one place, none that waits is in the log of a round, and no round's log has
one twice. Neither half is inductive without the other: a leader appends what waits,
and a Prepare phase that ends appends a whole buffer to a log adopted from a follower.
`Carries` and `Hands` say of a call what becomes of the entries that wait at the server
and of those that arrive: each stays, is forwarded, batched or logged, or is lost, in
order and never more than one of these. `UniqueKept` shows that this keeps `Unique`;
then there is one lemma per handler (those that end in `Carried`). Entries can be
lost (in a crash, with a broken link, or with a log that a later leader overwrites):
the theorem promises no more than at most once.

### The erasure-coded variant (ErasureProofs)

* `ECTypeCorrectness`, `ECRoundsNeverGoBack`: `ECSpec` implies `[]TypeOK` and
  `RoundsAdvance`. Both follow from `ECInvariance`: `ECSpec => []Inv`.
* `FragmentsTheorem`: `ECSpec => []FollowersHoldTheirFragment`.

Their hypothesis `CodedEntries` says what the instance is: `Coded`, and `Value =
Piece`. Snapshots, stop signs, batches and messages taken late are all included. For
the handlers that are those of SequencePaxos the lemmas are those of
SequencePaxosProofs; new are the encoding of entries (`fragments_for` maps entries to
entries), the leader that appends, flushes and synchronises its own way, and the
receiver that has not promised.

`FollowersHoldTheirFragment` is about servers outside `Elected`, which no ballot
names. The invariant (`OwnInv`) says that they are followers, that their log and batch
are sequences of pieces last encoded for them (`Own`), and that so are the entries
of every AcceptDecide and the suffix of every AcceptSync on its way to them, taken or
still in the buffer of its sender, where it may be overwritten by a longer one
(`FitOverwrite`). Nothing is asked of what leaders store or of the Promises they
adopt, because everything is encoded once more for its receiver when it is sent; that
is also why `DecidedIsRebuildable` is false.

### The election (BallotLeaderElectionProofs)

* `TypeCorrectness`, `NoBallotIsLedTwice` (`NoRetainedLeadership`) and
  `LeadersOnlyAdvance` (`LeaderAdvances`), for any links, loss, delay and number of
  crashes, timely or not.

`NoRetainedLeadership` is silent about a server that follows a ballot it led, as each
one that recovers does. The invariant adds why it cannot come to lead it: until it
takes over its own ballot has number 0, and what gives it another number makes it
follow a ballot above all it ever led (`RetiredInv`); that needs `led` to be promised
(`LedInv`), followed ballots to have a number (`FollowedInv`), and the replies of a
round to be finitely many, so that they have a largest ballot (`RepliesInv`).

### The persistent storage (PersistentStorageProofs)

* `Refinement`: `Spec => ImplementsStorage`. Each call and each crash between two
  writes is a step of ReplicaStorage or none.
* `RecoveryTheorem`, `ContiguityTheorem`, `ReadsTheorem`: `RecoveryIsExact`,
  `KeysAreContiguous`, `ReadsAgree`.

The invariant says that the log column is a function on the interval from the
compacted index to `next_log_key`, and the state keys hold what the cache holds. Under
it a range scan is indexing, and the lemmas show for each batch of writes which
operation on sequences it is.

### Only model-checked

* `Settles`, `DecidedOrLost`: liveness under fairness is out of the prover's reach.
* `LeaderOnceCalm`: it counts rounds of calm in which a star of three servers settles;
  the number depends on the cluster.
* `DecidedIdxAdvances`: about the index a server reports. The entries at decided
  indexes, which must not change, are in `StabilityTheorem`.
* `NoPanic`: false for some values of the constants (the underflow at
  `memory_storage.rs:109` in section 3), so only an instance can have it.
* `LogIsSealed`: it is about stop signs, outside `Plain`. For the same reason the
  properties of batching, reconfiguration and erasure_steps are proved only as far as
  they hold without stop signs, snapshots and messages taken late.
* `CodedAgreement`, `CodedDurable`: they are `Agreement` and `DecidedIsDurable` of what
  entries are pieces of. The history of HistoryProofs would have to be one of these
  values, with entries of its own for every receiver of a message, and with servers
  that accept in a round without having promised it. They hold only for batches of
  one entry (section 3).

The prover does not cite theorems of an instantiated module. What OmniPaxosProofs
needs of the election is therefore proved there again, over the instance `BLE`.

## 5. What is not modelled

* UniCache (`unicache/`, `omnipaxos_macros`): behind a feature flag, an encoding of
  entries between a leader and its followers. Its caches are equal as long as the
  accepted logs are, which is what `LogMatching` says; eviction orders of the LFU
  and LRU maps are data structures of their own.
* `tick` and the logical clocks: timeouts happen at any time (in BLE and the
  composition, one after each round trip). Configuration files, logging, the
  dashboard and the derive macros have no state of the protocol.
* Reed-Solomon arithmetic: that any `data_shards` fragments of one encoding
  rebuild the value is what `decode` assumes of the library.
* Messages overtaking each other within a session, and duplicates: the library
  asks for FIFO links. Heartbeats may be lost and delayed.
* Errors of the storage: the code aborts on them, which is a crash. RocksDB itself,
  and the serialisation of what is stored in it.
* The branch of `handle_leader` for another server's ballot: `election_timeout`
  only passes on the server's own.
* Several configurations: a stop sign ends one, and the user starts the next.
* Progress after lost messages: no timeout repeats a lost AcceptDecide, Accepted or
  Decide; it takes more traffic or `reconnected`. Progress of stop signs: one that
  a follower buffers before it knows a leader is not forwarded.

## 6. What is left

Sequence Paxos with its storage and bookkeeping, reads, BLE, the composition, the
persistent storage against its abstract specification and the erasure-coded variant
are modelled and checked, and the theorems of section 4 proved. What could be proved
next, in this order:

1. `CodedAgreement` and `CodedDurable`, with a history that keeps what entries are
   pieces of.
2. Stop signs in the argument about logs: entries of a round's log that are a stop
   sign, with which `LogIsSealed` comes into reach and the reads are proved in full.
