# A TLA+ model of surrealdb-iroh

surrealdb-iroh replicates the changes of an embedded database between peers over
iroh (QUIC) connections. This directory holds TLA+ modules translated from its
Rust source, the TLC configurations that check them on small instances, and
TLAPS proofs that hold for every value of the constants. Paths such as
`src/sync.rs` below are relative to the repository root (`src/src/sync.rs` in
PROJECT.json's `map`, which names the lines every definition stands for).

## 1. The system

### 1.1 Components

| Component | Source | State | Operations |
|---|---|---|---|
| SyncManager | `src/sync.rs` | `offset` (atomic u64), `changes` (deque behind an RwLock, at most `max_changes`), `peer_states` | `record_change`, `get_changes_since`, `apply_changes`, `update_peer_state`, `snapshot`, `restore` |
| Sync protocol | `src/protocol.rs`, messages in `src/change.rs` | one connection: two byte streams, the position of the client (`connect_and_sync`) and of the server (`handle_connection`) | `Request`, `Response`, `Ack`, `Ping`, `Pong`, the zero-length end marker, close, loss |
| FileChangeStore | `src/persist.rs` | the log file and its open handle, `tail_offset`, `buffer`, `index`, temp files | `new` (recover, open, index), `append`, `flush`, `get_since`, `close`, `drop`, `compact` |
| MemoryChangeStore, ChangeStoreManager | `src/persist.rs` | a vector; a flush task with a shutdown channel | `append`, `get_since`; `start_flush_task`, `shutdown` |
| ChangeBatcher, BatchingSyncManager | `src/batch.rs` | `pending`, `batch_start`, `sequence`, the batch channel, the background task and its handle | `add`, `check_flush`, `flush`, `start_background_flush_task`, `shutdown` |
| Replicator | `src/replicator.rs` | `running`, `endpoint`, `discovery`, shutdown broadcast, change channel | `start`, `shutdown`, `run_loop`, `sync_with_peers`, `connect_ticket`, `record_change`, `drop` |
| ReplicatorRunner, hooks, SyncContext | `src/hook.rs` | change channel, hook list, forwarding task | `record_change`, `register_hook`, the forwarding loop |
| ConnectionPool | `src/pool.rs` | map peer -> pooled connection (age, last use, use count, in use, closed) | `get_connection`, `release`, `remove`, `cleanup`, `stats` |
| ChangeNotifier, ChangeObserver | `src/notify.rs` | subscriber map, sequence counter, one bounded broadcast channel per subscriber | `subscribe`, `unsubscribe`, `notify`, `notify_sync`, `notify_local`, `recv` |
| Snapshot transfer | `src/snapshot.rs` | pending changes; received chunks and their expected number | `add_change`, `build_snapshot`, `export`, `import_chunk`, `is_complete`, `finalize`, `reset` |
| ReputationManager | `src/reputation.rs` | scores and connection start times | `record_sync_success/failure`, `record_connection`, `record_disconnection`, `apply_decay`, `get_best_peers`, `remove` |
| Retry | `src/retry.rs` | attempts, budget | `should_retry`, `next_delay`, `execute` |
| DiscoveryManager, tickets | `src/discovery.rs` | discovered peers | `record_peer`, `generate_ticket`, `parse_ticket`, `connect_to_peer`, `discover` |
| base64, compression framing | `src/common.rs`, `src/compress.rs` | none | encode, decode |
| Telemetry, config, errors | `src/telemetry.rs`, `src/config.rs`, `src/error.rs` | none the program reads back | builders, counters |

### 1.2 How they interact

An application hands local changes to `ReplicatorRunner::record_change` (bounded
channel, `try_send`); its forwarding task calls `Replicator::record_change`
(another bounded channel) and the registered hooks. A `Replicator` owns one
`SyncManager`; every accepted connection runs `handle_connection` in its own
task against that manager, and `connect_ticket` runs `connect_and_sync` against
it too, so the manager is shared by many tasks. `run_loop` wakes every
`sync_interval` and connects to each known peer that is not `Synchronized`.
`BatchingSyncManager` wraps a manager and adds a batcher with a background task.
`FileChangeStore` is a separate, clonable log; `ChangeStoreManager` flushes it
periodically from another task.

### 1.3 What is hard

* **Interleavings.** `record_change` bumps the atomic `offset` before it takes
  the `changes` lock; `snapshot` reads `changes` and `offset` at different
  moments; `append` takes an offset, a buffer slot and the file under three
  separate locks; two flushers may write in the opposite order of taking the
  buffer; `add` in the batcher marks `batch_start` and pushes under different
  locks, and the background task and `flush` take `batch_start` and `pending` in
  opposite orders.
* **Failure.** A connection may be lost at any step of either side; a process
  may crash with buffered or unsynced records, in the middle of writing a
  record, or in the middle of a compaction; a write may fail half way.
* **Ordering and limits.** The deque drops its oldest change at `max_changes`;
  broadcast and mpsc channels drop or lag when full.
* **Several owners.** A snapshot importer keeps chunks and their number behind two
  locks and checks and reads at two moments; a round of dialling and a
  `connect_ticket` hold an endpoint that a shutdown closes meanwhile.
* **Liveness.** Both ends of a connection can wait for each other; a shutdown
  signal is lost when nobody is subscribed yet.

### 1.4 What makes each component correct

* SyncManager: a pull never misses a retained change at or after the requested
  offset; offsets never go back; a snapshot taken while changes are recorded can
  be restored without losing what it holds.
* Protocol: answers correspond to requests, a peer is `Synchronized` only after
  a session that ended, a session on a live connection ends.
* FileChangeStore: what a successful flush wrote survives every crash, in the
  order written; a crash during compaction keeps the original log; offsets and
  `get_since` agree with the file after a reopen.
* Batcher: every change is in at most one batch, none waits for ever, no
  deadlock. Replicator: at most one run loop, shutdown stops it, start after
  stop works, every known peer is dialled. Pool: a connection has one user.
  Notifier: ids are unique, gaps are reported, numbers order the events.
  Snapshot: every change is exported once, and what is finalized is what was
  exported.

## 2. Plan

The order follows what a user depends on first: that a peer gets every change,
that a stored change survives, that the parts around them start, stop and do not
block.

| Step | Modules | State |
|---|---|---|
| 1 | `ChangeLog`, `SyncManager`, `SyncManagerProofs`: the shared manager | done |
| 2 | `Transport`, `SyncServer`, `SyncClient`, composed by `SyncSession`; `SessionProofs` | done |
| 3 | `FileChangeStore`: log, crashes, compaction; `FileStoreProofs` | done |
| 4 | `Batcher`, extended by `BatcherTask`; `BatcherProofs` | done |
| 5 | `Replicator`, extended by `ReplicatorRunner`; `ReplicatorProofs` | done |
| 6 | `ConnectionPool`; `PoolProofs` | done |
| 7 | `AppendLog`, the abstract log; `FileChangeStore` and `MemoryChangeStore` implement it; `ChangeStoreManager` with its flush tasks; `MemoryAndSnapshotProofs` | done; both refinements are proved |
| 8 | `SnapshotTransfer`: chunks out of order, repeated or missing, `is_complete`, `finalize`, `reset`; `MemoryAndSnapshotProofs` | done |
| 9 | `ChangeNotifier`: subscription ids, the bounded broadcast channel, event numbers; `NotifierProofs` | done |
| 10 | `PeerDialing`, which extends `Replicator`: `sync_with_peers`, `connect_ticket`, tickets; proofs with those of `Replicator` | done |
| 11 | Proofs of every safety property of the passing runs, the refinements included | done |
| 12 | Proofs about `SnapshotTransfer`: the concatenation of chunks and of the entries of exports | done |

A run asks one question of one composition. Each of the ten compositions has one
passing run with everything that can happen switched on; a run that ends in a
violation is kept where code and comment disagree about something a user relies
on. The other disagreements are described in section 8.

## 3. Modules

Every module models control completely (each access to shared state is a step,
early returns and error paths included) and abstracts data: a change is a name,
a connection a number, a byte position a record number. Definitions called
*faulty variant* are never part of a specification: they show that a property
notices the bug they describe.

**`ChangeLog`** has the operators on the bounded deque: `PushBounded`
(`push_back` with `pop_front` at capacity), `GetChangesSince` (the arithmetic
from the end of the log) and `Truncate` (`max_changes` of a request).

**`SyncManager`** (`src/sync.rs`). `offset`, `changes` and `peerStates` are the
fields of the struct; `pc`, `arg`, `got` and `draft` are the local variables of
the tasks in the middle of a call. `record_change` is `RecordFetchAdd`, then
`RecordPush`; `apply_changes` is `ApplyStart` and one `ApplyStep` per change;
`snapshot` reads log, counter and peers in three steps. `Restart` is a crash of
the process at any moment followed by `restore` of the last finished snapshot.
`get_changes_since` only reads and is used in the properties. `pushed` and
`assigned` are histories.

**`Transport`** is the connection: two sequences of frames, up or down, and
`Lose`. It delivers whole frames in order (QUIC, external) or goes down.

**`SyncServer`** (`handle_connection`, `process_message`) and **`SyncClient`**
(`connect_and_sync`) have one action per await. The server runs against the
counter and the log of its node, in which another task keeps recording in two
steps; `seen` is a history of the log at the moment a batch was gathered.
**`SyncSession`** composes them: the repository's client with its server, and
each of them with a peer that sends any frame (`ForeignClient`,
`ForeignServer`).

**`FileChangeStore`** (`src/persist.rs`). `recs`, `synced`, `temp` and
`compacted` are the disk; `handle`, `tail`, `buffer`, `index` and `lock` the
memory of the process; threads append, flush, close and compact step by step.
`Open` is `new` with `recover_temp_files` and `build_index`; `Crash` keeps what
`sync_all` covered and any prefix of the rest. A failed write stops between two
records or within one (`Torn`). The constant `Behaviours` switches kinds of
events off, so that a run about one of them has a short counterexample.
`StartPositions`, `FirstOffset` and `GetSince` are `read_changes_since`. Where a record
was torn decides what a reader makes of it: within the length, the read ends well
and the scan does not count it; within the body, the read fails and the scan counts
it. The model leaves the place open (`Counted`, the two outcomes of `GetSince`).

**`AppendLog`** is what the trait `ChangeStore` promises, in the abstract: an
accepted change waits, enters the log at most once and stays in its place; a
crash takes from the end what is not durable, a compaction takes from the front.
`FileChangeStore` instantiates it with the log a reader gets (`ReadableLog`), the
changes in buffers and in the hands of flushes as `waiting`, and the synced
prefix as `durable`; `FileIsAppendLog` is its specification under that mapping.

**`MemoryChangeStore`** (`src/persist.rs`): `append` reads the length under one lock
and pushes under another. Its mapping to `AppendLog` takes nothing to be durable. **`ChangeStoreManager`** adds flush tasks, the watch channel that tells
them to stop, `shutdown` and the end of the manager.

**`Batcher`** (`src/batch.rs`) has `add`, `check_flush`, `flush` and the tick of
the background task, a step per critical section; a step that waits for a lock
has the lock's freedom in its guard. **`BatcherTask`** adds
`start_background_flush_task` and `shutdown`: sender, spawned task and handle
are stored in three steps, and the task clears the handle when it ends.

**`Replicator`** (`src/replicator.rs`): start, shutdown, run loop, accept task and
drop; an endpoint, its loop and its accept task carry the number of the start
that made them. **`ReplicatorRunner`** (`src/hook.rs`) puts the channel, the
forwarding task, the hooks and the drop of the runner on top.

**`PeerDialing`** extends `Replicator` by what the loop does at a tick and by what
else reaches a peer: `sync_with_peers` copies the peer states once (`DialTick`) and
clones the endpoint anew for each peer (`DialRead`); `connect_to_peer` begins
through the clone in a later step (`DialBegin`), since a shutdown on another thread
may take and close the endpoint in between, and ends with a connection, which is
dropped at once (`DialConnected`), or an error (`DialFailed`). `connect_ticket` clones
it once and tries one address after the other; `SessionAccepted` and `SessionServed` are
the sessions of other peers that move the peer states meanwhile.

**`SnapshotTransfer`** (`src/snapshot.rs`): the exporter takes the pending changes and
groups them in any order a HashMap may have; `Serialize` lays the snapshot out with
one byte per item, so `Size` grows with what is exported; a chunk is a slice of
the encoded snapshot, whose bytes are marked with their export and place. Two tasks import,
in two steps for the two locks; the owner checks, reads and resets, step by step.
`Deserialize` fails on a strict prefix of an encoding, accepts what begins with a
whole one (bincode ignores what follows), and may do anything with a mixture.

**`ChangeNotifier`** (`src/notify.rs`): a publication takes its number, then the read
lock, then sends to one subscriber after the other; a full channel overwrites its
oldest event (`Deliver`, tokio, external) and the receiver is told once. `sent`,
`heard`, `lifo` and `displaced` are histories.

**`ConnectionPool`** (`src/pool.rs`): `get_connection` before and after its await,
`release`, `remove`, `cleanup`, and `Expire` for time that passes. A user leaves
a connection it no longer holds (`Leave`, external).

The `MC` modules only name the model values and, where they are interchangeable
and no liveness is checked, a symmetry set.

## 4. Runs

Runs that pass:

| Run | Instance | What it shows |
|---|---|---|
| `SyncManagerShared` | 2 tasks, 2 changes, 1 peer, log of 2, counter to 4 | `NeverMisses`, `UniqueOffsets`, `RetainsNewest`, `RecordedOffsetNearlyServed` |
| `SyncSessionAny` | client, server or both are the repository's; a log of 2, counter to 3, a client with one change of its own, pulls with limit 0, 1 and none, up to 2 foreign frames of any kind; the serving node records but applies nothing (section 8 says why) | an `Ack` means the batch is recorded; a final batch was complete when gathered; the offset of a batch is a safe place to resume from when no record was between counter and log; success only for a session that ended; a connection that goes down ends both calls |
| `FileStoreAll` | 2 threads, 3 appends, 2 opens, an index entry every 2 records, everything that may go wrong (890 000 states) | the store implements `AppendLog`; an acknowledged flush is in the log; only the second rename of a compaction takes an acknowledged change away; a read that succeeds misses no readable record |
| `BatcherShared` | 2 adders, 3 adds, batches of 2, a channel of 1, an owner that starts the task twice | every change is in one place; batch numbers are unique; a batch exceeds its limit by at most the other adders; start and shutdown have taken effect when they return; a task told to stop ends; an old batch is flushed unless two locks are taken crosswise |
| `ReplicatorLife` | 2 callers, 2 starts, 2 changes, 1 hook | one start or loop at a time; no endpoint lost; a stopped replicator is clean; a signal that is received stops the loop; queued changes reach the hooks even after the drop, which ends loop and accept task |
| `PoolShared` | 2 users, 3 peers, 1 connection, 2 uses each | an entry in use has a user; a free one has none unless callers overlap on its peer; the pool never holds more connections than the limit or, if there are more of them, the callers; the use count is never exceeded |
| `StoreManaged` | 2 appending threads, 4 appends, 2 flush tasks | the in-memory store implements `AppendLog`; a returned offset never lies behind its change; every flush task started before a shutdown or the end of the manager ends |
| `SnapshotShared` | 3 changes in 2 namespaces, 2 exports, chunks of 3 units, 2 importing tasks and an owner (551 000 states up to symmetry) | every change is in one export, in order; all chunks of one transfer, however they came, finalize to exactly it; a finalize that no import races never takes an incomplete transfer for a snapshot |
| `NotifierShared` | 3 subscriptions with room for 1 event, 2 publishers, 5 calls (714 000 states up to symmetry) | no gap is silent; the events of one task arrive in the order of their numbers; ids are safe as long as the newest subscription goes first |
| `PeersDialled` | a caller that starts twice, a task that connects by tickets of one peer with up to 2 addresses, 2 peers (230 000 states) | a round only uses the endpoint of its own start, open or closed meanwhile; every known peer that is behind is dialled, however many others fail; a shutdown releases a waiting `connect_ticket` |

Runs that end in a violation, each with its finding in PROJECT.json:

| Run | Property | What the code does |
|---|---|---|
| `SyncSessionEnds` | `SessionEnds` | after the first answer both ends wait for each other |
| `FileStoreTorn` | `AckedSurvives` | a torn record is never truncated and hides what is appended behind it |

**Bounds.** Two concurrent tasks are enough for every race described here: each
involves one task between two of its steps and one that acts in between. Every
capacity is small enough to be reached (a log of 2 with up to 4 records, a
channel of 1, a subscription with room for 1 event, a pool of 1) and every counter goes at least one step beyond the
capacity it meets. Two opens and two starts let the second meet what the first
left behind; two exports let chunks of one transfer arrive after those of the
other. Bounds appear only in guards (`MaxOffset`, `MaxAppends`,
`MaxOpens`, `MaxAdds`, `MaxStarts`, `MaxMade`, `MaxExports`, `MaxCalls`,
`MaxAddresses`, the sizes of `BgTasks` and `FlushTasks`), so a
bounded run sees the prefixes of the unbounded behaviours. Deadlock checking is
off where the system may come to rest because a bound is reached or nobody calls
it again.

**Fairness.** Weak fairness for the steps of a task or call that has begun: the
tokio runtime polls what is ready. Operations that end by themselves (a write, a
connection attempt or an orderly close, which have timeouts in iroh) end. Time
passes (`Age` in the batcher). Nobody is obliged to begin anything: no fairness
for add, record, start, shutdown, drop, receive, or the loss of a connection.
`EndsReturn` speaks only of connections that did go down. In `PeersDialled` the
loop is fair as a whole, its timer included (an interval goes on ticking and each
attempt to connect ends), and a session of `connect_ticket` is bound to end only
once its endpoint is closed. In `StoreManaged` the end of a flush task is strongly
fair: its `select!` is not biased and picks among ready branches at random, so a
signal that waits is not passed over for ever. The run loop of the replicator has
a biased `select!` with the signal first; there weak fairness is enough.

## 5. Proofs

Eight modules of theorems, each for every value of the constants that satisfies
the assumptions named: any number of tasks, every capacity, every bound. None of
the properties is inductive as it stands; what follows says what each invariant
adds and why.

**SyncManager** (`SyncManagerProofs`), from `ConstantsAssumption` (a finite set of
tasks, natural bounds, `SeqOf` a function into the naturals). `IndInv` adds to the types:

* `RetainsNewest`: the log is the newest `max_changes` of its history;
* `CounterCovers`: the counter is at least the length of the history plus the
  number of records in flight. This is what makes the arithmetic from the end of
  the log safe: it may start early, never late. It needs the number of tasks
  between counter and log, hence the finiteness of the set of tasks;
* `SnapshotsRestorable`: the finished snapshot satisfies the same with its own
  counter, and so does one under way with the counter it has read or, before
  that, with the current one, since counters only grow;
* `OffsetsBehind` and `UniqueOffsets`: offsets handed out, to the log or to a
  task in flight, are distinct and below the counter.

Theorems: `TypeCorrect`, `IndInvHolds`, `PullNeverMisses`, `OffsetsUnique`,
`LogRetainsNewest`. `OffsetsNearlyServed` needs more: how far a change can lie
behind its offset. `OvertakeInv` counts, for each change pushed, the later changes
with a smaller offset (it was overtaken in taking the lock) together with the
recorders in flight that still hold one: fewer than there are recorders, since
each was in flight when the change was pushed. That the places after a change are
then filled up to that number is a pigeon-hole argument (`PlacesAfter`). The
counter is a natural number in the model, so the theorems speak of executions in
which it stays below 2^64; section 8 (`src/sync.rs:170`) says how it could leave
them.

**The sessions** (`SessionProofs`), from `ServerAssumption`, `ClientAssumption` and
`SessionAssumption`: any capacity, any request limit but 0, any frames a foreign
peer may send. `ServerInv` relates the steps of `process_message` to the log that
another task shares with it: the counter counts what was pushed and what is in
flight (`Counted`); what is left of a Response is the end of its batch and what is
not left lies in the history in its order (`Recording`); between gathering a batch
and the second look at the counter, whatever the counter will be, the batch can
only be called final if it is complete (`Gathering`). That last part is why
`is_final` is right although the counter is read again: a counter that has moved
on can only make a batch look less final. Theorems: `ServerInvariant`,
`AcksAreEarned`, `FinalBatchesComplete`, `ResumingIsSound`. `ClientInv` and
`OneExchange` add the client and, for the repository's two ends, that there is one
request and one answer to it. Theorems: `SessionInvariant`, `SuccessIsEarned`, and
`OwnEndsNeverFinish`: with the repository's client and its server, whatever the
log holds and the connection does, the server never ends the session and the
client neither returns Ok nor marks its peer `Synchronized`. It is the other side
of the violation `SessionEnds`.

**The file store** (`FileStoreProofs`), from `StoreAssumption`. `FileInv` says that
only a thread between taking changes and being done with them holds any, and a
store that is not open holds nothing (`Holding`); that every change is in one place, the buffer, the
hands of one thread, or the log and perhaps the hands of the thread that wrote it
there, and an acknowledged one in no hands (`OnePlace`); that what a thread wrote
through a handle on the log stays in it until it is acknowledged; and that what
is acknowledged and in the log lies in the part `sync_all` covered (`Written`).
Theorems: `FileInvariant`; `OnlyCompactionTakes` (a crash cuts behind the synced
part, a torn record lies behind it, and what precedes the first torn record is
all a reader gets, before and after); `AckedChangesInLog`; `ReadsMissNothing` (an
index entry knows no position or points at its own record, so a read, where it
succeeds, starts no later than at the record asked for, and the number it gives the first record is at
least as large as its place; in whatever order flushes left the index); and
`FileImplementsLog`, the refinement of `AppendLog`: `AppendOffset` maps to
`Accept`, the write of a flush, whole, failing, torn, into an unlinked file or
into none, to `Write`, `FlushSync` to `Sync`, `Crash` to `Crash`, the second rename of a
compaction to `Compact`, everything else to a stutter.

**MemoryChangeStore** (`MemoryAndSnapshotProofs`), from `MemoryAssumption`.
`OffsetFindsChange` is not inductive: it says nothing of an append between its two
locks. The invariant adds that a length read is at most the length of the vector,
that the change in a thread's hand has begun and is neither in the log nor in
another hand, and that every change in the log has an offset not behind its
place. `OffsetsFindChanges` follows, and with it
`MemoryImplementsLog`: the initial states map to those of `AppendLog`, `AppendLen` to
`Accept`, `AppendPush` to `Write`. Nothing is durable in this mapping.

**SnapshotTransfer** (`MemoryAndSnapshotProofs`), from `SnapshotAssumption`: finitely
many changes, each with a namespace and a database, and chunks of at least one
byte; any number of exports and of importing tasks. The argument has four parts.

* *Concatenation.* What `FlattenSeq` computes is found by induction along its
  recursion. The library's induction theorems take an operator and cannot be
  instantiated here, so `SetInduction` states induction for a set of numbers and
  is derived from the well-foundedness of `<` on the naturals. `FlatteningExists`
  and `FlattenIs` show that the recursion has a solution and unfold it;
  `FlattenAppend`, `FlattenSub`, `FlattenPrefix`, `FlattenOne` and `FlattenNone` say
  what appending, cutting, and empty parts do to the result.
* *Export.* An order of a finite set reaches every element (`OrderIs`, by
  cardinality), so whatever order the hash maps have, the entries of a namespace
  and database in the snapshot are the changes of that group in the order they
  were added (`GroupHasEntries`, `SnapshotHasEntries`). An encoding is never empty
  (`SizePositive`), so there is always a chunk.
* *Chunks.* The number of chunks is rounded up (`DivRounds`, `CountIs`), every chunk
  is non-empty and only the last may be short (`DataIs`), and joined in order they
  are the encoding (`ChunksJoin`, `ChunksFlatten`).
* *Import.* `TransferInv` says that every chunk received, or in a task's hand
  between its two locks, is a chunk of some export and lies at the place its
  number names, unless the place is still empty; and that a `finalize` no import
  disturbed since its check still has the complete transfer the check saw. None
  of this is in the properties, and without it nothing is known of the bytes
  `finalize` joins. A prefix of chunks without the last is then a strict prefix of
  an encoding and refused (`CutIsRefused`); all of them are the encoding and read
  back (`WholeIsRead`); chunks of a single export cannot be read as another
  (`NoOtherExport`, `OneExportIsRead`).

Theorems: `TransferInvHolds`, `FinalizeIsExact` (an action property),
`AllChunksAlwaysSuffice`, `ChangesExportedOnceInOrder`. The last is inductive given
`TransferInv`: an export appends the entries of the pending changes to those of
the earlier exports, group by group.

**Batcher** (`BatcherProofs`), from `BatcherAssumption`.
`ContentInv` says which steps of a task hold changes, that every change added is
in pending, in a hand or in a batch (`ChangesKept`), in only one of them and there
once (`ChangesApart`), that batches and flushes under way have different numbers,
and that pending exceeds its limit only for adders between their push and their
flush. Theorems: `BatcherInvariant`, `ChangesOnce`, `BatchesNearlyBounded`, and
`OneOwnersCallsTakeEffect` under the hypothesis of a single owner, without which it is
false (section 8, `src/batch.rs:211`): its invariant `OneTask` follows the one task
through the three steps of a start and past the handle its predecessor clears.

**Replicator and its dialling** (`ReplicatorProofs`), from `ReplicatorAssumption`
(`MaxStarts` is a natural number). `LifeInv` says who holds the flag `running`
(the one start or loop that is active), that the endpoint slot, the live loop and
a start beyond its bind all belong to the newest endpoint, that a loop not yet
spawned has a start that will spawn it, and that every endpoint is in the slot,
about to be closed, or closed. One lemma per action shows that it is kept.
Theorems: `LifeInvHolds`, `ReplicatorExclusive`, `EndpointsAccounted`,
`StoppedReplicatorIsClean`. `DialingKeepsLifeCycle` shows that `PeerDialing`
implements `Replicator`: its steps are steps of the life cycle or leave it alone,
so the theorems hold there too. `DialsThroughOwnEndpoint` is proved on top: `RoundInv`
says that a clone in hand belongs to a loop within its round, and that it carries
the number of that loop, which follows from `LifeInv` when it is read: slot and live
loop are both of the newest start. That the endpoint is still open does not follow
and is not so (section 8, `src/replicator.rs:353`).

**ConnectionPool** (`PoolProofs`), from `PoolAssumption` (a finite set of callers).
`PoolInv` adds to `InUseIsUsed` and `PoolBounded` that a connection belongs to one
peer, in the pool and with its users, that the history of overlapping callers is
complete, and that the entry of a caller who overlaps with nobody is marked. The
bound on the size, the limit or the number of callers, follows from `InUseIsUsed`
when nothing can be evicted: every entry is then in use, and the peers of entries
in use are at most as many as different callers. Theorems:
`PoolInvariant`, `InUseEntriesHaveUsers`, `FreeEntriesUnused`, `PoolStaysBounded`.

**ChangeNotifier** (`NotifierProofs`), from `NotifierAssumption`. `NotifierInv` says
that ids are dense as long as the newest goes first; that an event about to be
sent comes after all its task has sent to that subscriber; and, for each
subscription, that its channel holds the newest of what was sent, that what was
heard left the channel in order, and that what follows next continues it unless a
gap is due to be reported. Theorems: `NotifierInvariant`, `NumbersOrderEvents`,
`ReverseOrderIsSafe`, `NoSilentGap`.

## 6. Only model-checked

These hold for the instances of section 4:

* all liveness properties, since the prover handles neither fairness nor
  `ENABLED`: `EndsReturn`, `SignalledEnds`, `OldBatchFlushedOrLocked`, `SignalStops`,
  `QueuedReachesHooks`, `DropStops`, `FlushTasksEnd`, `KnownPeersDialled`,
  `ShutdownFreesConnect`.

Every invariant and every safety property of a step that a passing run checks is
a theorem of section 5.

## 7. Not modelled

* ReputationManager: no code of the crate creates one, and only its tests insert a
  score, so its operations change nothing; the scores are floating-point.
* Retry: nothing in the crate uses it; sequential, with floating-point delays.
* Base64 and compression framing: pure functions on bytes around library codecs.
* The list of discovered peers of DiscoveryManager: no code of the crate adds to
  it. The text of a ticket: a ticket is the number of its addresses.
* The filters of subscriptions: `notify` never consults them (section 8).
* BatchingSyncManager beyond its batcher: it passes calls on to a SyncManager.
* Telemetry, configuration, errors, re-exports: nothing reads their state back.
* Encoding, except that a frame may not decode; TLS and QUIC, which are iroh's.
* In the file store: a torn header, records above 16 MiB, foreign files.

## 8. Other disagreements met while modelling

Seen in the source while it was translated, and described here because they
limit what the properties can say. They are not kept as runs.

* `src/sync.rs:170`: `apply_changes` stores the low 64 bits of a change's UUID in the
  counter while the log is untouched ("Offset in the change log (for resumable
  sync)", `src/change.rs:117`); later pulls return the whole log, and the offset
  after a truncated one skips changes never sent. The serving node of
  `SyncSessionAny` therefore applies nothing; `SyncManagerShared` covers that pulls
  do not miss changes even then. The ids the crate makes are version-4 UUIDs, whose
  fixed version nibble keeps that number more than 2^55 below 2^64; but a peer
  chooses the ids it sends and nothing checks them (`src/change.rs:18`): an id of
  all ones takes the counter to its maximum and the next record wraps it to 0. The
  model leaves that out.
* `src/sync.rs:163`: `apply_changes` counts the changes it is given; it
  neither stores nor applies them. `connect_and_sync` ignores `is_final`
  (`src/protocol.rs:388`) and never asks for the rest of a batch that is not final.
  No property here says that a client ends up with the changes of its peer.
* `src/sync.rs:118`: with two recorders, the offset `record_change` returns can be
  one place off from the change's position in the log; `RecordedOffsetNearlyServed`
  states what is left.
* `src/sync.rs:221`: `restore` on a manager in use replaces log and counter in two
  steps; a record in between leaves the counter behind the log, and pulls miss
  changes. The model restores before the manager is shared.
* `src/protocol.rs:226`: an answer put together while a record is between counter
  and log starts one change early, and its offset plus length points beyond what
  was sent, so a client that resumes there misses a change ("Offset in the change log
  (for resumable sync)", `src/change.rs:117`). `ResumePointSound` states what is left: it
  excludes that moment.
* `src/protocol.rs:222`: a Request with limit 0 is answered with an empty batch,
  and an empty batch is final ("Whether this is the final batch",
  `src/change.rs:121`) whatever the log holds. Met when `FinalIsComplete` could not be
  proved; it now speaks of requests for at least one change. The repository's
  client asks for 1000.
* `src/protocol.rs:321`: the client asks from its own counter, which also counts
  its own changes; a client with changes of its own asks for too little.
* `src/protocol.rs:200`: the server marks the peer `Synchronized` however the
  session ended, and `sync_with_peers` then skips it.
* `src/persist.rs:314`: `compact` reads its source from byte 0, takes the header for a
  record length beyond the file, stops, and replaces the log by an empty one
  (the comment at line 275 says it "writes valid records directly").
* `src/persist.rs:383`: after a compaction the append handle still refers to the
  replaced file, and later flushes succeed on a file nobody reads.
* `src/persist.rs:573`: two appenders can take offsets and buffer slots in opposite
  orders.
* `src/persist.rs:526`: a reader that starts at an index entry gives its first
  record the offset of the entry plus one, and returns one record too many.
* `src/persist.rs:197`: the tail after a reopen is taken from the last index entry,
  which is up to `index_interval - 1` records behind.
* `src/persist.rs:663`: a flush of at least `index_interval` changes indexes them at
  position 0; a read that starts there fails on the header.
* `src/persist.rs:604`: a flush on a closed store drops the changes and returns Ok.
* `src/persist.rs:379`: a crash between the two renames of a compaction leaves
  `changes.compacted.log` behind, which recovery does not look for.
* `src/batch.rs:175`: the background task counts `pending` under the read lock of
  `batch_start` (l.170), `flush` takes `batch_start` (l.338) under the lock of
  `pending` (l.331): each can wait for the other for ever, although the task
  "periodically checks" and flushes "regardless of whether new changes arrive"
  (l.138). `OldBatchFlushedOrLocked` states what is left.
* `src/batch.rs:160`: `Instant::now() + max_batch_age` panics for an age beyond the
  clock's range, and the background task with it. The model leaves such ages out.
* `src/batch.rs:316`: several adders pass the size check together, so a batch can
  exceed `max_batch_size`; `BatchNearlyBounded` states by how much.
* `src/batch.rs:284`: a flush between the two steps of an add leaves a pending
  change without a start time; the background task does not see it until the
  next add.
* `src/batch.rs:211`: with two owners, a shutdown that meets a start, or another
  shutdown, can return while a task runs, and a start can store the handle of a
  task that has already ended, after which every start is refused.
* `src/batch.rs:390`: the task holds an `Arc` of its batcher, so the "best effort
  shutdown on drop" cannot run while the task does.
* `src/batch.rs:408`: `BatchingSyncManager::new` drops the receiver of the batch
  channel: every batch is refused.
* `src/replicator.rs:88`: a start that fails to bind leaves `running` set; every
  later start is refused.
* `src/replicator.rs:268`: `record_change` sends to a channel whose receiver `new` has
  dropped (l.60) and ignores the error, so a change recorded through Replicator,
  ReplicatorRunner or SyncContext reaches no SyncManager; line 398 says "The actual
  recording happens asynchronously in the replicator task".
* `src/replicator.rs:295`: a shutdown or drop before the loop has subscribed is
  lost. After a lost shutdown the loop goes on with an empty slot and dials
  nobody.
* `src/replicator.rs:326`: "Sync with all connected peers." The loop calls
  `connect_to_peer` (l.360), which connects and drops the connection
  (`src/discovery.rs:231`): nothing is exchanged and no peer state moves, so a peer
  that can be reached is dialled again at every tick and never synchronized by the
  loop. `KnownPeersDialled` states what is left.
* `src/replicator.rs:353`: the endpoint is cloned here and used at l.360; a shutdown
  in between closes it, so a dial can begin through a closed endpoint and fails.
  `DialsOwnEndpoint` states what is left.
* `src/replicator.rs:175`: a late shutdown can take and close the endpoint of the
  next start.
* `src/replicator.rs:211`: a generated ticket has no addresses and `discover`
  (`src/discovery.rs:254`) returns none, so `connect_ticket` with it always ends in
  `PeerNotFound`; `examples/sync.rs` connects that way.
* `src/replicator.rs:234`: `connect_ticket` goes on with the endpoint it has cloned
  across a shutdown and a restart.
* `src/persist.rs:716`: two appends to the in-memory store can return one offset, and
  a change can lie any number of places behind its own.
* `src/persist.rs:781`: a flush task started after `shutdown` subscribes to a channel
  whose signal has passed, and goes on until the manager is dropped.
* `src/snapshot.rs:316`: `is_complete` looks only at the chunks there are, so missing
  chunks at the end go unnoticed until decoding fails.
* `src/snapshot.rs:322`: an import between the check and the read of `finalize`, or a
  late chunk of an earlier transfer after a reset, mixes two transfers; decoding
  the mixture may succeed, since `validate` (l.94), which covers names and numbers
  of entries only, is called nowhere.
* `src/notify.rs:196`: after an `unsubscribe` other than of the newest subscription the
  next one is given an id in use and takes its entry ("Unique subscription ID",
  l.146).
* `src/notify.rs:226`: `notify` and `recv` ignore the filter of a subscription,
  although a test says of a foreign namespace "should not match"
  (`tests/integration.rs:82`); it does not look for the second event.
* `src/notify.rs:295`: a task can be overtaken between `inc_sequence` and `notify`, so
  the events of two tasks can arrive against the order of their numbers.
* `src/notify.rs:156`: `ok()` makes one `None` of a gap and of a closed channel; the
  `None` of `try_recv` (l.160) can also mean that there is no event yet.
  `GapsAreReported` is about `recv`.
* `src/notify.rs:144`: a dropped subscription leaves its entry in the map.
* `src/pool.rs:236`: `release` names a peer; it can free a connection another
  caller uses.
* `src/pool.rs:211`: with every entry in use nothing is evicted and the new one is
  added all the same; `release` (l.236) leaves the entries there, so the pool can
  hold more free connections than `max_connections` ("Maximum number of connections in
  the pool", l.90), until `cleanup` finds them expired. `PoolBounded` states what is left.
* `src/pool.rs:299`: `cleanup` drops expired entries that are in use.
