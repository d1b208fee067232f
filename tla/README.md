# kynovo in TLA+

kynovo is a Raft-replicated ordered key-value store in C89.  This directory
holds TLA+ models of it: modules translated from `src/code`, TLC
configurations that check them on small instances, and TLAPS proofs of what
holds for every instance.  `PROJECT.json` lists the components, runs, mutants,
theorems and hazards, and maps each definition to the lines it models.

## 1. The system

### Parts, their state and their operations

| Part | State | Operations |
|---|---|---|
| `raft.h`: durability contract | term, vote, log; `durable_index`, `durable_confirm`, `persist_synced_index`; `persist_needed`; `persist_gen` and the gates of deferred replies | change of term or vote, append, cut, persist view in `raft_advance`, `raft_persist_complete`, `raft_create` from a restored state |
| `raft.h`: elections, replication | role, votes, `next_index`, `match_index`, commit, latched replies | `raft_recvfrom_peer` (four messages), `raft_submit`, timers in `raft_advance` |
| `raft.h`: reads, membership, transfer, snapshot streams, shutdown | read barriers and rounds; old, new and learner sets; pending offsets; phase | client and peer entry points, `raft_stop` |
| `kserver.h`: WAL pipeline and recovery | records in flight, the WAL worker's position, segments, two metadata slots | `k_server_drive`, `k_wal_append_bundle`, `k_server_poll_wal`, `k_wal_state_load`, `k_server_open` |
| `kserver.h`: snapshots | snapshot in flight, task, names and segments of the last three, cleanup | `k_server_maybe_snapshot`, the snapshot worker, `k_server_poll_snapshot` |
| `kserver.h`: requests | connections, requests, write queue, FCALL gate, flush policy | frames from clients and peers, results from raft, stop |
| `treap.h` | live tree, captured view, forked copy, retired nodes | set, delete, ranges; capture, save, finish; fork, commit, abort |
| `runtime.h` | task and result queues, stop flag | post, poll, stop, ready and exit handshakes |
| `cemon.h` | loop and socket phases, mailbox | accept, connect, data, close, stop |
| `vfs.h` | files | open, read, write, sync, unlink |
| `kclient.h` | pending requests, link, retry state | connect, send, redirect, retry, timeout |
| `kproto.h`, `kbase.h`, `kdbsvr.c`, `kdbctl.c`, `cli.h` | none of the system's | codecs, clocks, glue, terminal |

### How they interact

One owner thread runs the server.  `k_server_drive` calls `raft_advance`,
sends its messages, applies what is committed and posts the persist view to
the WAL worker thread; up to `K_WAL_INFLIGHT_MAX` records are outstanding while
raft goes on receiving.  `k_server_poll_wal` reports a written record back with
`raft_persist_complete`.  A snapshot is captured on the owner thread, saved by
the snapshot worker, reported with `raft_snapshot_data_ready`, and becomes the
log's base once a WAL record that carries it is durable.  After a crash
`k_server_open` rebuilds raft and the tree from the files.

### What is hard

Completions that belong to an older state of the log; replies that must wait
for a disk; crashes at any point of a write; records written over what an
earlier crash tore; snapshots that overlap with depositions, queued records and
cleanup; messages lost, repeated and reordered; allocation failures in the
middle of a handler.  The hazards in `PROJECT.json` name the lines.

## 2. Modules

| Module | Models |
|---|---|
| `Durable` | the frontier (`raft_durable_clamp`, `raft_persist_complete`), persist views, recovery of a log and a hard state from records |
| `Persist` | one node's durability contract over any caller |
| `PersistProofs` | theorems about `Persist` |
| `Raft` | the replication protocol on a fixed set of voters, each with its WAL |
| `WalStore` | segment files, metadata slots, `k_wal_state_load` |
| `Wal` | one server's WAL pipeline, local snapshots, retention, crashes and recovery |
| `MCPersist`, `MCRaft` | instances for TLC: symmetry, views, starting states |

`Persist`, `Raft` and `Wal` share `Durable`.  `Persist` abstracts the disk to
what recovery would read; `Wal` keeps the bytes, as cells, and runs the real
scan.

**Persist.**  `hard`, `log`, `front`, `dirty` and `wait` are `raft_ctx` fields;
`posted`, `done` and `disk` are the caller.  `ChangeHard`, `LeaderAppend`,
`FollowerAppend` and `AbandonTail` are what raft does to term, vote and log;
`HandOff` is the persist view, `WalWrite` the worker, `PersistComplete` the
report, `Restart` a crash and `raft_create`.  `CutInFlight` and `HardInFlight`
say whether the caller lets raft cut the log, or change term or vote, while a
record is outstanding.  `kserver` allows both; a caller that persists within the
round allows neither.  Allocation failures are left to `Raft`.

**Raft.**  `node[n]` is a `raft_ctx`.  Every action is a whole handler:
`Receive` dispatches the four messages, `Advance` is `raft_advance` with its
released replies, timers and persist view, `Submit` a client command, `WalWrite`
the disk, `Restart` a crash.  An entry is its term.  Messages stay in `msgs`
for ever, which covers loss, repetition and reordering; a queued message counts
as sent.  A failed allocation is a choice where the code handles one.  Left out:
membership, snapshots, reads, transfer, the path of a sole voter, allocation
failure of the persist buffer.

**WalStore, Wal.**  A segment is a sequence of cells the size of a record
header; a record is a header cell and payload cells; a checksum holds when the
payload is the one the header was written for.  Files are overlaid, never
truncated, as in `vfs.h`.  A crash leaves any prefix of the record being
written, part of one more cell at the end of a file, or the whole record with
its slot unwritten, spoiled or written, and any prefix of a cleanup.  Not
covered: pages that reach the disk out of order, and a cell half overwritten
inside a file.  A failed WAL write stops the server in the code and is a crash
here.  The snapshot policy's thresholds are left open.  Saving a snapshot and
polling its result are one action, since nothing reads the file in between.
Snapshots received from a leader, roles and the loading of the tree are left
out.  A cut while a record is outstanding is `Persist`'s subject.
`Situations` admits behaviours of the code a run can leave out; the passing
runs state without which of them the store is safe, and one configuration each
shows what they lead to.

## 3. Runs

Passing runs:

| Run | Shows | Bounds |
|---|---|---|
| `persist_contract` | frontier, replies and deltas are truthful with a caller that persists within the round; the inductive invariant | 2 entries, 3 votes, terms to 2, logs to 3, 3 records in flight: cuts below, at and above the frontier, and re-appends |
| `persist_replies_leave` | a latched reply is released (liveness), pipelined caller | 1 entry, 1 term, 2 in flight |
| `raft_elections` | one leader per term | 3 nodes from scratch, 2 timeouts, 1 crash, no commands |
| `raft_replication` | `match_index` durable, committed entries kept | 3 nodes from the first leader on, 1 timeout, 2 heartbeats, 1 failed allocation |
| `raft_histories` | log matching, leader completeness, one committed entry per index, on a quorum of disks; the cap on terms | an overwritten tail with 1 crash and 1 failed allocation; one under a longer new log with 1 failed allocation; a deposed leader with a longer log, 2 timeouts, terms to 3 |
| `raft_pipelined` | `match_index` and commits are durable with records in flight | stable leader, 2 in flight, 1 crash |
| `wal_crash` | recovery accepts the files, loses nothing reported, brings no cut tail back | 2 entries, 3 records over 2 segments, 2 in flight; 2 terms and 1 crash or 1 term and 2 crashes |
| `wal_snapshots` | two-deep retention leaves a usable base | 3 snapshots, 5 records, one to a segment, failed saves, 1 crash |

Three nodes are the smallest set where a quorum is not everyone; a second
election, one crash and one overwritten tail are what the safety arguments
turn on.  Runs that need a history start from states reachable from `Init`
(`BootedInit`, `ContestInit`, `OverwriteInit`, `LongTailInit`), since the way
there costs more states than what follows.  The `Raft` runs use symmetry of
nodes and a view that forgets messages no receiver will heed.  That loses
nothing: every handler returns on a term below the receiver's, a node's term
never falls below the one on its disk, and a candidacy always takes a new term,
so such a message stays ignored.  Symmetry chooses representatives with those
messages included, so state counts vary a little between executions.  Counters
(`spent`, `MaxGen`, `MaxSnaps`, ...) bound what is unbounded in the code.
The `Wal` runs do not check deadlock: a store with nothing to write rests, and
one that recovery refuses stays down.

Where the code and what the repository says of it disagree, a run ends in a
violation; the findings in `PROJECT.json` quote the lines:

| Run | What the code does |
|---|---|
| `raft_vote_lost` | an earlier record's completion releases a vote: two leaders of one term, after a crash |
| `raft_early_ack` | a record outstanding across a cut vouches for the new entries: an entry is committed with one durable copy of three |
| `wal_base_with_entries` | recovery decodes the base's record twice and drops later entries |
| `wal_deposed_save` | a step-down during a save: no snapshot ever again |

More configurations are kept for regression and run by hand
(`tlc -config <file> <module>`).  `WalGoOn.cfg` (module `Wal`) passes: a pending
snapshot always has a step that ends it, without depositions and failed saves.
The others end in a violation:

| Configuration | Property | What the code does | What the repository says |
|---|---|---|---|
| `MCPersistCut` | `FrontierOnDisk` | the cut behind `raft_early_ack`, on one node | `raft.h:43-47`: "never an index a cut has invalidated" |
| `MCPersistVote` | `ReplyDurable` | the gate behind `raft_vote_lost`, on one node | `raft.h:3476`: "defer vote response until voted_for is persisted" |
| `WalShortTail` | `StoreOpens` | a record shorter than the torn one under it leaves garbage: refused | `doc/crash-contract.md:93`: "nothing to do; recovery accepts it" |
| `WalDeposedBase` | `StoreOpens` | a step-down with the base's record in flight: refused | `kserver.h:1916-1918`: "Prefer the last consistent (higher) base." |
| `WalFailedSave` | `SnapshotsGoOn` | after a failed save raft refuses the next snapshot | `kserver.h:4869-4872`: "the next attempt captures the CURRENT state instead" |
| `WalQueued` | `StoreOpens` | two records carry one snapshot, retention rotates twice | `kserver.h:5086-5088`: the previous snapshot and its segments "are the rollback target" |
| `WalLagging` | `NothingLost` | entries unapplied over two snapshots go with their segments | `doc/crash-contract.md:56`: "acknowledged data is never lost" |
| `WalRepeated` | `StoreOpens` | four snapshots at one index: the one in use is unlinked | `doc/crash-contract.md:51-53`: "the snapshot retention is 2-deep" |
| `WalTailJump` | `NothingLost` | past the scan ceiling fewer segments are read than are kept | `kserver.h:71-74`: "the newest records are always near it" |

The single-node behaviours among these were also seen on the C code, driven
by hand with the synchronous test runtime and a memory disk, with two
limits: `WalFailedSave` was found by reading and on the model only, and the
cluster-wide outcomes of `raft_vote_lost` and `raft_early_ack` are TLC's; on the
C code only the early release on one node was seen.

**Fairness.**  Only `persist_replies_leave` assumes any: weak fairness of
`HandOff` (the driver calls `raft_advance` on every turn), of `WalWrite` (the
worker thread takes the next task) and of `PersistComplete` (the driver polls
on every turn).  Nothing is assumed of clients, peers or restarts.

**Mutants.**  Every property of a passing run comes with a wrong variant of a
modelled definition that breaks it (`Wrong variant:` in the modules): a clamp
that is forgotten, a vote that is not restored, a slot overwritten in place.

## 4. Proofs

`PersistProofs` proves, for every set of entries and votes, every bound and any
number of records in flight:

- `TypeCorrect`: the types of `Persist`;
- `RepliesDurable` and `AdvertisedTermNeverLost`, if term and vote stay put
  while a record is outstanding (`~HardInFlight`);
- `FrontierTruthful` and `NothingLost`, if the log is not cut while a record is
  outstanding (`~CutInFlight`).

The conditions cannot be dropped: `MCPersistCut` and `MCPersistVote` refute the
statements without them.  Assumed is only `PersistAssumption`, the types of the constants.

None of the properties is inductive.  `ReplyDurable` says nothing of a record on
its way, so `GateInv` adds that every outstanding record carries the current
term and vote, and that a report still to come means the disk has them;
`LastRecordHard` adds that a node with nothing to persist has the hard state of
its last record.  `AdvertisedTermKept` is about a crash, so `TermsInOrder` adds
that terms never decrease from the disk through the records to memory.
`FrontierOnDisk` needs `FrontierInv`: what a report will claim, and what a
record will write, agrees with the log as it is; `NothingSkipped` also needs
`CoverInv`: a clean log is synced or covered by a report under way.
`IndInv` is their
conjunction; TLC checks it as an invariant of `persist_contract`.  The lemmas on
`Truncate`, `RecoverLog` and the frontier's operators come first and are cited
by name.

Only model-checked: `ReplyLeaves` (liveness is out of this prover's reach),
everything in `Raft`, and `Wal`, whose scan is recursive.

## 5. Not modelled, and the plan

Not modelled: see the components in `PROJECT.json`.  Codecs, terminal handling,
the event loop's backends and the applications are I/O without state of the
system and stay out.

Next, in this order:

1. `ReadIndex`: rounds of `read_context`, leader and follower barriers; that a
   read served after a write was acknowledged sees it.
2. `Gate`: requests, group commit, FCALL window, loss of leadership; that every
   admitted request is answered once, and queued writes are released.
3. `Treap`: capture, save, fork, commit and retired nodes as a graph of shared
   nodes; that a captured view stays what it was and nothing reachable is freed;
   an abstract ordered map it implements.
4. `Install`: snapshot streams and their install next to local snapshots.
5. `Membership`: joint configurations, learners, reverts; quorums intersect.
6. `Shutdown`, `Runtime`, `Client`: stop phases, queues, retries; liveness.
7. `WalStore` as an implementation of `Persist`'s disk (refinement), and proofs:
   election safety and log matching for `Raft`, the slot discipline of `Wal`.
