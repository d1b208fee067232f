-------------------------------- MODULE Wal --------------------------------
(***************************************************************************)
(* One server's store at work: raft's persist views, the WAL pipeline      *)
(* (k_server_drive, the WAL worker, k_server_poll_wal), local snapshots    *)
(* (k_server_maybe_snapshot, the snapshot worker, k_server_poll_snapshot)  *)
(* with the retention of old files, a crash at any point of a write, and   *)
(* recovery (k_server_open).                                               *)
(*                                                                         *)
(* Raft is what the store sees of it: the hard state, the log with its     *)
(* snapshot base, the synced frontier, how far it was applied, and the     *)
(* pending snapshot.  Entries are their terms; those the base covers are   *)
(* kept as 0.                                                              *)
(***************************************************************************)
EXTENDS WalStore

CONSTANTS Peer, None,      \* what voted_for can hold
          Sizes,           \* payload sizes, in cells
          MetaEvery,       \* K_WAL_META_FSYNC_EVERY
          MaxInflight,     \* K_WAL_INFLIGHT_MAX
          MaxTerm, MaxIndex, MaxGen, MaxSnaps, MaxCrashes,   \* bounds
          MaxTroubles,     \* bound on terms and crashes together
          Situations       \* which of AllSituations a run admits

\* Situations the code can meet and a run can leave out.
AllSituations ==
  {"loaded",     \* the record that brings a base carries entries
   "queued",     \* a record is posted behind one that carries a snapshot
   "deposed",    \* the node steps down with a snapshot pending
   "failed",     \* a save fails
   "repeated",   \* the policy fires with nothing applied since the last one
   "lagging"}    \* the policy fires with durable entries not yet applied

ASSUME WalAssumption ==
  /\ None \notin Peer
  /\ Sizes \subseteq Nat \ {0}
  /\ {SegSize, MetaEvery, MaxInflight, MaxGen} \subseteq Nat \ {0}
  /\ {MaxSeg, PrefixMax, UnusedMax, TailSegs} \subseteq Nat
  /\ {MaxTerm, MaxIndex, MaxSnaps, MaxCrashes, MaxTroubles} \subseteq Nat
  /\ Situations \subseteq AllSituations

VARIABLES raft,     \* raft's side: see NewRaft
          posted,   \* records handed to the WAL worker, oldest first
          done,     \* records written, not yet polled, with the next position
          worker,   \* the WAL worker's position: see NewWorker
          store,    \* the server's snapshot bookkeeping: see NewStore
          disk,     \* [segs, slots, snaps]: the files
          status,   \* "up", "down" after a crash, "refused" by recovery
          spent     \* [snaps, crashes]: the bounded budgets

vars == <<raft, posted, done, worker, store, disk, status, spent>>

NoHard == [term |-> 0, vote |-> None]
NoCleanup == [older |-> 0, keep |-> 0]

---------------------------------------------------------------------------
(* What k_server_open makes of the loaded state *)

\* raft_create: everything restored is durable; applied is the snapshot.
\* saved is the hard state of the last record reported durable.
NewRaft(r) ==
  [hard |-> r.hard, saved |-> r.hard,
   log  |-> [i \in 1 .. r.base + Cardinality(DOMAIN r.log) |->
               IF i <= r.base THEN 0 ELSE r.log[i]],
   base |-> r.base, synced |-> r.base + Cardinality(DOMAIN r.log),
   applied |-> r.base, dirty |-> FALSE, snap |-> 0, ready |-> FALSE]

\* meta_since_sync starts at the threshold and no segment has been synced.
NewWorker(r) ==
  [gen |-> r.gen, next |-> r.next, slot |-> r.slot,
   since |-> MetaEvery, syncSeg |-> -1]

\* The newest snapshot and the two before it, the segment the write position
\* was in when the newest and the previous one became durable, the snapshot
\* in flight, the index the snapshot worker is saving, its cleanup task.
NewStore(r) ==
  [index |-> r.base, prev |-> 0, older |-> 0,
   seg |-> IF r.base > 0 THEN r.next.seg ELSE 0, prevSeg |-> 0,
   inflight |-> FALSE, task |-> 0, cleanup |-> NoCleanup]

Empty == [segs |-> [s \in Segments |-> << >>],
          slots |-> [k \in {0, 1} |-> EmptySlot], snaps |-> {}]

Init ==
  LET r == Load(Empty, NoHard) IN
  /\ raft = NewRaft(r)
  /\ worker = NewWorker(r)
  /\ store = NewStore(r)
  /\ disk = Empty
  /\ posted = << >> /\ done = << >>
  /\ status = "up"
  /\ spent = [snaps |-> 0, crashes |-> 0]

Idle == posted = << >> /\ done = << >>

---------------------------------------------------------------------------
(* Raft's side *)

\* raft_step_down to the next term: a pending snapshot is forgotten.
StepDown ==
  /\ status = "up"
  /\ raft.hard.term < MaxTerm /\ raft.hard.term + spent.crashes < MaxTroubles
  /\ "deposed" \in Situations \/ (raft.snap = 0 /\ ~store.inflight)
  /\ raft' = [raft EXCEPT !.hard = [term |-> @.term + 1, vote |-> None],
                          !.dirty = TRUE, !.snap = 0, !.ready = FALSE]
  /\ UNCHANGED <<posted, done, worker, store, disk, status, spent>>

\* A vote in the current term, granted or, as a candidate, in the next.
CastVote ==
  /\ status = "up"
  /\ \E v \in Peer, t \in {raft.hard.term, raft.hard.term + 1} :
       /\ t <= MaxTerm /\ t + spent.crashes <= MaxTroubles
       /\ t = raft.hard.term => raft.hard.vote = None
       /\ raft' = [raft EXCEPT !.hard = [term |-> t, vote |-> v],
                               !.dirty = TRUE]
  /\ UNCHANGED <<posted, done, worker, store, disk, status, spent>>

\* An entry of the current term is appended, a conflicting tail of an older
\* term is cut first; nothing applied is ever cut.  A cut with a record
\* outstanding is the subject of module Persist and left out here.
AppendEntry ==
  /\ status = "up"
  /\ \E i \in raft.applied .. Len(raft.log) :
       /\ i < MaxIndex
       /\ raft.hard.term > 0
       /\ i < Len(raft.log) => Idle /\ raft.log[i + 1] < raft.hard.term
       /\ raft' = [raft EXCEPT
            !.log    = Append(Truncate(@, i), raft.hard.term),
            !.synced = Lesser(@, i),
            !.dirty  = TRUE]
  /\ UNCHANGED <<posted, done, worker, store, disk, status, spent>>

\* Committed entries are applied; a quorum may hold what this disk does not.
Apply ==
  /\ status = "up"
  /\ \E i \in raft.applied + 1 .. Len(raft.log) :
       raft' = [raft EXCEPT !.applied = i]
  /\ UNCHANGED <<posted, done, worker, store, disk, status, spent>>

---------------------------------------------------------------------------
(* The WAL pipeline *)

\* The persist view of raft_advance as k_state_serialize writes it.  snap
\* tells whether it carries a snapshot (snapshot_dirty).
View(z) ==
  LET snap  == raft.snap # 0 /\ raft.ready
      base  == IF snap THEN raft.snap ELSE raft.base
      from  == Larger(base, raft.synced) + 1
      rest  == SubSeq(raft.log, from, Len(raft.log))
  IN [hard |-> raft.hard, base |-> base, snap |-> snap,
      from |-> from, entries |-> rest, size |-> z,
      durable |-> IF rest = << >> THEN base ELSE Len(raft.log)]

SnapshotQueued ==
  \/ \E i \in 1 .. Len(posted) : posted[i].snap
  \/ \E i \in 1 .. Len(done) : done[i].rec.snap

\* k_server_drive: raft_advance hands out the view, the bundle is posted.
Post ==
  /\ status = "up"
  /\ raft.dirty
  /\ Len(posted) + Len(done) < MaxInflight
  /\ worker.gen + Len(posted) < MaxGen
  /\ \E z \in Sizes :
       /\ "loaded" \in Situations \/ ~View(z).snap \/ View(z).entries = << >>
       /\ "queued" \in Situations \/ ~SnapshotQueued
       /\ posted' = Append(posted, View(z))
  /\ raft' = [raft EXCEPT !.dirty = FALSE]
  /\ UNCHANGED <<done, worker, store, disk, status, spent>>

\* Where the record goes: the write position, or the next segment when it
\* does not fit behind what is there.
RecordPos(rec) ==
  IF worker.next.off > 0 /\ worker.next.off + RecordSize(rec) > SegSize
  THEN Pos(worker.next.seg + 1, 0) ELSE worker.next

\* The write position after a record at p.
NextPos(p, rec) ==
  IF p.off + RecordSize(rec) >= SegSize THEN Pos(p.seg + 1, 0)
  ELSE Pos(p.seg, p.off + RecordSize(rec))


\* The slot is synced when the segment changed, or every MetaEvery records.
SlotDue(p) == p.seg # worker.syncSeg \/ worker.since + 1 >= MetaEvery

\* k_wal_meta_store alternates between the slots.
SlotToWrite == 1 - worker.slot

\* What the slot says: the record just synced, and where the next one goes.
SlotFor(p, rec) ==
  [gen |-> worker.gen + 1, rec |-> p, size |-> RecordSize(rec),
   next |-> NextPos(p, rec)]

\* The files after the record is written and, when due, the slot.
Written(rec) ==
  LET p == RecordPos(rec) IN
  [disk EXCEPT
     !.segs[p.seg] = Overlay(@, p.off, Image(worker.gen + 1, rec)),
     !.slots = IF SlotDue(p) THEN [@ EXCEPT ![SlotToWrite] = SlotFor(p, rec)]
               ELSE @]

\* k_wal_append_bundle: write, sync, then the metadata.
WalWrite ==
  /\ status = "up"
  /\ posted # << >>
  /\ LET rec == Head(posted)
         p   == RecordPos(rec)
     IN /\ p.seg <= MaxSeg
        /\ disk' = Written(rec)
        /\ worker' = [gen     |-> worker.gen + 1,
                      next    |-> NextPos(p, rec),
                      slot    |-> IF SlotDue(p) THEN SlotToWrite ELSE worker.slot,
                      since   |-> IF SlotDue(p) THEN 0 ELSE worker.since + 1,
                      syncSeg |-> IF SlotDue(p) THEN p.seg ELSE worker.syncSeg]
        /\ done' = Append(done, [rec |-> rec, next |-> NextPos(p, rec)])
  /\ posted' = Tail(posted)
  /\ UNCHANGED <<raft, store, status, spent>>

\* The bookkeeping after a record that carries a snapshot: the names shift
\* by one, and the snapshot is no longer in flight.
Rotate(rec, next) ==
  [store EXCEPT
     !.older    = IF store.index > 0 THEN store.prev ELSE @,
     !.prev     = IF store.index > 0 THEN store.index ELSE @,
     !.prevSeg  = IF store.index > 0 THEN store.seg ELSE @,
     !.index    = rec.base,
     !.seg      = next.seg,
     !.inflight = FALSE]

\* raft_persist_complete: the frontier rises, capped by the log's tip.
Completed(rec) ==
  [raft EXCEPT !.synced = Larger(@, Lesser(rec.durable, Len(raft.log))),
               !.saved  = rec.hard]

\* raft_snapshot_persist_complete: the covered prefix is compacted.
Compacted(r, rec) ==
  IF rec.snap /\ r.snap # 0 /\ r.ready /\ rec.durable >= r.snap
  THEN [r EXCEPT !.base = r.snap,
                 !.log = [i \in DOMAIN r.log |-> IF i <= r.snap THEN 0 ELSE r.log[i]],
                 !.snap = 0, !.ready = FALSE]
  ELSE r

\* k_server_poll_wal for the oldest written record.
PollWal ==
  /\ status = "up"
  /\ done # << >>
  /\ LET rec == Head(done).rec
     IN /\ store' = IF rec.snap THEN Rotate(rec, Head(done).next) ELSE store
        /\ raft' = Compacted(Completed(rec), rec)
  /\ done' = Tail(done)
  /\ UNCHANGED <<posted, worker, disk, status, spent>>

---------------------------------------------------------------------------
(* Local snapshots *)

\* A snapshot covers what was applied.
SnapshotIndex == raft.applied

\* k_server_maybe_snapshot, its thresholds left open, and raft_snapshot,
\* which refuses while another snapshot is pending.
StartSnapshot ==
  /\ status = "up"
  /\ spent.snaps < MaxSnaps
  /\ ~store.inflight /\ store.task = 0 /\ store.cleanup = NoCleanup
  /\ raft.snap = 0
  /\ raft.applied > (IF "repeated" \in Situations THEN 0 ELSE store.index)
  /\ "lagging" \in Situations \/ raft.applied >= raft.synced
  /\ raft' = [raft EXCEPT !.snap = SnapshotIndex]
  /\ store' = [store EXCEPT !.inflight = TRUE, !.task = SnapshotIndex]
  /\ spent' = [spent EXCEPT !.snaps = @ + 1]
  /\ UNCHANGED <<posted, done, worker, disk, status>>

\* The snapshot before the previous one is to go, with the segments before
\* the one the previous one became durable in.
CleanupTask == [older |-> store.older, keep |-> store.prevSeg]

\* The snapshot worker wrote, synced and verified the file, and
\* k_server_poll_snapshot took the result: raft is told, and the cleanup is
\* scheduled, with the new base not yet in any record.
SnapshotSaved ==
  /\ status = "up"
  /\ store.task # 0
  /\ disk' = [disk EXCEPT !.snaps = @ \cup {store.task}]
  /\ raft' = [raft EXCEPT !.ready = TRUE, !.dirty = TRUE]
  /\ store' = [store EXCEPT !.task = 0, !.cleanup = CleanupTask]
  /\ UNCHANGED <<posted, done, worker, status, spent>>

\* The same with a failed save: the snapshot is no longer in flight.
SnapshotFailed ==
  /\ "failed" \in Situations
  /\ status = "up"
  /\ store.task # 0
  /\ store' = [store EXCEPT !.task = 0, !.inflight = FALSE]
  /\ UNCHANGED <<raft, posted, done, worker, disk, status, spent>>

\* The files after the old snapshot and the first n segments are unlinked.
Unlinked(d, n) ==
  [d EXCEPT !.snaps = @ \ {store.cleanup.older},
            !.segs = [s \in Segments |-> IF s < n THEN << >> ELSE @[s]]]

\* k_snapshot_worker_cleanup.
Cleanup ==
  /\ status = "up"
  /\ store.cleanup # NoCleanup
  /\ disk' = Unlinked(disk, store.cleanup.keep)
  /\ store' = [store EXCEPT !.cleanup = NoCleanup]
  /\ UNCHANGED <<raft, posted, done, worker, status, spent>>

---------------------------------------------------------------------------
(* Crash and recovery *)

\* What a crash leaves of the record being written: part of it, or all of it
\* with the slot that was due unwritten, spoiled or written.
CrashOutcomes ==
  IF posted = << >> THEN {disk}
  ELSE LET rec == Head(posted)
           p   == RecordPos(rec)
       IN IF p.seg > MaxSeg THEN {disk}
          ELSE {[disk EXCEPT !.segs[p.seg] = f] :
                  f \in Torn(disk.segs[p.seg], p.off, Image(worker.gen + 1, rec))}
               \cup {Written(rec)}
               \cup (IF SlotDue(p)
                     THEN {[Written(rec) EXCEPT !.slots[SlotToWrite] = BadSlot]}
                     ELSE {})

\* A crash also stops a cleanup after any number of its steps.
Crash ==
  /\ status = "up"
  /\ spent.crashes < MaxCrashes /\ raft.hard.term + spent.crashes < MaxTroubles
  /\ \E d \in CrashOutcomes :
       \/ disk' = d
       \/ /\ store.cleanup # NoCleanup
          /\ \E n \in 0 .. store.cleanup.keep : disk' = Unlinked(d, n)
  /\ status' = "down"
  /\ spent' = [spent EXCEPT !.crashes = @ + 1]
  /\ UNCHANGED <<raft, posted, done, worker, store>>

\* k_server_open.
Open ==
  /\ status = "down"
  /\ LET r == Load(disk, NoHard) IN
       IF r.ok
       THEN /\ raft' = NewRaft(r)
            /\ worker' = NewWorker(r)
            /\ store' = NewStore(r)
            /\ posted' = << >> /\ done' = << >>
            /\ status' = "up"
       ELSE /\ status' = "refused"
            /\ UNCHANGED <<raft, worker, store, posted, done>>
  /\ UNCHANGED <<disk, spent>>

Next ==
  \/ StepDown \/ CastVote \/ AppendEntry \/ Apply
  \/ Post \/ WalWrite \/ PollWal
  \/ StartSnapshot \/ SnapshotSaved \/ SnapshotFailed \/ Cleanup
  \/ Crash \/ Open

Spec == Init /\ [][Next]_vars

---------------------------------------------------------------------------
(* Properties *)

\* Types, and the shape the files keep.
TypeOK ==
  /\ status \in {"up", "down", "refused"}
  /\ raft.base <= raft.applied /\ raft.applied <= Len(raft.log)
  /\ raft.synced \in 0 .. Len(raft.log)
  /\ raft.snap \in 0 .. raft.applied
  /\ Len(posted) + Len(done) <= MaxInflight
  /\ worker.slot \in {0, 1} /\ worker.gen \in 0 .. MaxGen
  /\ DOMAIN disk.segs = Segments /\ disk.snaps \subseteq 1 .. MaxIndex
  /\ \A s \in Segments : \A i \in 1 .. Len(disk.segs[s]) - 1 :
       disk.segs[s][i] # Stub

\* Whenever and wherever the server crashes, k_server_open finds a store it
\* accepts: no crash by itself makes recovery refuse the files.
StoreOpens == status = "down" => Load(disk, NoHard).ok

\* What recovery restores holds everything raft had been told is durable: the
\* hard state of the last reported record, and every entry up to the synced
\* frontier, in the snapshot or in the log.
NothingLost ==
  status = "down" =>
    LET r == Load(disk, NoHard) IN
    r.ok =>
      /\ RecoverHard(raft.saved, r.hard) = r.hard
      /\ r.hard.term = raft.saved.term /\ raft.saved.vote # None
           => r.hard.vote = raft.saved.vote
      /\ \A i \in 1 .. raft.synced :
           \/ i <= r.base
           \/ /\ i \in DOMAIN r.log
              /\ i > raft.base => r.log[i] = raft.log[i]

\* The terms of a restored log never decrease: a tail that was cut and
\* replaced by entries of a newer term does not come back behind them when
\* k_restore_put_entry stitches the records together.
RestoredInOrder ==
  status = "down" =>
    LET r == Load(disk, NoHard) IN
    r.ok => \A i, j \in DOMAIN r.log : i <= j => r.log[i] <= r.log[j]

\* A snapshot that is pending or in flight has a step ahead of it that ends
\* it: the worker is saving it, or raft will hand it out, or its record is in
\* the pipeline.  Otherwise no further snapshot is ever taken.
SnapshotsGoOn ==
  status = "up" /\ (store.inflight \/ raft.snap # 0) =>
    \/ store.task # 0
    \/ raft.snap # 0 /\ raft.ready
    \/ SnapshotQueued
=============================================================================
