------------------------------ MODULE Persist ------------------------------
(***************************************************************************)
(* One node's durable state: the log and the hard state (term, vote) that  *)
(* raft.h keeps in memory, the persist views it hands to its caller, the   *)
(* caller's WAL pipeline (k_server_drive posts a record, the WAL worker    *)
(* writes and syncs it, k_server_poll_wal reports it back), and a crash    *)
(* followed by recovery.                                                   *)
(*                                                                         *)
(* persist_gen only ever meets persist_gen + 1 in a comparison, so the     *)
(* generation gates are kept as the Boolean "one completion is still       *)
(* awaited".                                                               *)
(*                                                                         *)
(* Two constants describe the caller.  A caller that fsyncs inside the     *)
(* round that handed it the view (tests/raft_cluster_fuzz.c by default)    *)
(* never lets the node run with a record outstanding: both are FALSE.      *)
(* kserver keeps receiving while up to K_WAL_INFLIGHT_MAX records are      *)
(* outstanding: both are TRUE.                                             *)
(***************************************************************************)
EXTENDS Durable

CONSTANTS Entry,          \* log entries
          Vote,           \* what voted_for can hold, no vote included
          NoVote,
          MaxTerm,        \* bound on the term
          MaxLog,         \* bound on the log's length
          MaxInflight,    \* K_WAL_INFLIGHT_MAX
          CutInFlight,    \* may the log be cut with a record outstanding?
          HardInFlight    \* may term or vote change with a record outstanding?

ASSUME PersistAssumption ==
  /\ NoVote \in Vote
  /\ MaxTerm \in Nat
  /\ MaxLog \in Nat
  /\ MaxInflight \in Nat \ {0}
  /\ CutInFlight \in BOOLEAN
  /\ HardInFlight \in BOOLEAN

VARIABLES hard,      \* [term, vote]: current_term, voted_for
          log,       \* the in-memory log
          front,     \* the frontier: durable_index, durable_confirm, synced
          dirty,     \* persist_needed
          wait,      \* the last change of term or vote awaits a completion
          posted,    \* records handed to the WAL worker, oldest first
          done,      \* durable indexes of written records, not yet reported
          disk       \* what recovery would read

vars == <<hard, log, front, dirty, wait, posted, done, disk>>

HardState == [term : 0 .. MaxTerm, vote : Vote]
Log == {s \in Seq(Entry) : Len(s) <= MaxLog}
Record ==
  {r \in [hard : HardState, from : Nat \ {0}, entries : Log, durable : Nat] :
     r.entries # << >> => r.from + Len(r.entries) <= MaxLog + 1}
Disk == [hard : HardState, log : Log]

Idle == posted = << >> /\ done = << >>

Init ==
  /\ hard = [term |-> 0, vote |-> NoVote]
  /\ log = << >>
  /\ front = RestoredFrontier(<< >>)
  /\ dirty = FALSE
  /\ wait = FALSE
  /\ posted = << >>
  /\ done = << >>
  /\ disk = [hard |-> hard, log |-> << >>]

\* The caller's discipline: what may happen with a record outstanding.
MayChangeHard == HardInFlight \/ Idle
MayCut == CutInFlight \/ Idle

\* Adopt a term and a vote; a change is latched for the next completion.
SetHard(h) ==
  /\ hard' = h
  /\ wait' = (wait \/ h # hard)

\* The hard states a message of a higher term makes a node step down to.
Deposed == {h \in HardState : h.term > hard.term /\ h.vote = NoVote}

\* Wrong variant: the change is latched but never handed to the caller.
ChangeHardUnsaved ==
  /\ MayChangeHard
  /\ \E h \in HardState :
       /\ h.term >= hard.term
       /\ h # hard
       /\ SetHard(h)
  /\ UNCHANGED <<log, front, dirty, posted, done, disk>>

\* A step that changes the term or the vote and nothing else: raft_step_down,
\* raft_become_candidate, a granted vote.
ChangeHard ==
  /\ MayChangeHard
  /\ \E h \in HardState :
       /\ h.term >= hard.term
       /\ h # hard
       /\ SetHard(h)
  /\ dirty' = TRUE
  /\ UNCHANGED <<log, front, posted, done, disk>>

\* A leader appends: its NOOP or a client's command.
LeaderAppend ==
  /\ Len(log) < MaxLog
  /\ \E e \in Entry : log' = Append(log, e)
  /\ dirty' = TRUE
  /\ UNCHANGED <<hard, front, wait, posted, done, disk>>

\* raft_recv_append_entries with a new entry: the message's term is adopted
\* when it is higher, the log is cut below a conflict and the frontier
\* clamped, and the leader's entry is appended, all in one handler.
FollowerAppend ==
  /\ \E h \in {hard} \cup Deposed :
       /\ h = hard \/ MayChangeHard
       /\ SetHard(h)
  /\ \E i \in 0 .. Len(log), e \in Entry :
       /\ i < MaxLog
       /\ i = Len(log) \/ MayCut
       /\ log' = Append(Truncate(log, i), e)
       /\ front' = IF i < Len(log) THEN Clamp(front, i) ELSE front
  /\ dirty' = TRUE
  /\ UNCHANGED <<posted, done, disk>>

\* A leader abandons a joint configuration: it cuts its own tail, moves to
\* the next term and steps down; nothing is appended.
AbandonTail ==
  /\ MayCut /\ MayChangeHard
  /\ hard.term < MaxTerm
  /\ SetHard([term |-> hard.term + 1, vote |-> NoVote])
  /\ \E i \in 0 .. Len(log) - 1 :
       /\ log' = Truncate(log, i)
       /\ front' = Clamp(front, i)
  /\ dirty' = TRUE
  /\ UNCHANGED <<posted, done, disk>>

\* k_server_drive with room in the pipeline: raft_advance hands out the view
\* and clears persist_needed, the bundle is posted to the WAL worker.
HandOff ==
  /\ dirty
  /\ Len(posted) + Len(done) < MaxInflight
  /\ posted' = Append(posted, PersistView(hard, log, front))
  /\ dirty' = FALSE
  /\ UNCHANGED <<hard, log, front, wait, done, disk>>

\* The worker appends the oldest record and syncs it.
WalWrite ==
  /\ posted # << >>
  /\ disk' = Recovered(disk, Head(posted))
  /\ posted' = Tail(posted)
  /\ done' = Append(done, Head(posted).durable)
  /\ UNCHANGED <<hard, log, front, dirty, wait>>

\* k_server_poll_wal reports the oldest written record.
PersistComplete ==
  /\ done # << >>
  /\ front' = Report(front, Head(done), Len(log))
  /\ wait' = FALSE
  /\ done' = Tail(done)
  /\ UNCHANGED <<hard, log, dirty, posted, disk>>

\* Wrong variant: recovery restores the log and starts from the first term.
RestartWithoutTerm ==
  /\ hard' = [term |-> 0, vote |-> NoVote]
  /\ log' = disk.log
  /\ front' = RestoredFrontier(disk.log)
  /\ dirty' = FALSE
  /\ wait' = FALSE
  /\ posted' = << >>
  /\ done' = << >>
  /\ UNCHANGED disk

\* A crash loses everything but the disk; raft_create restores the node.
Restart ==
  /\ hard' = disk.hard
  /\ log' = disk.log
  /\ front' = RestoredFrontier(disk.log)
  /\ dirty' = FALSE
  /\ wait' = FALSE
  /\ posted' = << >>
  /\ done' = << >>
  /\ UNCHANGED disk

Next ==
  \/ ChangeHard \/ LeaderAppend \/ FollowerAppend \/ AbandonTail
  \/ HandOff \/ WalWrite \/ PersistComplete \/ Restart

\* The event loop keeps driving, the worker keeps writing: neither waits for
\* anything but its own queue.
Fairness == WF_vars(HandOff) /\ WF_vars(WalWrite) /\ WF_vars(PersistComplete)

Spec == Init /\ [][Next]_vars
FairSpec == Spec /\ Fairness
-----------------------------------------------------------------------------
\* Every variable stays in its range.
TypeOK ==
  /\ hard \in HardState
  /\ log \in Log
  /\ front \in Frontier
  /\ dirty \in BOOLEAN
  /\ wait \in BOOLEAN
  /\ posted \in Seq(Record)
  /\ done \in Seq(Nat)
  /\ disk \in Disk

\* The first k entries of the log are on disk as they are in memory.
OnDisk(k) ==
  /\ k <= Len(log)
  /\ k <= Len(disk.log)
  /\ \A i \in 1 .. k : disk.log[i] = log[i]

\* The frontier is truthful: whatever durable_index (the leader's own vote
\* for a commit), durable_confirm (what a follower may acknowledge) and
\* persist_synced_index (what the next record leaves out) claim is on disk
\* and is what the log holds now.
FrontierOnDisk ==
  /\ OnDisk(front.index)
  /\ OnDisk(front.confirm)
  /\ OnDisk(front.synced)

\* No reply leaves before the term and the vote it advertises are durable:
\* once the generation gate of the last change is open, the disk has it.
ReplyDurable == ~wait => disk.hard = hard

\* Nothing is left out of the WAL: when there is nothing to persist and no
\* record outstanding, recovery gives back the hard state and a log that
\* starts with the one in memory.
NothingSkipped ==
  ~dirty /\ Idle =>
    /\ disk.hard = hard
    /\ OnDisk(Len(log))

\* The durability contract between raft.h and its caller, for every state: what the frontier
\* and an open gate claim is on disk, and a node at rest has left nothing out.
DurabilityContract == FrontierOnDisk /\ ReplyDurable /\ NothingSkipped

\* A term the node may have told anyone about, its gate being open, is never
\* forgotten: not by a later step and not by a crash and the recovery.
AdvertisedTermKept == [][~wait => hard'.term >= hard.term]_vars

\* A latched reply is released: the completion it waits for always comes,
\* because the change that latched it also raised persist_needed.
ReplyLeaves == wait ~> ~wait
-----------------------------------------------------------------------------
(***************************************************************************)
(* The inductive strengthening of the invariants above.                    *)
(***************************************************************************)

\* Terms grow from the disk through the pipeline to memory.
TermsInOrder ==
  /\ disk.hard.term <= hard.term
  /\ \A i \in 1 .. Len(posted) :
       /\ disk.hard.term <= posted[i].hard.term
       /\ posted[i].hard.term <= hard.term
       /\ \A j \in i .. Len(posted) : posted[i].hard.term <= posted[j].hard.term

\* A clean node's hard state is the one of the last record.
LastRecordHard ==
  ~dirty => hard = IF posted = << >> THEN disk.hard ELSE posted[Len(posted)].hard

\* With term and vote fixed while a record is outstanding, every record
\* outstanding carries them, so any completion may open the gate.
GateInv ==
  /\ \A i \in 1 .. Len(posted) : posted[i].hard = hard
  /\ done # << >> => disk.hard = hard
  /\ ReplyDurable

\* A record outstanding holds a piece of the log as it is now that starts at
\* or below the first index not known to be synced and reaches at least as
\* far as every report still to come before its own.
RecordCurrent(r) ==
  IF r.entries = << >> THEN r.durable = 0
  ELSE /\ r.from <= front.synced + 1
       /\ r.durable = r.from - 1 + Len(r.entries)
       /\ r.durable <= Len(log)
       /\ \A k \in 1 .. Len(r.entries) : r.entries[k] = log[r.from - 1 + k]
       /\ front.index <= r.durable /\ front.confirm <= r.durable /\ front.synced <= r.durable
       /\ \A j \in 1 .. Len(done) : done[j] <= r.durable

\* With the log never cut while a record is outstanding, the frontier, the
\* reports to come and the records to be written agree with the log.
FrontierInv ==
  /\ FrontierOnDisk
  /\ \A i \in 1 .. Len(done) : OnDisk(done[i])
  /\ \A i \in 1 .. Len(posted) :
       /\ RecordCurrent(posted[i])
       /\ \A j \in i .. Len(posted) :
            posted[j].entries # << >> => posted[i].durable <= posted[j].durable

\* A clean node's whole log is synced, or a report still to come covers it.
CoverInv ==
  ~dirty => \/ front.synced = Len(log)
            \/ \E i \in 1 .. Len(done) : done[i] = Len(log)
            \/ \E i \in 1 .. Len(posted) : posted[i].durable = Len(log)

IndInv ==
  /\ TypeOK
  /\ TermsInOrder
  /\ LastRecordHard
  /\ ~HardInFlight => GateInv
  /\ ~CutInFlight => FrontierInv /\ CoverInv
=============================================================================
