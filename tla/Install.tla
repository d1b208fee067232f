------------------------------ MODULE Install ------------------------------
(***************************************************************************)
(* A leader brings one follower up to date, with entries or, where its log *)
(* is already compacted, with its snapshot in chunks (raft.h,              *)
(* raft_queue_append_entries to raft_snapshot_data_provided, and the       *)
(* server's part in kserver.h).                                            *)
(*                                                                         *)
(* A third node acknowledges everything the leader appends, so the leader  *)
(* commits without the follower.  Messages overtake one another and may be *)
(* lost or duplicated.  An entry is its term; a log is kept whole, and the *)
(* prefix up to lii is what the snapshot stands for.                       *)
(***************************************************************************)
EXTENDS Integers, Sequences, FiniteSets, SequencesExt

CONSTANTS Size,          \* chunks of a snapshot
          Leaders,       \* leaders to start from: [term, log, lii]
          Followers,     \* followers to start from: [term, log, lii, applied]
          MaxLog, MaxNet, MaxEvents   \* bounds: the leader's log; messages on their way when a beat adds
                                      \* one; losses, duplicates, restarts and new leaderships

ASSUME InstallAssumption ==
  /\ Size \in Nat \ {0} /\ MaxLog \in Nat /\ MaxNet \in Nat \ {0} /\ MaxEvents \in Nat

VARIABLES lead,    \* term, log, lii, disk (the server's snapshot), commit, next, match, offset
          fol,     \* term, log, lii, commit, applied, tree, recv (index, expected), pending
          file,    \* per snapshot index, the chunks on the follower's disk
          net, events

vars == <<lead, fol, file, net, events>>

TermAt(x, i) == IF i <= x.lii THEN (IF x.lii = 0 THEN 0 ELSE x.log[x.lii]) ELSE x.log[i]

NoStream == [index |-> 0, expected |-> 0]

\* raft_step_down, seen from a follower: a stream that is being received is given up.
StepDown(x, term) == [x EXCEPT !.term = term, !.recv = NoStream, !.pending = FALSE]

Init ==
  /\ \E l \in Leaders :
       lead = [term |-> l.term, log |-> l.log, lii |-> l.lii, disk |-> l.lii, commit |-> Len(l.log),
               next |-> Len(l.log) + 1, match |-> 0, offset |-> 0]
  /\ \E f \in Followers :
       fol = [term |-> f.term, log |-> f.log, lii |-> f.lii, commit |-> f.applied, applied |-> f.applied,
              tree |-> SubSeq(f.log, 1, f.applied), recv |-> NoStream, pending |-> FALSE]
  /\ file = [i \in 0 .. MaxLog |-> {}]
  /\ net = {} /\ events = 0

Event == events < MaxEvents /\ events' = events + 1

(***************************************************************************)
(* The leader.                                                             *)
(***************************************************************************)
\* raft_queue_append_entries, where the log has what the follower needs.
SendEntries(x) ==
  LET m == [type |-> "append", term |-> x.term, prev |-> x.next - 1, prevTerm |-> TermAt(x, x.next - 1),
            entries |-> SubSeq(x.log, x.next, Len(x.log)), commit |-> x.commit]
  IN  /\ net' = net \cup {m}
      /\ lead' = [x EXCEPT !.offset = 0]

\* k_server_collect_snapshot_read: a read for a snapshot that is not the server's is discarded.
MayRead(x) == x.lii = x.disk

\* A stream that reached its end is not started again.
SendChunkOnce(x) ==
  LET m == [type |-> "chunk", term |-> x.term, index |-> x.lii, offset |-> x.offset, done |-> x.offset + 1 = Size]
  IN  IF ~MayRead(x) \/ x.offset >= Size
      THEN lead' = x /\ UNCHANGED net
      ELSE lead' = [x EXCEPT !.offset = @ + 1] /\ net' = net \cup {m}

\* Where it has not: the next chunk, if the server has that snapshot (raft_snapshot_data_provided).  A stream that reached its end starts again.
SendChunk(x) ==
  LET off == IF x.offset >= Size THEN 0 ELSE x.offset
      m == [type |-> "chunk", term |-> x.term, index |-> x.lii, offset |-> off, done |-> off + 1 = Size]
  IN  IF ~MayRead(x)
      THEN lead' = [x EXCEPT !.offset = off] /\ UNCHANGED net
      ELSE lead' = [x EXCEPT !.offset = off + 1] /\ net' = net \cup {m}

Heartbeat ==
  /\ Cardinality(net) < MaxNet
  /\ IF lead.next <= lead.lii THEN SendChunk(lead) ELSE SendEntries(lead)
  /\ UNCHANGED <<fol, file, events>>

Submit ==
  /\ Len(lead.log) < MaxLog
  /\ lead' = [lead EXCEPT !.log = Append(@, lead.term)]
  /\ UNCHANGED <<fol, file, net, events>>

\* raft_advance_commit, on the other follower's answer.
Commit ==
  /\ lead.commit < Len(lead.log)
  /\ lead' = [lead EXCEPT !.commit = Len(lead.log)]
  /\ UNCHANGED <<fol, file, net, events>>

\* raft_snapshot_persist_complete: every stream starts again.
LeaderSnapshot ==
  /\ lead.lii < lead.commit
  /\ lead' = [lead EXCEPT !.lii = lead.commit, !.disk = lead.commit, !.offset = 0]
  /\ UNCHANGED <<fol, file, net, events>>

\* The leader steps down and leads again in a later term (raft_become_leader).  A snapshot whose
\* record was on its way then becomes the server's, and not the library's.
Reelected(saved) ==
  /\ Len(lead.log) < MaxLog
  /\ lead' = [lead EXCEPT !.term = @ + 1, !.log = Append(@, lead.term + 1), !.next = Len(lead.log) + 2,
                          !.match = 0, !.offset = 0, !.disk = IF saved THEN lead.commit ELSE @]
  /\ Event /\ UNCHANGED <<fol, file, net>>

\* raft_recv_append_entries_result, refused: where to look next.
NextAfterReject(x, m) ==
  LET hi == Len(x.log)
      after == {i \in x.lii + 1 .. hi : x.log[i] > m.conflict}
      a == IF after = {} THEN hi + 1 ELSE CHOOSE i \in after : \A j \in after : i <= j
      nx == IF a > x.lii + 1 /\ x.log[a - 1] = m.conflict THEN a ELSE m.first
  IN  IF m.first > 0 THEN (IF nx > hi + 1 THEN hi + 1 ELSE nx)
      ELSE IF m.hint > 0 THEN m.hint
      ELSE IF x.next > 1 THEN x.next - 1 ELSE x.next

Progress(x, i) == IF i >= x.match THEN [x EXCEPT !.match = i, !.next = i + 1] ELSE x

\* The result of a stream counts for the snapshot the leader has now.
LeaderRecvInflated(x, m) ==
  IF m.term < x.term THEN x
  ELSE CASE m.type = "ack" -> Progress(x, IF m.last < Len(x.log) THEN m.last ELSE Len(x.log))
         [] m.type = "reject" -> [x EXCEPT !.next = NextAfterReject(x, m)]
         [] m.type = "installed" -> [Progress(x, x.lii) EXCEPT !.offset = 0]

\* raft_recv_append_entries_result and raft_recv_install_snapshot_result.
LeaderRecv(x, m) ==
  IF m.term < x.term THEN x
  ELSE CASE m.type = "ack" -> Progress(x, IF m.last < Len(x.log) THEN m.last ELSE Len(x.log))
         [] m.type = "reject" -> [x EXCEPT !.next = NextAfterReject(x, m)]
         [] m.type = "installed" -> [Progress(x, m.last) EXCEPT !.offset = 0]

(***************************************************************************)
(* The follower.                                                           *)
(***************************************************************************)
Ack(x, last) == [type |-> "ack", term |-> x.term, last |-> last]

\* reply_fail: the first index it holds of the conflicting term.
Reject(x, prev, hint) ==
  LET run == {i \in x.lii + 1 .. prev : \A j \in i .. prev : x.log[j] = x.log[prev]}
      known == prev > x.lii /\ prev <= Len(x.log)
  IN  [type |-> "reject", term |-> x.term,
       hint |-> IF hint > 0 THEN hint ELSE IF prev > Len(x.log) THEN Len(x.log) + 1 ELSE prev,
       conflict |-> IF known THEN x.log[prev] ELSE 0,
       first |-> IF known THEN CHOOSE i \in run : \A j \in run : i <= j ELSE 0]

\* The term before the entries is not compared.
RecvAppendTrusting(x, m) ==
  LET n == Len(m.entries)
      known == IF m.commit < m.prev + n THEN m.commit ELSE m.prev + n
  IN  IF m.prev > Len(x.log) THEN <<x, {Reject(x, m.prev, 0)}>>
      ELSE IF m.prev < x.lii THEN <<x, {Reject(x, m.prev, x.lii + 1)}>>
      ELSE <<[x EXCEPT !.log = SubSeq(@, 1, m.prev) \o m.entries, !.commit = IF known > @ THEN known ELSE @],
             {Ack(x, m.prev + n)}>>

\* raft_recv_append_entries on a follower of the message's term: its new state and its answer.
RecvAppend(x, m) ==
  LET n == Len(m.entries)
      D == {i \in m.prev + 1 .. m.prev + n : i <= x.lii \/ i > Len(x.log) \/ x.log[i] # m.entries[i - m.prev]}
      log == IF D = {} THEN x.log ELSE SubSeq(x.log, 1, m.prev) \o m.entries
      known == IF m.commit < m.prev + n THEN m.commit ELSE m.prev + n
  IN  IF m.prev > Len(x.log) THEN <<x, {Reject(x, m.prev, 0)}>>
      ELSE IF m.prev > 0 /\ m.prev < x.lii THEN <<x, {Reject(x, m.prev, x.lii + 1)}>>
      ELSE IF m.prev > 0 /\ TermAt(x, m.prev) # m.prevTerm THEN <<x, {Reject(x, m.prev, 0)}>>
      ELSE IF \E i \in D : i <= x.lii THEN <<x, {Reject(x, m.prev, x.lii + 1)}>>
      ELSE <<[x EXCEPT !.log = log, !.commit = IF known > @ THEN known ELSE @],
             {Ack(x, m.prev + n)}>>

Installed(x) == [type |-> "installed", term |-> x.term, last |-> x.lii]

\* A new stream goes on where the old one was.
RecvChunkGoesOn(x, m) ==
  LET y == [x EXCEPT !.recv.index = m.index]
  IN  IF m.index < x.lii THEN <<x, {Installed(x)}>>
      ELSE IF m.offset # y.recv.expected THEN <<y, {}>>
      ELSE <<[y EXCEPT !.recv.expected = m.offset + 1, !.pending = @ \/ m.done], {}>>

\* raft_recv_install_snapshot on a follower of the message's term.
RecvChunk(x, m) ==
  LET y == IF x.recv.index = m.index THEN x
           ELSE [x EXCEPT !.recv = [index |-> m.index, expected |-> 0], !.pending = FALSE]
  IN  IF m.index < x.lii THEN <<x, {Installed(x)}>>
      ELSE IF m.offset # y.recv.expected THEN <<y, {}>>
      ELSE <<[y EXCEPT !.recv.expected = m.offset + 1, !.pending = @ \/ m.done], {}>>

FollowerRecv(x, m) ==
  LET y == IF m.term > x.term THEN StepDown(x, m.term) ELSE x
  IN  IF m.term < x.term THEN <<x, IF m.type = "chunk" THEN {Installed(x)} ELSE {}>>
      ELSE IF m.type = "append" THEN RecvAppend(y, m) ELSE RecvChunk(y, m)

\* The entries offered by raft_enqueue_apply, applied: none beyond a snapshot that waits.
Applied(x) ==
  LET upto == IF x.pending /\ x.recv.index < x.commit THEN x.recv.index ELSE x.commit
  IN  IF upto <= x.applied THEN x
      ELSE [x EXCEPT !.tree = @ \o SubSeq(x.log, x.applied + 1, upto), !.applied = upto]

\* k_snapshot_load_file, then raft_apply_complete: the log keeps its tail if it has the boundary.
Loaded(x, snapshot) ==
  LET i == x.recv.index
      same == Len(x.log) >= i /\ TermAt(x, i) = snapshot[i]
  IN  [x EXCEPT !.tree = snapshot, !.lii = i, !.log = IF same THEN @ ELSE snapshot,
                !.applied = IF @ < i THEN i ELSE @, !.commit = IF @ < i THEN i ELSE @,
                !.recv = NoStream, !.pending = FALSE]

\* k_server_process_bundle_live: entries are applied, then a received snapshot replaces the tree.
Drive ==
  LET x == Applied(fol)
      y == Loaded(x, SubSeq(lead.log, 1, x.recv.index))
  IN  /\ fol.pending \/ x # fol
      /\ fol' = IF fol.pending THEN y ELSE x
      /\ net' = IF fol.pending THEN net \cup {Installed(y)} ELSE net
      /\ UNCHANGED <<lead, file, events>>

\* A snapshot of its own.
FollowerSnapshot ==
  /\ fol.lii < fol.applied /\ ~fol.pending
  /\ fol' = [fol EXCEPT !.lii = fol.applied]
  /\ UNCHANGED <<lead, file, net, events>>

\* A restart from the snapshot and the log on disk.
Restart ==
  /\ Event
  /\ fol' = [fol EXCEPT !.commit = fol.lii, !.applied = fol.lii, !.tree = SubSeq(fol.log, 1, fol.lii),
                        !.recv = NoStream, !.pending = FALSE]
  /\ UNCHANGED <<lead, file, net>>

(***************************************************************************)
(* Messages.  k_server_peer_frame writes a chunk to its place in the file  *)
(* before the library looks at it.                                         *)
(***************************************************************************)
Key(m) == IF m.type = "chunk" THEN m.offset ELSE 0
Deliver(type, key, again) ==
  \E m \in net :
    LET rest == IF again THEN net ELSE net \ {m}
        r == FollowerRecv(fol, m)
    IN  /\ m.type = type /\ Key(m) = key
        /\ IF again THEN Event ELSE UNCHANGED events
        /\ IF type \in {"append", "chunk"}
           THEN fol' = r[1] /\ net' = rest \cup r[2] /\ UNCHANGED lead
           ELSE lead' = LeaderRecv(lead, m) /\ net' = rest /\ UNCHANGED fol
        /\ file' = IF type = "chunk" THEN [file EXCEPT ![m.index] = @ \cup {m.offset}] ELSE file

Lose ==
  /\ Event
  /\ \E m \in net : net' = net \ {m}
  /\ UNCHANGED <<lead, fol, file>>

Types == {"append", "chunk", "ack", "reject", "installed"}
Next ==
  \/ Heartbeat \/ Submit \/ Commit \/ LeaderSnapshot \/ \E saved \in BOOLEAN : Reelected(saved)
  \/ Drive \/ FollowerSnapshot \/ Restart
  \/ \E type \in Types, key \in 0 .. Size - 1, again \in BOOLEAN : Deliver(type, key, again)
  \/ Lose

\* The leader beats, the server's rounds go on, and what is not lost arrives.
Spec == Init /\ [][Next]_vars
FairSpec ==
  /\ Spec /\ WF_vars(Heartbeat) /\ WF_vars(Drive) /\ WF_vars(Commit)
  /\ \A type \in Types, key \in 0 .. Size - 1 : WF_vars(Deliver(type, key, FALSE))

(***************************************************************************)
(* Properties                                                              *)
(***************************************************************************)
\* What the follower takes for committed is what the leader committed, through conflicting tails,
\* snapshots that replace a log and restarts.
CommittedAgrees ==
  /\ fol.commit <= Len(fol.log) /\ fol.applied <= fol.commit /\ fol.lii <= fol.applied
  /\ IsPrefix(SubSeq(fol.log, 1, fol.commit), SubSeq(lead.log, 1, lead.commit))

\* The leader counts for the follower only what the follower's log has (raft_advance_commit relies on it).
MatchIsHeld == IsPrefix(SubSeq(lead.log, 1, lead.match), fol.log)

\* A snapshot about to be loaded is on disk from its first chunk to its last.
FileWhole == fol.pending => file[fol.recv.index] = 0 .. Size - 1

\* Whatever was lost, dropped or restarted, the follower catches up, unless the leader's server and
\* its raft library disagree on which snapshot there is, or the leader streams a snapshot older than
\* what it already knows the follower to hold.
CaughtUp == lead.match = Len(lead.log)
Discarding == ~MayRead(lead)
Restreaming == lead.next <= lead.lii /\ lead.lii < lead.match
CatchesUp == <>[](CaughtUp \/ Discarding \/ Restreaming)

\* raft_queue_append_entries: "the install result advances match_index/next_index to break out of the
\* snapshot path": a stream that is repeated ends.
StreamEnds == <>[](CaughtUp \/ Discarding)

\* k_server_collect_snapshot_read: "Discard it gracefully -- the leader will issue a fresh InstallSnapshot
\* for the new index": a discarded read does not keep the follower behind.
DiscardHeals == <>[](CaughtUp \/ Restreaming)

\* k_server_process_bundle_live: "Keep server->last_applied aligned with the tree": the tree is the
\* result of the entries that count as applied.
TreeIsApplied == fol.tree = SubSeq(fol.log, 1, fol.applied)
=============================================================================
