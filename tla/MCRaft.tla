------------------------------- MODULE MCRaft -------------------------------
(* Small instances of Raft. *)
EXTENDS Raft, TLC

NodeSymmetry == Permutations(Node)

\* A message below the term a receiver has on disk, or a reply of a term in
\* which its receiver has stopped campaigning or leading for good, changes
\* nothing any more.  States that differ only in such messages are one state.
Heeds(n, m) ==
  /\ m.term >= disk[n].hard.term
  /\ m.type = "voted" /\ ~m.pre /\ m.term = disk[n].hard.term /\ m.term = node[n].term
       => node[n].role = "candidate"
  /\ m.type = "appended" /\ m.term = disk[n].hard.term /\ m.term = node[n].term
       => node[n].role \in {"candidate", "leader"}
Receivers(m) == IF m.type = "vote" THEN Peers(m.from) ELSE {m.to}
View ==
  <<node, wal, disk, {m \in msgs : \E n \in Receivers(m) : Heeds(n, m)},
    elected, chosen, spent>>

(***************************************************************************)
(* States from which a run starts where it gets interesting.  Each is      *)
(* reachable from Init; the messages on the way are delivered or lost.     *)
(***************************************************************************)
Unspent == [timeouts |-> 0, beats |-> 0, crashes |-> 0, fails |-> 0]
Saved(term, vote, log) == [hard |-> [term |-> term, vote |-> vote], log |-> log]
Leading(n, term, log, commit, match) ==
  [Restored(Saved(term, n, log)) EXCEPT
     !.role = "leader", !.commit = commit, !.next = [p \in Node |-> Len(log) + 1],
     !.match = [p \in Node |-> IF p = n THEN 0 ELSE match]]

\* Past the first election: the leader's NOOP is on every disk and committed.
BootedInit ==
  \E l \in Node :
    /\ disk = [n \in Node |-> Saved(1, l, <<1>>)]
    /\ node = [n \in Node |-> IF n = l THEN [Leading(n, 1, <<1>>, 1, 1) EXCEPT !.next = [p \in Node |-> 2]]
                              ELSE Restored(disk[n])]
    /\ wal = [n \in Node |-> IdleWal]
    /\ msgs = {}
    /\ elected = {[term |-> 1, node |-> l]}
    /\ chosen = {[index |-> 1, term |-> 1]}
    /\ spent = Unspent
BootedSpec == BootedInit /\ [][Next]_vars

\* The leader of term 1 has heard from no quorum and given up; the two others
\* campaign in term 2 and have asked for votes.  With a pipelined caller the
\* record of the leader's last step is still outstanding.
ContestInit ==
  \E l \in Node :
    /\ disk = [n \in Node |-> IF n # l THEN Saved(2, n, <<1>>)
                              ELSE Saved(1, IF Pipelined THEN l ELSE None, <<1>>)]
    /\ node = [n \in Node |-> IF n # l THEN [Restored(disk[n]) EXCEPT !.role = "candidate"]
                              ELSE [Restored(disk[n]) EXCEPT !.vote = None, !.commit = 1,
                                                             !.termWait = Pipelined]]
    /\ wal = [n \in Node |->
         IF n = l /\ Pipelined
         THEN [IdleWal EXCEPT !.posted = <<PersistView([term |-> 1, vote |-> None], <<1>>, node[l].front)>>]
         ELSE IdleWal]
    /\ msgs = {VoteRequest(n, node[n], FALSE) : n \in Peers(l)}
    /\ elected = {[term |-> 1, node |-> l]}
    /\ chosen = {[index |-> 1, term |-> 1]}
    /\ spent = Unspent
ContestSpec == ContestInit /\ [][Next]_vars

\* The leader of term 1 took a command nobody else has; another node leads
\* term 2 with the given log, its NOOP at the same index.  With a pipelined
\* caller the record with the command is still outstanding.
OverwriteInit(newLog) ==
  \E old, new \in Node :
    /\ old # new
    /\ disk = [n \in Node |-> CASE n = old -> Saved(1, old, IF Pipelined THEN <<1>> ELSE <<1, 1>>)
                               [] n = new -> Saved(2, new, newLog)
                               [] OTHER -> Saved(2, new, <<1>>)]
    /\ node = [n \in Node |->
         CASE n = old -> [Leading(n, 1, <<1, 1>>, 1, 1) EXCEPT
                            !.front = RestoredFrontier(disk[n].log), !.next = [p \in Node |-> 2]]
           [] n = new -> Leading(n, 2, newLog, 1, 0)
           [] OTHER -> Restored(disk[n])]
    /\ wal = [n \in Node |->
         IF n = old /\ Pipelined
         THEN [IdleWal EXCEPT !.posted =
                 <<PersistView([term |-> 1, vote |-> old], <<1, 1>>, node[old].front)>>]
         ELSE IdleWal]
    /\ msgs = {}
    /\ elected = {[term |-> 1, node |-> old], [term |-> 2, node |-> new]}
    /\ chosen = {[index |-> 1, term |-> 1]}
OverwriteSpec == OverwriteInit(<<1, 2>>) /\ spent = Unspent /\ [][Next]_vars

\* The leader of term 1 took two commands nobody else has and was deposed;
\* the leader of term 2 has its NOOP on a quorum and is about to learn it.
LongTailInit ==
  \E old, new \in Node :
    /\ old # new
    /\ disk = [n \in Node |-> IF n = old THEN Saved(2, None, <<1, 1, 1>>) ELSE Saved(2, new, <<1, 2>>)]
    /\ node = [n \in Node |-> IF n = new THEN Leading(n, 2, <<1, 2>>, 1, 0) ELSE Restored(disk[n])]
    /\ wal = [n \in Node |-> IdleWal]
    /\ msgs = {AppendResult(n, new, node[n], TRUE, 2, 0, 0, 0) : n \in Node \ {old, new}}
    /\ elected = {[term |-> 1, node |-> old], [term |-> 2, node |-> new]}
    /\ chosen = {[index |-> 1, term |-> 1]}

\* Fresh nodes, whose leaders send no heartbeat: elections alone.
FreshInit ==
  /\ disk = [n \in Node |-> EmptyDisk]
  /\ node = [n \in Node |-> Restored(EmptyDisk)]
  /\ wal = [n \in Node |-> IdleWal]
  /\ msgs = {} /\ elected = {} /\ chosen = {}

\* The histories in one run, each with the budget that matters to it: fresh
\* nodes have elections and a crash; an overwritten tail has a crash, a failed allocation and no more elections,
\* with a longer new log one heartbeat less and no crash; the longer old log
\* has elections alone and one heartbeat.
HistoriesInit ==
  \/ FreshInit /\ spent = [Unspent EXCEPT !.beats = MaxBeats, !.fails = MaxFails]
  \/ OverwriteInit(<<1, 2>>) /\ spent = [Unspent EXCEPT !.timeouts = MaxTimeouts]
  \/ OverwriteInit(<<1, 2, 2>>) /\ spent = [Unspent EXCEPT !.timeouts = MaxTimeouts, !.beats = 1,
                                                           !.crashes = MaxCrashes]
  \/ LongTailInit /\ spent = [Unspent EXCEPT !.beats = MaxBeats - 1, !.crashes = MaxCrashes,
                                             !.fails = MaxFails]
HistoriesSpec == HistoriesInit /\ [][Next]_vars
=============================================================================
