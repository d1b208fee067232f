-------------------------------- MODULE Raft --------------------------------
(***************************************************************************)
(* The replication protocol of raft.h on a fixed set of voters, each node  *)
(* driven by a caller that persists for it.                                *)
(*                                                                         *)
(* node[n] is a raft_ctx.  A handler of raft.h is an operator from a       *)
(* raft_ctx (and a message) to the raft_ctx it leaves and the messages it  *)
(* queues, an action applies one handler to one node.  An entry is its     *)
(* term: a leader writes at most one entry per index and term.             *)
(*                                                                         *)
(* The generation gates compare persist_gen with a value that was          *)
(* persist_gen + 1, so each is a Boolean "a completion is awaited" that    *)
(* any completion clears.  Timers are choices: an election timeout, a due  *)
(* heartbeat or a leader that heard from no quorum may come at any         *)
(* raft_advance, and the pre-vote grace period is a request that is not    *)
(* delivered.  The network keeps every message ever sent: it loses,        *)
(* duplicates and reorders them freely.                                    *)
(*                                                                         *)
(* Left out here: membership changes, snapshots, reads and leadership      *)
(* transfer.                                                               *)
(***************************************************************************)
EXTENDS Durable, FiniteSets, FiniteSetsExt

CONSTANTS Node,          \* the voters
          None,          \* no node
          Pipelined,     \* does the caller let a node run while it persists?
          MaxInflight,   \* K_WAL_INFLIGHT_MAX
          MaxTerm,       \* RAFT_TERM_MAX
          MaxLog,        \* bound: a leader takes no command beyond it
          ChunkSize,     \* log_chunk_size: what one AppendEntries may carry
          MaxTimeouts,   \* bound on election timeouts, a leader's included
          MaxBeats,      \* bound on rounds of heartbeats
          MaxCrashes,    \* bound on crashes
          MaxFails       \* bound on failed allocations

ASSUME RaftAssumption ==
  /\ IsFiniteSet(Node) /\ Cardinality(Node) >= 2 /\ None \notin Node
  /\ Pipelined \in BOOLEAN
  /\ MaxInflight \in Nat \ {0} /\ ChunkSize \in Nat \ {0}
  /\ MaxTerm \in Nat /\ MaxLog \in Nat /\ MaxTimeouts \in Nat /\ MaxBeats \in Nat
  /\ MaxCrashes \in Nat /\ MaxFails \in Nat

VARIABLES node,      \* the raft_ctx of each node
          wal,       \* per node: records posted, and reports of written ones
          disk,      \* per node: what recovery would read
          msgs,      \* every message sent so far
          elected,   \* history: who became leader in which term
          chosen,    \* history: which entry was committed at which index
          spent      \* how much of each bound is used up

vars == <<node, wal, disk, msgs, elected, chosen, spent>>

Peers(n) == Node \ {n}
IsQuorum(S) == Cardinality(S) >= Cardinality(Node) \div 2 + 1

TermAt(log, i) == IF i \in 1 .. Len(log) THEN log[i] ELSE 0
LastTerm(log) == TermAt(log, Len(log))

NoAck == [on |-> FALSE, to |-> None, wait |-> FALSE, last |-> -1, confirmed |-> 0]
NoReject ==
  [on |-> FALSE, to |-> None, wait |-> FALSE, hint |-> 0, last |-> 0,
   conflictTerm |-> 0, conflictFirst |-> 0]
Nothing == [p \in Node |-> 0]

\* Wrong variant: recovery forgets whom the node voted for.
RestoredWithoutVote(d) ==
  [term |-> d.hard.term, vote |-> None, role |-> "follower", preVote |-> FALSE,
   votes |-> {}, preVotes |-> {}, log |-> d.log, commit |-> 0,
   next |-> Nothing, match |-> Nothing, front |-> RestoredFrontier(d.log),
   dirty |-> FALSE, termWait |-> FALSE,
   grant |-> None, grantWait |-> FALSE, ask |-> FALSE, askWait |-> FALSE,
   ack |-> NoAck, reject |-> NoReject]

\* raft_create from what is on disk (an empty disk is a fresh node).
Restored(d) ==
  [term |-> d.hard.term, vote |-> d.hard.vote, role |-> "follower", preVote |-> FALSE,
   votes |-> {}, preVotes |-> {}, log |-> d.log, commit |-> 0,
   next |-> Nothing, match |-> Nothing, front |-> RestoredFrontier(d.log),
   dirty |-> FALSE, termWait |-> FALSE,
   grant |-> None, grantWait |-> FALSE, ask |-> FALSE, askWait |-> FALSE,
   ack |-> NoAck, reject |-> NoReject]

EmptyDisk == [hard |-> [term |-> 0, vote |-> None], log |-> << >>]
IdleWal == [posted |-> << >>, done |-> << >>]

Init ==
  /\ node = [n \in Node |-> Restored(EmptyDisk)]
  /\ wal = [n \in Node |-> IdleWal]
  /\ disk = [n \in Node |-> EmptyDisk]
  /\ msgs = {}
  /\ elected = {}
  /\ chosen = {}
  /\ spent = [timeouts |-> 0, beats |-> 0, crashes |-> 0, fails |-> 0]
-----------------------------------------------------------------------------
(* Messages. *)

VoteRequest(n, s, pre) ==
  [type |-> "vote", from |-> n, term |-> s.term, lastIndex |-> Len(s.log),
   lastTerm |-> LastTerm(s.log), pre |-> pre]
VoteResult(n, to, s, pre) ==
  [type |-> "voted", from |-> n, to |-> to, term |-> s.term, pre |-> pre]
AppendResult(n, to, s, ok, last, hint, ct, cfi) ==
  [type |-> "appended", from |-> n, to |-> to, term |-> s.term, ok |-> ok, last |-> last,
   hint |-> hint, conflictTerm |-> ct, conflictFirst |-> cfi]

\* raft_queue_append_entries: what the peer lacks, up to the end of the log
\* chunk its first entry is in, or nothing when memory is short.
AppendEntries(n, p, s, short) ==
  LET first == s.next[p]
      upTo == Lesser(Len(s.log), first + ChunkSize - 1 - ((first - 1) % ChunkSize))
  IN  [type |-> "append", from |-> n, to |-> p, term |-> s.term, prev |-> first - 1,
       prevTerm |-> TermAt(s.log, first - 1),
       entries |-> IF short THEN << >> ELSE SubSeq(s.log, first, upTo),
       commit |-> s.commit]
-----------------------------------------------------------------------------
(* The transitions of one raft_ctx. *)

\* raft_step_down: a new term, or the same one when a leader gives up.
StepDown(s, term) ==
  [s EXCEPT !.term = term, !.dirty = TRUE, !.termWait = TRUE, !.role = "follower",
            !.vote = None, !.preVote = FALSE, !.votes = {}, !.preVotes = {},
            !.grant = None, !.grantWait = FALSE, !.ask = FALSE, !.askWait = FALSE,
            !.ack = NoAck, !.next = Nothing, !.match = Nothing]

\* raft_become_candidate.  A pending vote response is cancelled, a pending
\* ACK or rejection is not.
BecomeCandidate(n, s) ==
  IF s.term >= MaxTerm THEN [s EXCEPT !.preVote = FALSE, !.preVotes = {}]
  ELSE [s EXCEPT !.role = "candidate", !.term = s.term + 1, !.vote = n,
                 !.grant = None, !.grantWait = FALSE, !.dirty = TRUE, !.termWait = TRUE,
                 !.preVote = FALSE, !.votes = {}, !.preVotes = {},
                 !.ask = TRUE, !.askWait = TRUE]

\* raft_start_pre_vote; the request itself is broadcast by the caller.
StartPreVote(s) ==
  [s EXCEPT !.preVote = TRUE, !.preVotes = {}, !.ask = FALSE, !.askWait = FALSE]

\* raft_become_leader, and its way out when the NOOP cannot be appended.
BecomeLeader(s) ==
  LET log == Append(s.log, s.term) IN
  [s EXCEPT !.log = log, !.role = "leader", !.preVote = FALSE, !.dirty = TRUE,
            !.votes = {}, !.preVotes = {},
            !.next = [p \in Node |-> Len(log) + 1], !.match = Nothing]
RevertToFollower(s) ==
  [s EXCEPT !.role = "follower", !.vote = None, !.preVote = FALSE, !.votes = {},
            !.preVotes = {}]

\* Wrong variant: the leader counts itself for its whole log.
HoldersInMemory(n, s, i) == {n} \cup {p \in Peers(n) : s.match[p] >= i}

\* raft_advance_commit: entries of older terms are passed over, the first of
\* the current term that no quorum holds stops the walk.  The leader counts
\* itself only for what it knows to be on its own disk.
Holders(n, s, i) ==
  (IF s.front.index >= i THEN {n} ELSE {}) \cup {p \in Peers(n) : s.match[p] >= i}
AdvanceCommit(n, s) ==
  LET own == {i \in s.commit + 1 .. Len(s.log) : s.log[i] = s.term}
      held == {i \in own : \A j \in own : j <= i => IsQuorum(Holders(n, s, j))}
  IN  [s EXCEPT !.commit = Max({s.commit} \cup held)]

\* raft_persist_complete.
Complete(n, s, durable) ==
  LET done == [s EXCEPT !.front = Report(s.front, durable, Len(s.log)),
                        !.termWait = FALSE, !.grantWait = FALSE, !.askWait = FALSE,
                        !.ack.wait = FALSE, !.reject.wait = FALSE]
  IN  IF s.role = "leader" THEN AdvanceCommit(n, done) ELSE done

\* raft_log_cut.
Cut(s, i) ==
  IF i < Len(s.log)
  THEN [s EXCEPT !.log = Truncate(s.log, i), !.front = Clamp(s.front, i),
                 !.ack.last = Lesser(s.ack.last, i)]
  ELSE s

\* The deferred replies raft_advance lets go: a granted vote, the ACK of what
\* is both verified and durable, a rejection, a candidate's request.
AckReport(s) == Lesser(Lesser(s.front.confirm, s.ack.confirmed), Len(s.log))
ReleasedMsgs(n, s) ==
  (IF s.grant # None /\ ~s.grantWait THEN {VoteResult(n, s.grant, s, FALSE)} ELSE {})
  \cup
  (IF s.ack.on /\ ~s.ack.wait /\ AckReport(s) > s.ack.last
   THEN {AppendResult(n, s.ack.to, s, TRUE, AckReport(s), 0, 0, 0)} ELSE {})
  \cup
  (IF s.reject.on /\ ~s.reject.wait
   THEN {AppendResult(n, s.reject.to, s, FALSE, s.reject.last, s.reject.hint,
                      s.reject.conflictTerm, s.reject.conflictFirst)} ELSE {})
  \cup
  (IF s.ask /\ ~s.askWait /\ s.role = "candidate" THEN {VoteRequest(n, s, FALSE)} ELSE {})
Released(s) ==
  LET acked == [s.ack EXCEPT !.last = Larger(s.ack.last, AckReport(s))]
  IN  [s EXCEPT !.grant = IF s.grantWait THEN s.grant ELSE None,
                !.ack = IF ~s.ack.on \/ s.ack.wait THEN s.ack
                        ELSE IF s.front.confirm >= s.ack.confirmed THEN NoAck
                        ELSE acked,
                !.reject = IF s.reject.wait THEN s.reject ELSE NoReject,
                !.ask = s.ask /\ (s.askWait \/ s.role # "candidate")]
-----------------------------------------------------------------------------
(* The steps of the system. *)

\* A record outstanding blocks a node whose caller persists synchronously.
MayRun(n) == Pipelined \/ wal[n] = IdleWal

\* Every action ends here: node n becomes s and queues out; what it newly
\* commits, and the leadership it takes, go into the histories.
Become(n, s, out) ==
  /\ node' = [node EXCEPT ![n] = s]
  /\ msgs' = msgs \cup out
  /\ elected' = IF s.role = "leader" THEN elected \cup {[term |-> s.term, node |-> n]} ELSE elected
  /\ chosen' = chosen \cup
       {[index |-> i, term |-> s.log[i]] : i \in node[n].commit + 1 .. s.commit}

NoneSpent == UNCHANGED spent
AllocFails ==
  /\ spent.fails < MaxFails
  /\ spent' = [spent EXCEPT !.fails = @ + 1]

\* Wrong variant: the longer log is taken for the later one.
UpToDateByLength(m, log) == m.lastIndex >= Len(log)

\* raft_recv_request_vote.
UpToDate(m, log) ==
  \/ m.lastTerm > LastTerm(log)
  \/ m.lastTerm = LastTerm(log) /\ m.lastIndex >= Len(log)
RecvRequestVote(n, m) ==
  /\ m.type = "vote" /\ m.from # n /\ MayRun(n)
  /\ m.term >= node[n].term
  /\ LET s == IF m.term > node[n].term THEN StepDown(node[n], m.term) ELSE node[n]
         grants == (m.pre \/ s.vote \in {None, m.from}) /\ UpToDate(m, s.log)
     IN  CASE ~grants -> Become(n, s, {})
           [] grants /\ m.pre -> Become(n, s, {VoteResult(n, m.from, s, TRUE)})
           [] grants /\ ~m.pre ->
                Become(n, [s EXCEPT !.vote = m.from, !.dirty = TRUE,
                                    !.grant = m.from, !.grantWait = TRUE], {})
  /\ NoneSpent /\ UNCHANGED <<wal, disk>>

\* raft_recv_request_vote_result: a higher term, a pre-vote, a vote.
RecvVoteResult(n, m) ==
  /\ m.type = "voted" /\ m.to = n /\ MayRun(n)
  /\ node[n].preVote \/ node[n].role = "candidate"
  /\ \/ /\ m.term > node[n].term
        /\ Become(n, StepDown(node[n], m.term), {})
        /\ NoneSpent
     \/ /\ m.term = node[n].term /\ m.pre /\ node[n].preVote
        /\ LET s == [node[n] EXCEPT !.preVotes = @ \cup {m.from}]
           IN  Become(n, IF IsQuorum({n} \cup s.preVotes) THEN BecomeCandidate(n, s) ELSE s, {})
        /\ NoneSpent
     \/ /\ m.term = node[n].term /\ ~m.pre /\ node[n].role = "candidate"
        /\ LET s == [node[n] EXCEPT !.votes = @ \cup {m.from}]
               wins == IsQuorum({n} \cup s.votes)
           IN  \/ Become(n, IF wins THEN BecomeLeader(s) ELSE s, {}) /\ NoneSpent
               \/ wins /\ Become(n, RevertToFollower(s), {}) /\ AllocFails
  /\ UNCHANGED <<wal, disk>>

\* Wrong variant: the term at prev is not compared.
MatchesByIndex(s, m) == m.prev <= Len(s.log)

\* raft_recv_append_entries: the first part, up to the log comparison.
Follow(s, m) ==
  LET t == IF m.term > s.term THEN StepDown(s, m.term) ELSE s
  IN  [t EXCEPT !.preVote = FALSE, !.preVotes = {}, !.role = "follower"]
Matches(s, m) ==
  m.prev > 0 => m.prev <= Len(s.log) /\ s.log[m.prev] = m.prevTerm

\* Wrong variant: the log is cut at prev whether or not it conflicts.
MergeTruncates(s, m, upTo) ==
  [Cut(s, m.prev) EXCEPT !.log = @ \o SubSeq(m.entries, 1, upTo)]

\* The entries of m the log does not have yet, as positions in m.entries.
Missing(s, m) ==
  {k \in 1 .. Len(m.entries) :
     \E j \in 1 .. k : m.prev + j > Len(s.log) \/ s.log[m.prev + j] # m.entries[j]}
\* The log once the first of them that fit in memory are appended.
Merge(s, m, upTo) ==
  IF Missing(s, m) = {} THEN s
  ELSE LET k == Min(Missing(s, m))
           c == Cut(s, m.prev + k - 1)
       IN  [c EXCEPT !.log = @ \o SubSeq(m.entries, k, upTo)]
\* The commit index follows, but no further than what m has verified.
FollowCommit(s, m) ==
  [s EXCEPT !.commit =
     Larger(@, Lesser(m.commit, Lesser(m.prev + Len(m.entries), Len(s.log))))]
\* The ACK waits for the record that will hold what m changed; one latch
\* serves every message until it is released.
LatchAck(s, m) ==
  LET a == IF s.ack.on THEN s.ack ELSE [NoAck EXCEPT !.wait = TRUE]
  IN  [s EXCEPT !.ack = [a EXCEPT !.on = TRUE, !.to = m.from,
                                  !.confirmed = Larger(@, m.prev + Len(m.entries))]]

\* Wrong variant: a heartbeat is answered with the end of the local log.
AcceptAppendTip(n, s, m) ==
  LET merged == Merge(s, m, Len(m.entries))
      t == [FollowCommit(merged, m) EXCEPT !.dirty = s.dirty \/ m.entries # << >>]
  IN  CASE m.entries = << >> /\ ~t.dirty /\ ~t.termWait ->
             Become(n, t, {AppendResult(n, m.from, t, TRUE, Len(t.log), 0, 0, 0)})
        [] t.dirty -> Become(n, LatchAck(t, m), {})
        [] OTHER -> Become(n, t, {})

\* Wrong variant: entries are acknowledged before they are persisted.
AcceptAppendUndeferred(n, s, m) ==
  LET merged == Merge(s, m, Len(m.entries))
      t == [FollowCommit(merged, m) EXCEPT !.dirty = s.dirty \/ m.entries # << >>]
  IN  Become(n, t, {AppendResult(n, m.from, t, TRUE, m.prev + Len(m.entries), 0, 0, 0)})

AcceptAppend(n, s, m) ==
  LET merged == Merge(s, m, Len(m.entries))
      t == [FollowCommit(merged, m) EXCEPT !.dirty = s.dirty \/ m.entries # << >>]
  IN  CASE m.entries = << >> /\ ~t.dirty /\ ~t.termWait ->
             Become(n, t, {AppendResult(n, m.from, t, TRUE, Lesser(t.front.confirm, m.prev), 0, 0, 0)})
        [] t.dirty -> Become(n, LatchAck(t, m), {})
        [] OTHER -> Become(n, t, {})

\* The rejection carries the term found at prev and the first index of its
\* run; it waits while a term or anything else is still to be persisted.
RejectAppend(n, s, m) ==
  LET tip == Len(s.log)
      hint == IF m.prev > tip THEN tip + 1 ELSE m.prev
      ct == TermAt(s.log, m.prev)
      cfi == IF ct = 0 THEN 0
             ELSE Min({i \in 1 .. m.prev : \A j \in i .. m.prev : s.log[j] = ct})
  IN  IF s.dirty \/ s.termWait
      THEN Become(n, [s EXCEPT !.reject =
             [on |-> TRUE, to |-> m.from, wait |-> TRUE, hint |-> hint, last |-> tip,
              conflictTerm |-> ct, conflictFirst |-> cfi]], {})
      ELSE Become(n, s, {AppendResult(n, m.from, s, FALSE, tip, hint, ct, cfi)})

RecvAppendEntries(n, m) ==
  /\ m.type = "append" /\ m.to = n /\ MayRun(n)
  /\ m.term >= node[n].term
  /\ m.term = node[n].term => node[n].role # "leader"
  /\ LET s == Follow(node[n], m) IN
     \/ Matches(s, m) /\ AcceptAppend(n, s, m) /\ NoneSpent
     \/ ~Matches(s, m) /\ RejectAppend(n, s, m) /\ NoneSpent
     \/ /\ Matches(s, m) /\ Missing(s, m) # {}
        /\ \E upTo \in Min(Missing(s, m)) - 1 .. Len(m.entries) - 1 :
             Become(n, Merge(s, m, upTo), {})
        /\ AllocFails
  /\ UNCHANGED <<wal, disk>>

\* raft_recv_append_entries_result.
ResumeAt(s, m) ==
  LET above == {i \in 1 .. Len(s.log) : s.log[i] > m.conflictTerm}
      a == Min(above \cup {Len(s.log) + 1})
      at == IF TermAt(s.log, a - 1) = m.conflictTerm THEN a ELSE m.conflictFirst
  IN  IF m.conflictTerm > 0 THEN Lesser(at, Len(s.log) + 1) ELSE m.hint
RecvAppendResult(n, m) ==
  /\ m.type = "appended" /\ m.to = n /\ MayRun(n)
  /\ node[n].role = "leader"
  /\ \/ /\ m.term > node[n].term
        /\ Become(n, StepDown(node[n], m.term), {})
     \/ /\ m.term = node[n].term
        /\ LET s == node[n]
               match == Lesser(m.last, Len(s.log))
               t == IF ~m.ok THEN [s EXCEPT !.next[m.from] = ResumeAt(s, m)]
                    ELSE IF match < s.match[m.from] THEN s
                    ELSE [s EXCEPT !.match[m.from] = match, !.next[m.from] = match + 1]
           IN  Become(n, AdvanceCommit(n, t), {})
  /\ NoneSpent /\ UNCHANGED <<wal, disk>>

\* raft_submit: a command, appended by the leader.
Submit(n) ==
  /\ node[n].role = "leader" /\ MayRun(n)
  /\ Len(node[n].log) < MaxLog
  /\ Become(n, [node[n] EXCEPT !.log = Append(@, node[n].term), !.dirty = TRUE], {})
  /\ NoneSpent /\ UNCHANGED <<wal, disk>>

\* raft_advance_inner and raft_leader_tick: what the timers make of s, with
\* the messages queued.  Nothing is due; an election times out; a leader that
\* heard from no quorum gives up; a heartbeat goes out, to the peers in short
\* without the entries memory does not suffice for.
Quiet(n, s) ==
  [ctx |-> IF s.role = "leader" THEN AdvanceCommit(n, s) ELSE s, out |-> {}]
TimedOut(n, s) ==
  IF s.role = "leader" THEN [ctx |-> StepDown(s, s.term), out |-> {}]
  ELSE [ctx |-> StartPreVote(s), out |-> {VoteRequest(n, s, TRUE)}]
Beat(n, s, short) ==
  LET t == AdvanceCommit(n, s)
  IN  [ctx |-> t, out |-> {AppendEntries(n, p, t, p \in short) : p \in Peers(n)}]

\* One round of k_server_drive: the completions of every record written, and,
\* unless the pipeline is full, raft_advance: the replies it releases, the
\* timers, and the persist view it hands to the WAL worker.
Completed(n) ==
  LET f[k \in 0 .. Len(wal[n].done)] ==
        IF k = 0 THEN node[n] ELSE Complete(n, f[k - 1], wal[n].done[k])
  IN  f[Len(wal[n].done)]
Advance(n, s, tick) ==
  /\ Become(n, [tick.ctx EXCEPT !.dirty = FALSE], ReleasedMsgs(n, s) \cup tick.out)
  /\ wal' = [wal EXCEPT ![n] =
       [posted |-> IF tick.ctx.dirty
                   THEN Append(@.posted,
                          PersistView([term |-> tick.ctx.term, vote |-> tick.ctx.vote],
                                      tick.ctx.log, tick.ctx.front))
                   ELSE @.posted,
        done |-> << >>]]
Drive(n) ==
  /\ MayRun(n)
  /\ Len(wal[n].posted) < MaxInflight
  /\ LET s == Completed(n)
         r == Released(s)
     IN  \/ Advance(n, s, Quiet(n, r)) /\ NoneSpent
         \/ /\ Advance(n, s, TimedOut(n, r))
            /\ spent.timeouts < MaxTimeouts
            /\ spent' = [spent EXCEPT !.timeouts = @ + 1]
         \/ /\ r.role = "leader" /\ spent.beats < MaxBeats
            /\ \E short \in SUBSET Peers(n) :
                 /\ Advance(n, s, Beat(n, r, short))
                 /\ spent.fails + Cardinality(short) <= MaxFails
                 /\ spent' = [spent EXCEPT !.beats = @ + 1, !.fails = @ + Cardinality(short)]
  /\ UNCHANGED disk

\* The WAL worker writes and syncs the oldest record.  A caller that waits
\* for it reports it at once.
WalWrite(n) ==
  /\ wal[n].posted # << >>
  /\ LET r == Head(wal[n].posted) IN
     /\ disk' = [disk EXCEPT ![n] = Recovered(@, r)]
     /\ wal' = [wal EXCEPT ![n] =
          [posted |-> Tail(@.posted),
           done |-> IF Pipelined THEN Append(@.done, r.durable) ELSE @.done]]
     /\ Become(n, IF Pipelined THEN node[n] ELSE Complete(n, node[n], r.durable), {})
  /\ NoneSpent

\* A crash, and the recovery from disk.
Restart(n) ==
  /\ spent.crashes < MaxCrashes
  /\ spent' = [spent EXCEPT !.crashes = @ + 1]
  /\ Become(n, Restored(disk[n]), {})
  /\ wal' = [wal EXCEPT ![n] = IdleWal]
  /\ UNCHANGED disk

Receive(n, m) ==
  \/ RecvRequestVote(n, m)
  \/ RecvVoteResult(n, m)
  \/ RecvAppendEntries(n, m)
  \/ RecvAppendResult(n, m)

Next ==
  \E n \in Node :
    \/ \E m \in msgs : Receive(n, m)
    \/ Submit(n)
    \/ Drive(n)
    \/ WalWrite(n)
    \/ Restart(n)

Spec == Init /\ [][Next]_vars
-----------------------------------------------------------------------------
\* Every variable stays in its range.
TypeOK ==
  /\ \A n \in Node :
       /\ node[n].term \in 0 .. MaxTerm /\ node[n].vote \in Node \cup {None}
       /\ node[n].role \in {"follower", "candidate", "leader"}
       /\ node[n].log \in Seq(1 .. MaxTerm)
       /\ node[n].front \in Frontier
       /\ node[n].commit \in 0 .. Len(node[n].log)
       /\ \A p \in Node : node[n].next[p] \in Nat /\ node[n].match[p] \in Nat
  /\ \A m \in msgs : m.term \in 0 .. MaxTerm

\* At most one node ever becomes leader in a term, whatever crashes: a vote
\* given is never given again.
ElectionSafety == \A a, b \in elected : a.term = b.term => a.node = b.node

\* No two entries are ever committed at the same index.
CommitAgreement == \A a, b \in chosen : a.index = b.index => a.term = b.term

\* What is committed is on the disks of a quorum, from then on: "committed"
\* means that it survives any minority of crashes.
CommittedDurable ==
  \A c \in chosen :
    IsQuorum({n \in Node : Len(disk[n].log) >= c.index /\ disk[n].log[c.index] = c.term})

\* The leader of the latest term has every entry ever committed.
LeaderCompleteness ==
  \A n \in Node :
    node[n].role = "leader" /\ (\A e \in elected : e.term <= node[n].term) =>
      \A c \in chosen : TermAt(node[n].log, c.index) = c.term

\* match_index means durably written: while a peer is in the leader's term,
\* the leader's log up to match_index is on that peer's disk.
MatchDurable ==
  \A n \in Node : \A p \in Peers(n) :
    node[n].role = "leader" /\ node[p].term = node[n].term =>
      \A i \in 1 .. node[n].match[p] : TermAt(disk[p].log, i) = node[n].log[i]

\* Two logs that have an entry of one term at one index agree up to it.
LogMatching ==
  \A m, n \in Node :
    \A i \in 1 .. Lesser(Len(node[m].log), Len(node[n].log)) :
      node[m].log[i] = node[n].log[i] =>
        \A j \in 1 .. i : node[m].log[j] = node[n].log[j]

\* A node never drops or changes what it has committed: short of a crash, the
\* commit index does not fall and the log below it stays.
CommittedKept ==
  [][\A n \in Node :
       \/ Restart(n)
       \/ /\ node[n].commit <= node'[n].commit
          /\ \A i \in 1 .. node[n].commit : TermAt(node'[n].log, i) = node[n].log[i]]_vars
=============================================================================
