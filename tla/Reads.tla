------------------------------- MODULE Reads -------------------------------
(***************************************************************************)
(* Linearizable reads and leadership transfer (raft.h): the leader's read  *)
(* barrier, the follower's ReadIndex round, the heartbeat round whose      *)
(* acknowledgements resolve both, and the TimeoutNow hand-over.            *)
(*                                                                         *)
(* Of elections and replication this module keeps what reads depend on,    *)
(* terms, logs of terms, commit and apply indexes; how votes and entries   *)
(* travel is module Raft's subject.  An election is one step, and so is    *)
(* the trip of a heartbeat to a follower: a heartbeat that arrives late is *)
(* one sent late.  Its acknowledgement, and every other message, stays in  *)
(* the network, where it is delivered late, again, or never.               *)
(***************************************************************************)
EXTENDS Integers, Sequences, FiniteSets, FiniteSetsExt, SequencesExt

CONSTANTS Nodes,
          Reads,       \* cookies of the read barriers clients submit
          MaxTerm,     \* bound: terms
          MaxLog,      \* bound: entries of a log
          MaxBatch,    \* bound: reads in one batch
          MaxEvents    \* bound: reads, writes, transfers, lost quorums and stops, together

ASSUME ReadsAssumption ==
  /\ IsFiniteSet(Nodes) /\ MaxTerm \in Nat /\ MaxLog \in Nat /\ MaxBatch \in Nat
  /\ MaxEvents \in Nat

VARIABLES node,   \* the raft_ctx of each node
          net,    \* messages in flight
          events, \* how many of the bounded events happened
          reads   \* history: of each cookie, what was committed when it was submitted and its answer

vars == <<node, net, events, reads>>

Event == events < MaxEvents /\ events' = events + 1
Quorum(S) == 2 * Cardinality(S) > Cardinality(Nodes)
Committed == Max({node[n].commit : n \in Nodes})

\* A node of a cluster whose leader of term 1 has committed its NOOP everywhere.
Settled(l) ==
  [term |-> 1, role |-> "follower", leader |-> {l}, log |-> <<1>>, commit |-> 1, applied |-> 1,
   confirmed |-> FALSE, match |-> [p \in Nodes |-> 1],
   context |-> 0, wire |-> 0, acked |-> {}, gen |-> 0, barriers |-> <<>>, pending |-> <<>>,
   waiting |-> <<>>, frozen |-> 0, queued |-> FALSE, follow |-> 0, transfer |-> {}, draining |-> FALSE,
   out |-> {}]

Leading(s, t, n) ==
  [s EXCEPT !.term = t, !.role = "leader", !.leader = {n}, !.log = Append(@, t),
            !.confirmed = FALSE, !.match = [p \in Nodes |-> 0], !.wire = -1]

Init ==
  /\ \E l \in Nodes :
       node = [[n \in Nodes |-> Settled(l)] EXCEPT ![l].role = "leader", ![l].confirmed = TRUE]
  /\ net = {} /\ events = 0
  /\ reads = [c \in Reads |-> [status |-> "none", floor |-> 0, seen |-> 0, late |-> {}]]

(***************************************************************************)
(* Parts of the handlers, as functions of the node s.  s.out collects the  *)
(* client results the handler emits.                                       *)
(***************************************************************************)
Emit(s, C, status) == [s EXCEPT !.out = @ \cup {[read |-> c.read, late |-> c.late, status |-> status] : c \in C}]

\* raft_flush_client_results.
FlushClientResults(s, status) ==
  [Emit(s, Range(s.barriers) \cup Range(s.waiting), status)
     EXCEPT !.barriers = <<>>, !.waiting = <<>>, !.frozen = 0, !.queued = FALSE, !.follow = 0]

\* raft_step_down.
StepDown(s, t, ldr) ==
  [FlushClientResults(s, "redirect")
     EXCEPT !.term = t, !.role = "follower", !.leader = ldr, !.confirmed = FALSE, !.transfer = {},
            !.pending = <<>>, !.acked = {}, !.gen = 0]


\* raft_read_round_restart.
ReadRoundRestart(s) == [s EXCEPT !.context = @ + 1, !.acked = {}]

\* raft_advance_commit.
AdvanceCommit(s, n) ==
  LET held(i) == {n} \cup {p \in Nodes \ {n} : s.match[p] >= i}
      ok == {i \in s.commit + 1 .. Len(s.log) : s.log[i] = s.term /\ Quorum(held(i))}
  IN  IF ok = {} THEN s ELSE [s EXCEPT !.commit = Max(ok), !.confirmed = TRUE]

\* raft_check_barriers.
CheckBarriers(s) ==
  LET ready(b) == IF s.role = "leader"
                  THEN s.confirmed /\ s.gen >= b.needs /\ s.applied >= Max({b.target, s.commit})
                  ELSE s.applied >= b.target
  IN  [Emit(s, {b \in Range(s.barriers) : ready(b)}, "ready")
         EXCEPT !.barriers = SelectSeq(@, LAMBDA b : ~ready(b))]


\* The front of the queue of follower reads is answered or moved on.
DropFrozen(s) ==
  [s EXCEPT !.waiting = SubSeq(@, s.frozen + 1, Len(@)), !.frozen = 0,
            !.queued = @ \/ Len(s.waiting) > s.frozen]

\* What raft_advance does to the reads of a node that is not the leader: the frozen batch
\* times out, a barrier that makes no progress times out.
FollowerReads(s, frozenOut, stalledOut) ==
  LET a == IF frozenOut THEN DropFrozen(Emit(s, Range(SubSeq(s.waiting, 1, s.frozen)), "failed")) ELSE s
      stuck(b) == b.target > a.applied
  IN  IF stalledOut /\ a.role # "leader"
      THEN [Emit(a, {b \in Range(a.barriers) : stuck(b)}, "failed")
              EXCEPT !.barriers = SelectSeq(@, LAMBDA b : ~stuck(b))]
      ELSE a

\* raft_follower_read_materialize.
Materialize(s) ==
  IF s.queued THEN [s EXCEPT !.follow = @ + 1, !.frozen = Len(s.waiting), !.queued = FALSE] ELSE s

\* raft_leader_tick, as far as reads go: a fresh quorum of acknowledgements advances the
\* generation; the heartbeat carries the context; ReadIndex requests are answered.
LeaderTick(s, n) ==
  LET acks == Quorum({n} \cup s.acked)
      a == [s EXCEPT !.gen = IF s.barriers # <<>> /\ acks THEN @ + 1 ELSE @]
      b == [AdvanceCommit(a, n) EXCEPT !.wire = s.context]
  IN  [b EXCEPT !.pending = IF acks /\ b.confirmed THEN <<>> ELSE @]

Results(s, b, n) ==
  IF s.pending # <<>> /\ b.pending = <<>>
  THEN {[type |-> "result", to |-> p.from, term |-> b.term, index |-> b.commit, context |-> p.context,
         late |-> p.late] : p \in Range(s.pending)}
  ELSE {}

\* Records the results a handler emitted and stores the node.
Store(n, s) ==
  /\ node' = [node EXCEPT ![n] = [s EXCEPT !.out = {}]]
  /\ reads' = [c \in Reads |->
       IF \E o \in s.out : o.read = c
       THEN LET o == CHOOSE o \in s.out : o.read = c
            IN  [reads[c] EXCEPT !.status = o.status, !.seen = node[n].applied, !.late = o.late]
       ELSE reads[c]]

Holds(n, c) == Cardinality({i \in DOMAIN node[n].barriers : node[n].barriers[i].read = c})
             + Cardinality({i \in DOMAIN node[n].waiting : node[n].waiting[i].read = c})

(***************************************************************************)
(* Clients.                                                                *)
(***************************************************************************)
\* raft_barrier.  late, a history field of reads, requests and results, says in what way a read
\* may be answered from acknowledgements older than itself: it joined a round under way, its
\* leader is stopping, or its node restarted.
Barrier(n, c) ==
  LET s == node[n] IN
  /\ reads[c].status = "none" /\ ~s.draining
  /\ \/ /\ s.role = "leader" /\ s.transfer = {} /\ Len(s.barriers) < MaxBatch
        /\ LET joined == s.barriers # <<>>
               a == [s EXCEPT !.barriers = Append(@, [read |-> c, target |-> s.commit, needs |-> s.gen + 1,
                                                      late |-> IF joined THEN {"joined"} ELSE {}])]
           IN  node' = [node EXCEPT ![n] = IF joined THEN a ELSE ReadRoundRestart(a)]
     \/ /\ s.role = "follower" /\ s.leader # {} /\ Len(s.waiting) < MaxBatch
        /\ node' = [node EXCEPT ![n].waiting = Append(@, [read |-> c, late |-> {}]),
                                ![n].queued = (s.frozen = 0)]
  /\ reads' = [reads EXCEPT ![c].status = "open", ![c].floor = Committed]
  /\ Event /\ UNCHANGED net

\* raft_submit: one entry.
Submit(n) ==
  /\ node[n].role = "leader" /\ node[n].transfer = {} /\ Len(node[n].log) < MaxLog
  /\ node' = [node EXCEPT ![n].log = Append(@, node[n].term)]
  /\ Event /\ UNCHANGED <<net, reads>>

\* raft_transfer.
Transfer(n, p) ==
  /\ node[n].role = "leader" /\ node[n].transfer = {} /\ p # n
  /\ node' = [node EXCEPT ![n].transfer = {p}]
  /\ Event /\ UNCHANGED <<net, reads>>

(***************************************************************************)
(* raft_advance, and the caller's applies.                                 *)
(***************************************************************************)
\* Mutant: the target is told to campaign without waiting for it to catch up.
TransferAtOnce(s, n, gone) ==
  [s |-> [s EXCEPT !.transfer = {}],
   m |-> {[type |-> "timeoutnow", to |-> p, from |-> n, term |-> s.term, log |-> s.log] : p \in s.transfer}]

\* The transfer completes when its target holds the whole log, or gives up.
TransferStep(s, n, gone) ==
  IF s.transfer = {} THEN [s |-> s, m |-> {}]
  ELSE LET p == CHOOSE p \in s.transfer : TRUE IN
       IF s.match[p] >= Len(s.log)
       THEN [s |-> [s EXCEPT !.transfer = {}],
             m |-> {[type |-> "timeoutnow", to |-> p, from |-> n, term |-> s.term, log |-> s.log]}]
       ELSE [s |-> IF gone THEN [s EXCEPT !.transfer = {}] ELSE s, m |-> {}]

\* raft_advance, then the applies it hands out and raft_apply_complete.
Advance(n, frozenOut, stalledOut, gone) ==
  LET s == node[n]
      a == FollowerReads(s, frozenOut, stalledOut)
      b == Materialize(a)
      t == TransferStep(b, n, gone)
      d == IF s.role = "leader" THEN LeaderTick(t.s, n) ELSE t.s
  IN  /\ ~s.draining
      /\ frozenOut => s.frozen > 0
      /\ stalledOut => \E x \in Range(s.barriers) : x.target > s.applied
      /\ gone => s.transfer # {}
      /\ UNCHANGED events
      /\ Store(n, [CheckBarriers(d) EXCEPT !.applied = d.commit])
      /\ net' = net \cup t.m \cup Results(t.s, d, n) \cup
           (IF b.follow # a.follow
            THEN {[type |-> "readindex", from |-> n, to |-> l, term |-> s.term, context |-> b.follow,
                   late |-> {}] : l \in s.leader \ {n}}
            ELSE {})

\* The deadline of checkQuorum passed: the leader steps down in its own term.
LoseQuorum(n) ==
  /\ node[n].role = "leader"
  /\ Store(n, CheckBarriers(StepDown(node[n], node[n].term, {})))
  /\ Event /\ UNCHANGED net

\* raft_stop and the step from STOPPING to DRAINING: the role is given up, the queues are not.
Stop(n) ==
  /\ ~node[n].draining
  /\ node' = [node EXCEPT ![n].draining = TRUE, ![n].role = "follower", ![n].leader = {},
        ![n].barriers = [i \in DOMAIN @ |-> IF node[n].role = "leader" THEN [@[i] EXCEPT !.late = @ \cup {"stopping"}] ELSE @[i]]]
  /\ Event /\ UNCHANGED <<net, reads>>

\* A crash and a restart from durable state: the log and the term stay, the rest is raft_create's.
\* What was asked in the node's name before may still be answered.
Restart(n) ==
  LET again(x) == [x EXCEPT !.late = @ \cup {"restarted"}] IN
  /\ node' = [p \in Nodes |->
        IF p = n THEN [Settled(n) EXCEPT !.term = node[n].term, !.leader = {}, !.log = node[n].log,
                                         !.commit = 0, !.applied = 0]
        ELSE [node[p] EXCEPT !.pending = [i \in DOMAIN @ |-> IF @[i].from = n THEN again(@[i]) ELSE @[i]]]]
  /\ net' = {IF (m.type = "readindex" /\ m.from = n) \/ (m.type = "result" /\ m.to = n)
             THEN again(m) ELSE m : m \in net}
  /\ reads' = [c \in Reads |-> IF Holds(n, c) > 0 THEN [reads[c] EXCEPT !.status = "lost"] ELSE reads[c]]
  /\ Event

\* raft_advance while DRAINING: what can be answered is, and once nothing is left to apply the
\* rest is failed.
Drain(n) ==
  LET s == CheckBarriers(node[n])
      idle == s.applied = s.commit /\ s.out = {}
      a == IF idle THEN [FlushClientResults(s, "failed") EXCEPT !.pending = <<>>, !.transfer = {}]
           ELSE [s EXCEPT !.applied = s.commit]
  IN  /\ s.draining /\ a # node[n]
      /\ Store(n, a)
      /\ UNCHANGED <<net, events>>

(***************************************************************************)
(* Peers.                                                                  *)
(***************************************************************************)
\* A candidate collects the votes of Q: raft_become_candidate, raft_become_leader, and at each
\* voter raft_step_down.
Elected(n, Q) ==
  LET t == Max({node[p].term : p \in Q}) + 1
      last(s) == IF s.log = <<>> THEN 0 ELSE s.log[Len(s.log)]
      current(p) == \/ last(node[n]) > last(node[p])
                    \/ last(node[n]) = last(node[p]) /\ Len(node[n].log) >= Len(node[p].log)
  IN  /\ n \in Q /\ Quorum(Q) /\ (\A p \in Q : ~Quorum(Q \ {p})) /\ t <= MaxTerm /\ Len(node[n].log) < MaxLog
      /\ node[n].role = "follower" /\ \A p \in Q : current(p) /\ ~node[p].draining
      /\ LET down == [p \in Q \ {n} |-> StepDown(node[p], t, {})]
             outs == UNION {down[p].out : p \in Q \ {n}}
         IN  /\ node' = [p \in Nodes |-> CASE p = n -> Leading(node[n], t, n)
                                            [] p \in Q \ {n} -> [down[p] EXCEPT !.out = {}]
                                            [] OTHER -> node[p]]
             /\ reads' = [c \in Reads |-> IF \E o \in outs : o.read = c
                                         THEN [reads[c] EXCEPT !.status = "redirect"] ELSE reads[c]]

Elect(n, Q) == Elected(n, Q) /\ UNCHANGED <<net, events>>

\* A heartbeat of l, with the entries f lacks, reaches f: raft_recv_append_entries and its
\* acknowledgement.
Heartbeat(l, f) ==
  LET s == node[l]
      x == node[f]
      y == IF x.term < s.term \/ x.role = "leader" THEN StepDown(x, s.term, {l}) ELSE [x EXCEPT !.leader = {l}]
  IN  /\ UNCHANGED events
      /\ s.role = "leader" /\ s.wire >= 0 /\ l # f
      /\ IF x.term > s.term
         THEN /\ net' = net \cup {[type |-> "ack", from |-> f, to |-> l, term |-> x.term, match |-> 0, context |-> s.wire]}
              /\ UNCHANGED <<node, reads>>
         ELSE /\ Store(f, [y EXCEPT !.log = IF IsPrefix(s.log, @) THEN @ ELSE s.log, !.commit = Max({@, s.commit})])
              /\ net' = net \cup {[type |-> "ack", from |-> f, to |-> l, term |-> s.term, match |-> Len(s.log),
                                   context |-> s.wire]}

\* raft_recv_append_entries_result.
RecvAck(m) ==
  LET n == m.to
      s == node[n]
      a == [s EXCEPT !.acked = IF m.context = s.context /\ (s.barriers # <<>> \/ s.pending # <<>>)
                                  /\ s.wire = s.context THEN @ \cup {m.from} ELSE @,
                     !.match = [@ EXCEPT ![m.from] = Max({@, m.match})]]
  IN  /\ s.role = "leader" /\ m.term >= s.term
      /\ Store(n, IF m.term > s.term THEN StepDown(s, m.term, {}) ELSE AdvanceCommit(a, n))
      /\ UNCHANGED <<net, events>>

\* raft_recv_read_index.
RecvReadIndex(m) ==
  LET n == m.to
      s == node[n]
      joined == s.pending # <<>>
      a == [s EXCEPT !.pending = Append(@, [from |-> m.from, context |-> m.context, 
                                       late |-> IF joined THEN {"joined"} ELSE m.late])]
  IN  /\ s.role = "leader" /\ m.term = s.term /\ Len(s.pending) < MaxBatch
      /\ Store(n, IF joined THEN a ELSE ReadRoundRestart(a))
      /\ net' = net \ {m} /\ UNCHANGED events

\* raft_recv_read_index_result.
RecvReadIndexResult(m) ==
  LET n == m.to
      s == node[n]
      moved == [i \in 1 .. s.frozen |-> [read |-> s.waiting[i].read, target |-> m.index, needs |-> 0,
                                         late |-> m.late]]
  IN  /\ s.frozen > 0 /\ m.context = s.follow /\ m.term >= s.term
      /\ Store(n, IF m.term > s.term THEN StepDown(s, m.term, {})
                  ELSE DropFrozen([s EXCEPT !.barriers = @ \o moved]))
      /\ net' = net \ {m} /\ UNCHANGED events

\* raft_recv_timeout_now: the follower whose log is the sender's campaigns at once.
RecvTimeoutNow(m) ==
  LET s == node[m.to] IN
  /\ s.role = "follower" /\ s.leader = {m.from} /\ m.term = s.term
  /\ Len(s.log) = Len(m.log) /\ s.log[Len(s.log)] = m.log[Len(m.log)]
  /\ \E Q \in SUBSET Nodes : Elected(m.to, Q)
  /\ net' = net \ {m} /\ UNCHANGED events

Next ==
  \/ \E n \in Nodes : \/ Submit(n) \/ LoseQuorum(n) \/ Stop(n) \/ Drain(n) \/ Restart(n)
                      \/ \E c \in Reads : Barrier(n, c)
                      \/ \E p \in Nodes : Transfer(n, p) \/ Heartbeat(n, p)
                      \/ \E f, t, g \in BOOLEAN : Advance(n, f, t, g)
                      \/ \E Q \in SUBSET Nodes : Elect(n, Q)
  \/ \E m \in net : \/ m.type = "ack" /\ RecvAck(m)
                    \/ m.type = "readindex" /\ RecvReadIndex(m)
                    \/ m.type = "result" /\ RecvReadIndexResult(m)
                    \/ m.type = "timeoutnow" /\ RecvTimeoutNow(m)

Spec == Init /\ [][Next]_vars

(***************************************************************************)
(* Properties                                                              *)
(***************************************************************************)
Answered(c) == reads[c].status = "ready"


\* The same of a read that joined a round.  raft_leader_tick says the generation advances "only
\* on a FRESH heartbeat quorum", since "a delayed stale ACK from a peer that has since moved to a
\* higher term would otherwise resolve the barrier READY at a stale commit index".
JoinedReadFresh ==
  \A c \in Reads : Answered(c) /\ reads[c].late = {"joined"} => reads[c].seen >= reads[c].floor

\* The same of a read whose leader is stopping (the DRAINING branch of raft_advance).
StoppingReadFresh ==
  \A c \in Reads : Answered(c) /\ reads[c].late = {"stopping"} => reads[c].seen >= reads[c].floor

\* The same of a read answered with a result asked for before its node restarted ("so a result
\* can only match the round that is actually in flight", raft_ctx).
RestartedReadFresh ==
  \A c \in Reads : Answered(c) /\ reads[c].late = {"restarted"} => reads[c].seen >= reads[c].floor


\* Leadership is handed only to a node that holds everything the leader accepted: while the
\* term lasts, the target of a TimeoutNow has the whole log the leader had when it sent it
\* (raft_advance compares match_index with the tip; the tip check of raft_recv_timeout_now
\* then finds equal tips, not equal lengths only).
HandOverComplete ==
  \A m \in net : m.type = "timeoutnow" /\ node[m.to].term = m.term => IsPrefix(m.log, node[m.to].log)
=============================================================================
