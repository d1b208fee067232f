------------------------------ MODULE Members ------------------------------
(***************************************************************************)
(* Membership changes (raft.h): joint consensus with catch-up before the   *)
(* joint entry, the abort of a stuck joint entry, learners, and the        *)
(* cookies of the callers.                                                 *)
(*                                                                         *)
(* Elections and replication are whole exchanges here, with answers that   *)
(* may be lost; the modules Raft and Persist take them apart.  A node's    *)
(* configuration is the last one of its log, committed or not.             *)
(***************************************************************************)
EXTENDS Integers, Sequences, FiniteSets, SequencesExt

CONSTANTS Nodes,
          Initial,       \* the bootstrap configuration; the other nodes start without one
          Scripts,       \* what the callers ask for, in order, and how many events are spent
          Rounds,        \* RAFT_CATCHUP_ROUNDS
          Chunk,         \* log_chunk_size: an AppendEntries stays within one chunk of the log
          MaxTerm, MaxLog,
          MaxEvents      \* bound: lost answers, timeouts, quorums lost and events, together

ASSUME MembersAssumption ==
  /\ IsFiniteSet(Nodes) /\ Initial \subseteq Nodes /\ Initial # {}
  /\ Rounds \in Nat \ {0} /\ Chunk \in Nat \ {0} /\ MaxTerm \in Nat /\ MaxLog \in Nat /\ MaxEvents \in Nat

VARIABLES script, asked,   \* the requests, and how many were accepted
          node,            \* per node; the field out is the history of results it gave
          elected,         \* who was elected in which term
          chosen,          \* the longest log prefix committed so far, and the term that committed it
          events           \* how many of the bounded events have happened

vars == <<script, asked, node, elected, chosen, events>>

Noop(term) == [term |-> term, old |-> {}, new |-> {}, learners |-> {}]
ConfigEntry(term, old, new, learners) == [term |-> term, old |-> old, new |-> new, learners |-> learners]
IsConfig(e) == e.new # {}
IsJoint(e) == e.old # e.new
LastTerm(log) == IF log = <<>> THEN 0 ELSE Last(log).term

(***************************************************************************)
(* Configurations and quorums.                                             *)
(***************************************************************************)
\* The last configuration of a log; a learner that became a voter is a voter.
ConfigOf(n, log) ==
  LET I == {i \in DOMAIN log : IsConfig(log[i])}
      base == IF n \in Initial THEN Initial ELSE {}
      e == log[CHOOSE i \in I : \A j \in I : j <= i]
  IN  IF I = {} THEN ConfigEntry(0, base, base, {})
      ELSE [e EXCEPT !.learners = @ \ e.new]

Config(n) == ConfigOf(n, node[n].log)
Others(n, c) == (c.old \cup c.new \cup c.learners) \ {n}

\* Mutant: an even half is enough.
HalfMajority(S, V) == 2 * Cardinality(S \cap V) >= Cardinality(S)

\* raft_quorum_size_of, raft_count_votes, raft_count_match.
Majority(S, V) == 2 * Cardinality(S \cap V) > Cardinality(S)

Quorum(c, V) == Majority(c.new, V) /\ (IsJoint(c) => Majority(c.old, V))

(***************************************************************************)
(* Functions of one node's state.                                          *)
(***************************************************************************)
Emit(x, cookie, status) == [x EXCEPT !.out = Append(@, [cookie |-> cookie, status |-> status])]
EmitAll(x, q, status) == [x EXCEPT !.out = @ \o [i \in DOMAIN q |-> [cookie |-> q[i].cookie, status |-> status]]]

Fresh(log, term, voted) ==
  [term |-> term, voted |-> voted, leads |-> FALSE, log |-> log, commit |-> 0, applied |-> 0,
   peers |-> <<>>, pending |-> FALSE, index |-> 0, catchup |-> <<>>, waiting |-> <<>>, learning |-> <<>>, out |-> <<>>]

\* raft_apply_config_masks: the peers of the configuration; who stays keeps its progress.
Rebuild(n, x) ==
  LET c == ConfigOf(n, x.log)
  IN  [x EXCEPT
        !.peers = [p \in Others(n, c) |->
                     IF p \in DOMAIN @ /\ (p \in c.learners => p \in DOMAIN x.learning) THEN @[p] ELSE 0],
        !.learning = [p \in c.learners \ {n} |->
                        IF p \in DOMAIN @ THEN @[p] ELSE [cookie |-> 0, round |-> 0, start |-> 0]]]

PendingOnlyClear(x) == [x EXCEPT !.pending = FALSE, !.index = 0]

\* Mutant: the caller of a change that still catches up is forgotten.
StepDownSilent(x, term) ==
  [PendingOnlyClear(EmitAll(x, x.waiting, "redirect")) EXCEPT
     !.term = term, !.voted = FALSE, !.leads = FALSE, !.catchup = <<>>, !.waiting = <<>>, !.peers = [p \in DOMAIN @ |-> 0]]

\* raft_step_down: every waiting caller hears of it.  (Progress of peers is reset by the next election.)
StepDown(x, term) ==
  LET a == EmitAll(x, x.waiting \o x.catchup, "redirect")
  IN  [PendingOnlyClear(a) EXCEPT !.term = term, !.voted = FALSE, !.leads = FALSE, !.catchup = <<>>,
                                  !.waiting = <<>>, !.peers = [p \in DOMAIN @ |-> 0]]

Append1(n, x, e) == Rebuild(n, [x EXCEPT !.log = Append(@, e)])

\* raft_finalize_joint: append C_new, unless it is there, and move the caller's cookie to it.
FinalizeJoint(n, x, j) ==
  LET F == {i \in j + 1 .. Len(x.log) : IsConfig(x.log[i]) /\ ~IsJoint(x.log[i])}
      e == x.log[j]
      last == Len(x.log) + 1
  IN  IF F # {} THEN Rebuild(n, [x EXCEPT !.pending = TRUE, !.index = CHOOSE i \in F : \A k \in F : i <= k])
      ELSE [Append1(n, x, ConfigEntry(x.term, e.new, e.new, ConfigOf(n, x.log).learners)) EXCEPT
              !.pending = TRUE, !.index = last,
              !.waiting = [i \in DOMAIN @ |-> IF @[i].index = j THEN [@[i] EXCEPT !.index = last] ELSE @[i]]]

\* Mutant: a new leader leaves a committed joint entry as it is.
LeadPlain(n, x) ==
  [x EXCEPT !.leads = TRUE, !.log = Append(@, Noop(x.term)), !.peers = [p \in DOMAIN @ |-> 0]]

\* raft_become_leader: a NOOP; a committed joint entry is finalized, an uncommitted one is tracked.
BecomeLeader(n, x) ==
  LET a == [x EXCEPT !.leads = TRUE, !.log = Append(@, Noop(x.term)), !.peers = [p \in DOMAIN @ |-> 0],
                     !.learning = [p \in DOMAIN @ |-> [@[p] EXCEPT !.round = 0]]]
      J == {i \in DOMAIN x.log : IsConfig(x.log[i]) /\ IsJoint(x.log[i])}
      j == CHOOSE i \in J : \A k \in J : k <= i
  IN  IF ~IsJoint(ConfigOf(n, x.log)) THEN a
      ELSE IF x.commit >= j THEN FinalizeJoint(n, a, j)
      ELSE [a EXCEPT !.pending = TRUE, !.index = j]

\* Mutant: the cookie is tied to the entry before.
CommitConfigEarly(n, x, cookie, new, learners) ==
  [Append1(n, x, ConfigEntry(x.term, ConfigOf(n, x.log).old, new, learners)) EXCEPT
     !.pending = TRUE, !.index = Len(x.log) + 1, !.waiting = Append(@, [cookie |-> cookie, index |-> Len(x.log)])]

\* raft_commit_config_entry: a promoted learner's caller hears first.
CommitConfigEntry(n, x, cookie, new, learners) ==
  LET P == SetToSeq({p \in new \cap DOMAIN x.learning : x.learning[p].cookie # 0 /\ x.learning[p].round >= 0})
      a == EmitAll(x, [i \in DOMAIN P |-> x.learning[P[i]]], "catchup_ready")
      last == Len(x.log) + 1
  IN  [Append1(n, a, ConfigEntry(x.term, ConfigOf(n, x.log).old, new, learners)) EXCEPT
         !.pending = TRUE, !.index = last,
         !.waiting = Append(@, [cookie |-> cookie, index |-> last])]

\* raft_new_servers_caught_up.
CaughtUp(n, x, new, target) ==
  \A p \in new \ (ConfigOf(n, x.log).old \cup {n}) : p \in DOMAIN x.peers /\ x.peers[p] >= target

(***************************************************************************)
(* The leader's tick.                                                      *)
(***************************************************************************)
CatchupDone(x) == [x EXCEPT !.catchup = <<>>]

\* The catch-up of new servers: rounds against the log's end, then the joint entry; too slow, it fails.
CatchupTick(n, x, slow) ==
  LET u == x.catchup[1]
      next(k) == [x EXCEPT !.catchup = <<[u EXCEPT !.round = k, !.start = Len(x.log)]>>]
  IN  IF x.catchup = <<>> THEN x
      ELSE IF slow THEN CatchupDone(Emit(x, u.cookie, "catchup_failed"))
      ELSE IF u.round = 0 THEN next(1)
      ELSE IF ~CaughtUp(n, x, u.new, u.start) THEN x
      ELSE IF u.round < Rounds THEN next(u.round + 1)
      ELSE CatchupDone(CommitConfigEntry(n, x, u.cookie, u.new, ConfigOf(n, x.log).learners))

\* A joint entry of this term that waits too long and that no peer has acknowledged.
JointStuck(n, x) ==
  /\ IsJoint(ConfigOf(n, x.log)) /\ x.pending /\ x.commit < x.index
  /\ x.log[x.index].term = x.term
  /\ \A p \in DOMAIN x.peers : x.peers[p] < x.index

\* The list of waiting callers is cut at the first one that waits for a later index.
Leading(q, index) == SubSeq(q, 1, Max({i \in 0 .. Len(q) : \A j \in 1 .. i : q[j].index <= index}))

\* It is cut, with what follows it, and its slot never used again in this term.
JointAbort(n, x) ==
  LET keep == Leading(x.waiting, x.index - 1)
      cut == SubSeq(x.waiting, Len(keep) + 1, Len(x.waiting))
      a == [EmitAll(x, cut, "failed") EXCEPT !.waiting = keep, !.log = SubSeq(@, 1, x.index - 1), !.catchup = <<>>]
  IN  Rebuild(n, StepDown(a, x.term + 1))

\* raft_advance_commit.
AdvanceCommit(n, x) ==
  LET c == ConfigOf(n, x.log)
      C == {i \in x.commit + 1 .. Len(x.log) :
              x.log[i].term = x.term /\ Quorum(c, {n} \cup {p \in DOMAIN x.peers \ c.learners : x.peers[p] >= i})}
  IN  IF C = {} THEN x ELSE [x EXCEPT !.commit = CHOOSE i \in C : \A j \in C : j <= i]

\* raft_maybe_finalize_joint.
MaybeFinalizeJoint(n, x) ==
  IF /\ IsJoint(ConfigOf(n, x.log)) /\ x.pending /\ x.commit >= x.index
     /\ IsConfig(x.log[x.index]) /\ IsJoint(x.log[x.index])
  THEN FinalizeJoint(n, x, x.index) ELSE x

\* The rounds of learners; the caller hears how they ended.
LearnerTick(x, slow) ==
  LET l(p) == x.learning[p]
      caught(p) == l(p).round > 0 /\ x.peers[p] >= l(p).start
      ended(p) == caught(p) /\ l(p).round = Rounds
      q == SetToSeq({p \in DOMAIN x.learning : ended(p)})
      heard == SelectSeq([i \in DOMAIN q |-> l(q[i])], LAMBDA u : u.cookie # 0)
  IN  [EmitAll(x, heard, IF slow THEN "catchup_failed" ELSE "catchup_ready") EXCEPT
         !.learning = [p \in DOMAIN @ |->
            CASE ended(p) -> [@[p] EXCEPT !.round = -1]
              [] l(p).round = 0 \/ (caught(p) /\ ~ended(p)) -> [@[p] EXCEPT !.round = @ + 1, !.start = Len(x.log)]
              [] OTHER -> @[p]]]

\* raft_leader_tick.
Tick(n, x, slow) ==
  LET a == CatchupTick(n, x, slow)
  IN  IF slow /\ JointStuck(n, a) THEN JointAbort(n, a)
      ELSE LearnerTick(MaybeFinalizeJoint(n, AdvanceCommit(n, a)), slow)

\* raft_apply_complete: configurations take their final effect, callers are answered, a removed
\* leader steps down.
ApplyComplete(n, x) ==
  LET scan[i \in x.applied .. x.commit] ==
        IF i = x.applied THEN x
        ELSE LET y == scan[i - 1]
                 a == IF y.pending /\ y.index = i THEN PendingOnlyClear(y) ELSE y
             IN  IF ~IsConfig(y.log[i]) THEN y
                 ELSE IF ~IsJoint(y.log[i]) THEN Rebuild(n, a)
                 ELSE IF y.leads THEN FinalizeJoint(n, a, i) ELSE a
      z == scan[x.commit]
      done == Leading(z.waiting, x.commit)
      b == [EmitAll(z, done, "committed") EXCEPT
              !.applied = x.commit, !.waiting = SubSeq(@, Len(done) + 1, Len(@))]
      removed == x.leads /\ \E i \in x.applied + 1 .. x.commit :
                   IsConfig(x.log[i]) /\ ~IsJoint(x.log[i]) /\ n \notin x.log[i].new
  IN  IF removed THEN StepDown(b, x.term) ELSE b

(***************************************************************************)
(* Requests.                                                               *)
(***************************************************************************)
\* raft_config_zombie_clear, then the test for a change that is still pending.
ZombieClear(x) == IF x.pending /\ x.commit >= x.index THEN PendingOnlyClear(x) ELSE x

\* Tests common to all changes.
MayChange(n, x) == x.leads /\ ~IsJoint(ConfigOf(n, x.log)) /\ x.catchup = <<>>

\* raft_reconfig.
Reconfig(n, x, cookie, new) ==
  LET c == ConfigOf(n, x.log)
      z == ZombieClear(x)
      extra == new \ ({n} \cup DOMAIN x.peers)
  IN  IF ~MayChange(n, x) THEN {}
      ELSE IF new = c.old THEN {Emit(x, cookie, "committed")}
      ELSE IF z.pending THEN {}
      ELSE IF CaughtUp(n, x, new, Len(x.log)) THEN {CommitConfigEntry(n, z, cookie, new, c.learners)}
      ELSE {[z EXCEPT !.catchup = <<[cookie |-> cookie, new |-> new, round |-> 0, start |-> 0]>>,
                      !.peers = [p \in DOMAIN @ \cup extra |-> IF p \in extra THEN 0 ELSE @[p]]]}

\* raft_add_learner.
AddLearner(n, x, cookie, l) ==
  LET c == ConfigOf(n, x.log)
      z == ZombieClear(x)
      a == CommitConfigEntry(n, z, cookie, c.old, c.learners \cup {l})
  IN  IF MayChange(n, x) /\ l \notin c.old \cup c.learners /\ ~z.pending
      THEN {IF l \in DOMAIN a.learning THEN [a EXCEPT !.learning[l].cookie = cookie] ELSE a} ELSE {}

\* raft_remove_learner.
RemoveLearner(n, x, cookie, l) ==
  LET c == ConfigOf(n, x.log)
      z == ZombieClear(x)
  IN  IF MayChange(n, x) /\ l \in c.learners /\ ~z.pending
      THEN {CommitConfigEntry(n, z, cookie, c.old, c.learners \ {l})} ELSE {}

\* raft_submit.
Command(x, cookie) ==
  IF x.leads THEN {[x EXCEPT !.log = Append(@, Noop(x.term)),
                             !.waiting = Append(@, [cookie |-> cookie, index |-> Len(x.log) + 1])]} ELSE {}

Accept(n, x, cookie) ==
  LET r == script[cookie]
  IN  CASE r.op = "reconfig" -> Reconfig(n, x, cookie, r.ids)
        [] r.op = "learner" -> AddLearner(n, x, cookie, r.id)
        [] r.op = "forget" -> RemoveLearner(n, x, cookie, r.id)
        [] r.op = "submit" -> Command(x, cookie)

(***************************************************************************)
(* Actions.                                                                *)
(***************************************************************************)
\* The bootstrap nodes have elected one of themselves, and its NOOP is committed and applied;
\* the others have just started.
Init ==
  \E l \in Initial :
    /\ \E s \in Scripts : script = s.asks /\ events = s.events
    /\ asked = 0
    /\ node = [n \in Nodes |->
         LET x == Rebuild(n, Fresh(IF n \in Initial THEN <<Noop(1)>> ELSE <<>>, IF n \in Initial THEN 1 ELSE 0, n = l))
         IN  IF n = l THEN [x EXCEPT !.leads = TRUE, !.commit = 1, !.applied = 1, !.peers = [p \in DOMAIN @ |-> 1]]
             ELSE x]
    /\ elected = {[term |-> 1, node |-> l]} /\ chosen = [log |-> <<Noop(1)>>, term |-> 1]

Event == events < MaxEvents /\ events' = events + 1

\* The longest committed prefix.
Chosen(x) ==
  IF x.commit > Len(chosen.log) THEN [log |-> SubSeq(x.log, 1, x.commit), term |-> x.term] ELSE chosen

UpToDate(log, other) ==
  LastTerm(log) > LastTerm(other) \/ (LastTerm(log) = LastTerm(other) /\ Len(log) >= Len(other))

\* A node wins an election with the votes of Q (raft_become_candidate, raft_recv_request_vote,
\* raft_recv_request_vote_result).
Elect(n, Q) ==
  LET x == node[n]
      c == Config(n)
      t == x.term + 1
  IN  /\ ~x.leads /\ n \notin c.learners /\ t <= MaxTerm /\ Len(x.log) + 2 <= MaxLog
      /\ Q \subseteq (c.old \cup c.new) \ {n}
      /\ \A m \in Q : /\ node[m].term < t \/ (node[m].term = t /\ ~node[m].voted)
                     /\ UpToDate(x.log, node[m].log)
      /\ Quorum(c, Q \cup {n})
      /\ node' = [m \in Nodes |->
            IF m = n THEN BecomeLeader(n, [x EXCEPT !.term = t, !.voted = TRUE])
            ELSE IF m \in Q THEN [(IF node[m].term < t THEN StepDown(node[m], t) ELSE node[m]) EXCEPT !.voted = TRUE]
            ELSE node[m]]
      /\ elected' = elected \cup {[term |-> t, node |-> n]}
      /\ UNCHANGED <<script, asked, chosen, events>>

\* An AppendEntries with what the peer lacks of one chunk, and its answer, which may be lost
\* (raft_recv_append_entries, raft_recv_append_entries_result).
Replicate(n, m, answered) ==
  LET x == node[n]
      y == IF node[m].term < x.term THEN StepDown(node[m], x.term) ELSE node[m]
      prev == CHOOSE i \in 0 .. Len(x.log) :
                /\ i <= Len(y.log) /\ \A j \in 1 .. i : x.log[j] = y.log[j]
                /\ i = Len(x.log) \/ i = Len(y.log) \/ x.log[i + 1] # y.log[i + 1]
      upto == Min({Len(x.log), (prev \div Chunk) * Chunk + Chunk})
      a == IF upto = prev THEN y ELSE Rebuild(m, [y EXCEPT !.log = SubSeq(x.log, 1, upto)])
      b == [a EXCEPT !.commit = Max({@, Min({x.commit, upto})})]
      acked == [x EXCEPT !.peers[m] = upto]
      led == IF ~answered THEN x ELSE IF m \in Config(n).learners THEN acked ELSE AdvanceCommit(n, acked)
  IN  /\ x.leads /\ m \in DOMAIN x.peers /\ node[m].term <= x.term /\ ~y.leads
      /\ node' = [node EXCEPT ![m] = b, ![n] = led]
      /\ chosen' = Chosen(led)
      /\ IF answered THEN UNCHANGED events ELSE Event
      /\ UNCHANGED <<script, asked, elected>>

LeaderTick(n, slow) ==
  LET x == Tick(n, node[n], slow)
  IN  /\ node[n].leads
      /\ slow => node[n].term < MaxTerm
      /\ Len(x.log) <= MaxLog
      /\ node' = [node EXCEPT ![n] = x]
      /\ chosen' = Chosen(x)
      /\ IF slow THEN Event ELSE UNCHANGED events
      /\ UNCHANGED <<script, asked, elected>>

Apply(n) ==
  LET x == ApplyComplete(n, node[n])
  IN  /\ node[n].applied < node[n].commit
      /\ Len(x.log) <= MaxLog
      /\ node' = [node EXCEPT ![n] = x]
      /\ UNCHANGED <<script, asked, elected, chosen, events>>

\* The leader has not heard from a quorum for an election timeout.
QuorumLost(n) ==
  /\ node[n].leads
  /\ node' = [node EXCEPT ![n] = StepDown(@, @.term)]
  /\ Event /\ UNCHANGED <<script, asked, elected, chosen>>

\* A caller asks; a refusal changes nothing.
Ask(n) ==
  LET cookie == asked + 1
  IN  /\ cookie \in DOMAIN script
      /\ Len(node[n].log) + 2 <= MaxLog
      /\ \E x \in Accept(n, node[n], cookie) : node' = [node EXCEPT ![n] = x]
      /\ asked' = cookie
      /\ UNCHANGED <<script, elected, chosen, events>>

\* raft_create from what is on disk; the cookies of the process are gone with it.
Restart(n) ==
  /\ LET gone == [i \in DOMAIN (node[n].waiting \o node[n].catchup) |->
                    [cookie |-> (node[n].waiting \o node[n].catchup)[i].cookie, status |-> "crashed"]]
     IN  node' = [node EXCEPT ![n] = Rebuild(n, [Fresh(@.log, @.term, @.voted) EXCEPT !.out = node[n].out \o gone])]
  /\ Event
  /\ UNCHANGED <<script, asked, elected, chosen>>

Next ==
  \/ \E n \in Nodes : \/ \E Q \in SUBSET Nodes : Elect(n, Q)
                      \/ \E m \in Nodes, answered \in BOOLEAN : Replicate(n, m, answered)
                      \/ \E slow \in BOOLEAN : LeaderTick(n, slow)
                      \/ Apply(n) \/ QuorumLost(n) \/ Ask(n) \/ Restart(n)

Spec == Init /\ [][Next]_vars

(***************************************************************************)
(* Properties                                                              *)
(***************************************************************************)
\* One leader per term, across changes of the electorate.
ElectionSafety == \A a, b \in elected : a.term = b.term => a.node = b.node

\* What any configuration has committed, every later leader has, whoever elected it.
LeaderCompleteness ==
  \A n \in Nodes : node[n].leads /\ node[n].term >= chosen.term => IsPrefix(chosen.log, node[n].log)

\* No node takes for committed what another has not.
CommitAgreement == \A n \in Nodes : IsPrefix(SubSeq(node[n].log, 1, node[n].commit), chosen.log)

\* Raft's safety, while the electorate changes under it: the two majorities of a joint
\* configuration (raft_quorum_size_of, raft_count_votes, raft_count_match) never part.
JointSafety == ElectionSafety /\ LeaderCompleteness /\ CommitAgreement

\* A caller whose change was accepted has its cookie in one place until one final result.
Final == {"committed", "redirect", "failed", "crashed"}
Results(n, c, S) == Cardinality({i \in DOMAIN node[n].out : node[n].out[i].cookie = c /\ node[n].out[i].status \in S})
OneResult ==
  \A c \in 1 .. asked :
    LET held(n) == Cardinality({i \in DOMAIN node[n].waiting : node[n].waiting[i].cookie = c})
                   + Cardinality({i \in DOMAIN node[n].catchup : node[n].catchup[i].cookie = c})
        over == IF script[c].op = "reconfig" THEN Final \cup {"catchup_failed"} ELSE Final
    IN  \E n \in Nodes : /\ held(n) + Results(n, c, over) = 1
                         /\ \A m \in Nodes \ {n} : held(m) + Results(m, c, over) = 0

\* A change answered with success was agreed on by both configurations.
ChangeHappened ==
  \A n \in Nodes, c \in 1 .. asked :
    script[c].op = "reconfig" /\ Results(n, c, {"committed"}) > 0
      => script[c].ids = Initial \/ \E i \in DOMAIN chosen.log : chosen.log[i].new = script[c].ids

\* A leader whose log is all committed and applied has left the joint configuration and can
\* change again ("the $4.2.1 make no more progress trap").
ReadyForNext ==
  \A n \in Nodes :
    LET x == node[n]
    IN  x.leads /\ x.applied = Len(x.log) => ~IsJoint(Config(n)) /\ ~ZombieClear(x).pending

\* raft_commit_config_entry, raft_add_learner: "at most one uncommitted config".
OneUncommittedConfig ==
  \A n \in Nodes : node[n].leads =>
    Cardinality({i \in Len(chosen.log) + 1 .. Len(node[n].log) : IsConfig(node[n].log[i])}) <= 1

\* raft_apply_complete: "client_pending is ordered by log_index and retired from the front, so the
\* completed requests are exactly a PREFIX".
CompletedIsPrefix ==
  \A n \in Nodes : \A i \in DOMAIN node[n].waiting : node[n].waiting[i].index > node[n].applied

\* raft_apply_complete: "the deferred-reconfig catch-up is an independent, later reconfiguration and
\* must survive": its new servers stay peers of the leader, which alone can bring them up to date.
CatchupSurvives ==
  \A n \in Nodes : \A i \in DOMAIN node[n].catchup : node[n].catchup[i].new \ {n} \subseteq DOMAIN node[n].peers

\* A learner's caller hears once how the catch-up ended.
LearnerHeardOnce ==
  \A n \in Nodes, c \in 1 .. asked : Results(n, c, {"catchup_ready", "catchup_failed"}) <= 1
=============================================================================
