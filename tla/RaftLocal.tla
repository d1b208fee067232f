----------------------------- MODULE RaftLocal ------------------------------
(***************************************************************************)
(* What one node of Raft keeps, step by step: the inductive invariant of   *)
(* election safety, and for every kind of step of a node (it campaigns, votes, *)
(* counts a vote, wins, gives up, appends, follows, writes, restarts) that the *)
(* part of the invariant about that node still holds.                      *)
(*                                                                         *)
(* A node that led a term may forget that it voted for itself in it: a     *)
(* leader that gives up clears its vote.  Its own entry of the term then   *)
(* protects it: a candidate of the term has none, so its request is not    *)
(* up to date.  The invariant therefore ties the votes to the logs, in     *)
(* memory and on disk.                                                     *)
(***************************************************************************)
EXTENDS Raft, TLAPS

-----------------------------------------------------------------------------
(* Types. *)

Ack == [on : BOOLEAN, to : Node \cup {None}, wait : BOOLEAN, last : Int, confirmed : Nat]
Reject == [on : BOOLEAN, to : Node \cup {None}, wait : BOOLEAN, hint : Nat, last : Nat,
           conflictTerm : Nat, conflictFirst : Nat]
Ctx == [term : Nat, vote : Node \cup {None}, role : {"follower", "candidate", "leader"},
        preVote : BOOLEAN, votes : SUBSET Node, preVotes : SUBSET Node, log : Seq(Nat),
        commit : Nat, next : [Node -> Nat], match : [Node -> Nat], front : Frontier,
        dirty : BOOLEAN, termWait : BOOLEAN, grant : Node \cup {None}, grantWait : BOOLEAN,
        ask : BOOLEAN, askWait : BOOLEAN, ack : Ack, reject : Reject]
Hard == [term : Nat, vote : Node \cup {None}]
DiskImage == [hard : Hard, log : Seq(Nat)]

VoteMsg == [type : {"vote"}, from : Node, term : Nat, lastIndex : Nat, lastTerm : Nat,
            pre : BOOLEAN]
VotedMsg == [type : {"voted"}, from : Node, to : Node, term : Nat, pre : BOOLEAN]
AppendMsg == [type : {"append"}, from : Node, to : Node, term : Nat, prev : Nat,
              prevTerm : Nat, entries : Seq(Nat), commit : Nat]
AppendedMsg == [type : {"appended"}, from : Node, to : Node \cup {None}, term : Nat,
                ok : BOOLEAN, last : Nat, hint : Nat, conflictTerm : Nat, conflictFirst : Nat]
Message == VoteMsg \cup VotedMsg \cup AppendMsg \cup AppendedMsg

\* A rejection points at an index a leader can resume at.
Usable(r) == r.hint >= 1 /\ (r.conflictTerm > 0 => r.conflictFirst >= 1)
CtxOK(s) ==
  /\ s \in Ctx
  /\ s.role = "leader" => \A p \in Node : s.next[p] >= 1
  /\ s.reject.on => Usable(s.reject)
MsgOK(m) ==
  /\ m \in Message
  /\ m.type = "appended" => m.ok \/ Usable(m)

\* With a caller that waits, at most one record is outstanding: the view of
\* the node as it is.
ViewOf(s) == PersistView([term |-> s.term, vote |-> s.vote], s.log, s.front)
WalOK(w, s) == w = IdleWal \/ w = [posted |-> <<ViewOf(s)>>, done |-> << >>]

-----------------------------------------------------------------------------
(* The invariant. *)

\* What node n, in state s, has on its disk d: nothing later, and the log up to the
\* frontier.
OnDisk(s, d) ==
  /\ d.hard.term <= s.term
  /\ s.front.synced <= Len(s.log) /\ s.front.synced <= Len(d.log)
  /\ \A i \in 1 .. s.front.synced : d.log[i] = s.log[i]
  /\ \A i \in 1 .. Len(s.log) : s.log[i] >= 1 /\ s.log[i] <= s.term
  /\ \A i \in 1 .. Len(d.log) : d.log[i] >= 1 /\ d.log[i] <= d.hard.term

\* A node that campaigns or leads has voted for itself; a request or a vote leaves only
\* when its term and vote are on disk.
Standing(n, s, d) ==
  /\ s.role # "follower" => s.vote = n /\ s.grant = None /\ s.term >= 1
  /\ s.role = "candidate" => LastTerm(s.log) < s.term
  /\ s.role = "candidate" /\ s.ask /\ ~s.askWait => d.hard.term = s.term
  /\ s.role = "candidate" /\ d.hard.term = s.term => d.hard.vote = n
  /\ s.role = "leader" => LastTerm(s.log) = s.term
  /\ s.grant # None => s.vote = s.grant /\ s.grant # n
  /\ s.grant # None /\ ~s.grantWait => d.hard.term = s.term /\ d.hard.vote = s.vote

\* What keeps a node that led a term from voting for another in it.
Led(E, t, n) == \E e \in E : e.term = t /\ e.node = n
Office(n, s, d, E) ==
  /\ s.role = "leader" => Led(E, s.term, n)
  /\ s.role = "candidate" \/ s.grant # None => ~Led(E, s.term, n)
  /\ Led(E, s.term, n) => s.vote = n \/ LastTerm(s.log) = s.term
  /\ Led(E, d.hard.term, n) => d.hard.vote = n \/ LastTerm(d.log) = d.hard.term
  /\ Led(E, s.term, n) /\ LastTerm(s.log) = s.term /\ s.front.synced >= Len(s.log)
       => LastTerm(d.log) = s.term
  /\ \A e \in E : e.node = n => e.term <= d.hard.term

\* The votes that left n, and the votes it has counted.
Vote(m) == m.type = "voted" /\ ~m.pre
VotedIn(M, v, c, t) == \E m \in M : Vote(m) /\ m.from = v /\ m.to = c /\ m.term = t
Ballots(n, s, d, M, E) ==
  /\ \A m \in M : Vote(m) /\ m.from = n =>
       /\ m.to # n /\ m.term <= d.hard.term /\ ~Led(E, m.term, n)
       /\ m.term = s.term => s.vote = m.to
       /\ m.term = d.hard.term => d.hard.vote = m.to
  /\ \A a, b \in M : Vote(a) /\ Vote(b) /\ a.from = n /\ b.from = n /\ a.term = b.term => a.to = b.to
  /\ s.role = "candidate" => \A v \in s.votes : v # n /\ VotedIn(M, v, n, s.term)
  /\ \A m \in M : m.type = "vote" /\ ~m.pre /\ m.from = n =>
       m.lastTerm < m.term /\ m.term <= d.hard.term

Local(n, s, d, M, E) ==
  /\ CtxOK(s) /\ d \in DiskImage
  /\ OnDisk(s, d) /\ Standing(n, s, d) /\ Office(n, s, d, E) /\ Ballots(n, s, d, M, E)

\* An append comes from the leader of its term; a vote goes to a candidate that has its
\* term on disk; a leader has the votes of a quorum.
AppendsOK(M, E) ==
  \A m \in M : m.type = "append" =>
    /\ m.from # m.to /\ Led(E, m.term, m.from)
    /\ \A i \in 1 .. Len(m.entries) : m.entries[i] >= 1 /\ m.entries[i] <= m.term
VotesOK(M, D) == \A m \in M : Vote(m) => m.term <= D[m.to].hard.term
GrantsOK(S, D) == \A n \in Node : S[n].grant # None => S[n].term <= D[S[n].grant].hard.term
ElectedOK(M, E) ==
  \A e \in E : \E Q \in SUBSET Node :
    /\ IsQuorum(Q) /\ e.node \in Q
    /\ \A v \in Q : v # e.node => VotedIn(M, v, e.node, e.term)

ElectionInv ==
  /\ DOMAIN node = Node /\ disk \in [Node -> DiskImage] /\ DOMAIN wal = Node
  /\ \A m \in msgs : MsgOK(m)
  /\ elected \subseteq [term : Nat, node : Node]
  /\ \A n \in Node : Local(n, node[n], disk[n], msgs, elected) /\ WalOK(wal[n], node[n])
  /\ AppendsOK(msgs, elected) /\ VotesOK(msgs, disk) /\ GrantsOK(node, disk)
  /\ ElectedOK(msgs, elected)

-----------------------------------------------------------------------------
(* What the operators return. *)

LEMMA Indexed ==
  ASSUME NEW L \in Seq(Nat)
  PROVE  Len(L) \in Nat /\ DOMAIN L = 1 .. Len(L) /\ \A i \in 1 .. Len(L) : L[i] \in Nat
OBVIOUS

LEMMA SameLog ==
  ASSUME NEW K \in Seq(Nat), NEW L \in Seq(Nat), Len(K) = Len(L),
         \A i \in 1 .. Len(K) : K[i] = L[i]
  PROVE  K = L
OBVIOUS

LEMMA Extended ==
  ASSUME NEW L \in Seq(Nat), NEW e \in Nat
  PROVE  /\ Append(L, e) \in Seq(Nat) /\ Len(Append(L, e)) = Len(L) + 1
         /\ Append(L, e)[Len(L) + 1] = e /\ \A i \in 1 .. Len(L) : Append(L, e)[i] = L[i]
OBVIOUS

LEMMA Joined ==
  ASSUME NEW K \in Seq(Nat), NEW L \in Seq(Nat)
  PROVE  /\ K \o L \in Seq(Nat) /\ Len(K \o L) = Len(K) + Len(L)
         /\ \A i \in 1 .. Len(K) + Len(L) : (K \o L)[i] = IF i <= Len(K) THEN K[i] ELSE L[i - Len(K)]
OBVIOUS

LEMMA Sliced ==
  ASSUME NEW L \in Seq(Nat), NEW a \in Int, NEW b \in Int, 1 <= a, b <= Len(L)
  PROVE  /\ SubSeq(L, a, b) \in Seq(Nat)
         /\ Len(SubSeq(L, a, b)) = IF a <= b THEN b - a + 1 ELSE 0
         /\ \A i \in 1 .. b - a + 1 : SubSeq(L, a, b)[i] = L[a + i - 1]
OBVIOUS

LEMMA SlicedNone ==
  ASSUME NEW L, NEW a \in Int, NEW b \in Int, b < a
  PROVE  SubSeq(L, a, b) = << >>
OBVIOUS

\* The least and the greatest element, where there is one.  That a set of naturals has a
\* least element is shown in RaftProofs; the lemmas that rest on it name it as a hypothesis.
WellOrdered == \A T \in SUBSET Nat : T # {} => \E x \in T : \A y \in T : x <= y

LEMMA MinFacts ==
  ASSUME WellOrdered, NEW T, T \subseteq Nat, T # {}
  PROVE  Min(T) \in T /\ \A y \in T : Min(T) <= y
<1>1. \E x \in T : \A y \in T : x <= y
  BY Zenon DEF WellOrdered
<1> QED
  BY <1>1, Zenon DEF Min

LEMMA MaxFacts ==
  ASSUME WellOrdered, NEW T, T \subseteq Nat, T # {}, NEW b \in Nat, \A y \in T : y <= b
  PROVE  Max(T) \in T /\ \A y \in T : y <= Max(T)
<1> DEFINE D == {b - y : y \in T}
<1>1. D \subseteq Nat /\ D # {}
  <2>1. \A y \in T : b - y \in Nat
    OBVIOUS
  <2>2. PICK y : y \in T
    BY Zenon
  <2>3. b - y \in D
    BY <2>2, Zenon
  <2> QED
    BY <2>1, <2>3, Zenon
<1>2. PICK d \in D : \A e \in D : d <= e
  <2> HIDE DEF D
  <2> QED
    BY <1>1, Zenon DEF WellOrdered
<1>3. PICK x \in T : d = b - x
  BY Zenon
<1>4. \A y \in T : b - x <= b - y
  BY <1>2, <1>3, Zenon
<1>5. \E z \in T : \A y \in T : z >= y
  BY <1>4
<1>6. Max(T) \in T /\ \A y \in T : Max(T) >= y
  BY <1>5, Zenon DEF Max
<1> QED
  BY <1>6, Zenon

LEMMA TermAtFacts ==
  ASSUME NEW log \in Seq(Nat)
  PROVE  /\ Len(log) \in Nat /\ LastTerm(log) \in Nat
         /\ \A i \in Int : TermAt(log, i) \in Nat
         /\ LastTerm(log) = IF Len(log) = 0 THEN 0 ELSE log[Len(log)]
  BY Indexed DEF TermAt, LastTerm

\* The deferred replies of a fresh node.
LEMMA NothingPending == NoAck \in Ack /\ NoReject \in Reject /\ Nothing \in [Node -> Nat] /\ ~NoReject.on
  BY DEF NoAck, NoReject, Nothing, Ack, Reject

LEMMA RestoredType ==
  ASSUME NEW d \in DiskImage
  PROVE  CtxOK(Restored(d))
<1>1. d.log \in Seq(Nat) /\ Len(d.log) \in Nat /\ d.hard.term \in Nat /\ d.hard.vote \in Node \cup {None}
  BY Indexed, Zenon DEF DiskImage, Hard
<1>2. RestoredFrontier(d.log) \in Frontier
  BY <1>1, Zenon DEF RestoredFrontier, Frontier
<1>4. Restored(d) \in Ctx
  BY <1>1, <1>2, NothingPending, Zenon DEF Restored, Ctx
<1> QED
  BY <1>4, NothingPending, Zenon DEF Restored, CtxOK

LEMMA StepDownType ==
  ASSUME NEW s, CtxOK(s), NEW t \in Nat
  PROVE  CtxOK(StepDown(s, t))
<1>1. s \in Ctx
  BY Zenon DEF CtxOK
<1>2. StepDown(s, t) \in Ctx
  BY <1>1, NothingPending DEF StepDown, Ctx
<1> QED
  BY <1>1, <1>2, Zenon DEF StepDown, CtxOK, Ctx

LEMMA CandidateType ==
  ASSUME NEW n \in Node, NEW s, CtxOK(s)
  PROVE  CtxOK(BecomeCandidate(n, s))
<1>1. s \in Ctx
  BY Zenon DEF CtxOK
<1>2. BecomeCandidate(n, s) \in Ctx
  <2>1. CASE s.term >= MaxTerm
    BY <1>1, <2>1, Zenon DEF BecomeCandidate, Ctx
  <2>2. CASE ~(s.term >= MaxTerm)
    <3>1. s.term + 1 \in Nat /\ n \in Node \cup {None} /\ None \in Node \cup {None}
      BY <1>1 DEF Ctx
    <3> QED
      BY <1>1, <2>2, <3>1, Zenon DEF BecomeCandidate, Ctx
  <2> QED
    BY <2>1, <2>2, Zenon
<1>3. /\ BecomeCandidate(n, s).reject = s.reject
      /\ BecomeCandidate(n, s).next = s.next
      /\ BecomeCandidate(n, s).role = "leader" => s.role = "leader"
  BY <1>1, Zenon DEF BecomeCandidate, Ctx
<1> QED
  BY <1>2, <1>3, Zenon DEF CtxOK

LEMMA LeaderType ==
  ASSUME NEW s, CtxOK(s)
  PROVE  CtxOK(BecomeLeader(s)) /\ CtxOK(RevertToFollower(s))
<1>1. s \in Ctx
  BY Zenon DEF CtxOK
<1>2. s.log \in Seq(Nat) /\ s.term \in Nat
  BY <1>1, Zenon DEF Ctx
<1> DEFINE log == Append(s.log, s.term)
<1>3. log \in Seq(Nat) /\ Len(log) \in Nat
  BY <1>2, Extended, Indexed, Zenon
<1>4. BecomeLeader(s) = [s EXCEPT !.log = log, !.role = "leader", !.preVote = FALSE, !.dirty = TRUE,
            !.votes = {}, !.preVotes = {}, !.next = [p \in Node |-> Len(log) + 1], !.match = Nothing]
  BY Zenon DEF BecomeLeader
<1> DEFINE nxt == [p \in Node |-> Len(log) + 1]
<1> HIDE DEF log
<1>n. nxt \in [Node -> Nat] /\ \A p \in Node : nxt[p] >= 1
  BY <1>3
<1> HIDE DEF nxt
<1>m. BecomeLeader(s) = [s EXCEPT !.log = log, !.role = "leader", !.preVote = FALSE, !.dirty = TRUE,
            !.votes = {}, !.preVotes = {}, !.next = nxt, !.match = Nothing]
  BY <1>4, Zenon DEF nxt
<1>5. BecomeLeader(s) \in Ctx
  BY <1>1, <1>3, <1>m, <1>n, NothingPending DEF Ctx
<1>7. BecomeLeader(s).reject = s.reject /\ BecomeLeader(s).next = nxt
  BY <1>1, <1>m, Zenon DEF Ctx
<1>8. RevertToFollower(s).reject = s.reject /\ RevertToFollower(s).role = "follower"
  BY <1>1, Zenon DEF RevertToFollower, Ctx
<1>6. RevertToFollower(s) \in Ctx
  BY <1>1, Zenon DEF RevertToFollower, Ctx
<1> QED
  BY <1>5, <1>6, <1>7, <1>8, <1>n, Zenon DEF CtxOK

\* raft_advance_commit moves the commit index and nothing else.
LEMMA AdvanceType ==
  ASSUME WellOrdered, NEW n \in Node, NEW s, CtxOK(s)
  PROVE  /\ CtxOK(AdvanceCommit(n, s))
         /\ \E c \in Nat : AdvanceCommit(n, s) = [s EXCEPT !.commit = c]
<1>1. s \in Ctx /\ s.commit \in Nat /\ Len(s.log) \in Nat
  BY Indexed, Zenon DEF CtxOK, Ctx
<1> DEFINE own == {i \in s.commit + 1 .. Len(s.log) : s.log[i] = s.term}
           held == {i \in own : \A j \in own : j <= i => IsQuorum(Holders(n, s, j))}
           T == {s.commit} \cup held
<1>2. T \subseteq Nat /\ T # {} /\ \A y \in T : y <= s.commit + Len(s.log)
  BY <1>1
<1>3. Max(T) \in Nat
  <2> HIDE DEF T
  <2>1. s.commit + Len(s.log) \in Nat
    BY <1>1
  <2> QED
    BY <1>2, <2>1, MaxFacts, Zenon
<1>4. AdvanceCommit(n, s) = [s EXCEPT !.commit = Max(T)]
  BY Zenon DEF AdvanceCommit
<1> HIDE DEF T
<1>5. [s EXCEPT !.commit = Max(T)] \in Ctx
  BY <1>1, <1>3, Zenon DEF Ctx
<1> QED
  BY <1>1, <1>3, <1>4, <1>5, Zenon DEF CtxOK, Ctx

-----------------------------------------------------------------------------
(* The steps of one node, apart from messages and the disk. *)

\* Nothing of the election changes: a deferred reply or a campaign is dropped at most.
Calm(s, t) ==
  /\ t.term = s.term /\ t.vote = s.vote /\ t.log = s.log /\ t.front.synced = s.front.synced
  /\ t.votes = s.votes
  /\ t.role = s.role \/ (t.role = "follower" /\ s.role # "leader")
  /\ (t.grant = s.grant /\ t.grantWait = s.grantWait) \/ t.grant = None
  /\ t.ask /\ ~t.askWait => s.ask /\ ~s.askWait

LEMMA LocalTypes ==
  ASSUME NEW n, NEW s, NEW d, NEW M, NEW E, Local(n, s, d, M, E)
  PROVE  /\ s.term \in Nat /\ d.hard.term \in Nat /\ d.hard.term <= s.term
         /\ s.role \in {"follower", "candidate", "leader"}
         /\ s.log \in Seq(Nat) /\ Len(s.log) \in Nat /\ d.log \in Seq(Nat) /\ Len(d.log) \in Nat
         /\ LastTerm(s.log) \in Nat /\ LastTerm(s.log) <= s.term
         /\ s.front.synced \in Nat
<1>1. s.term \in Nat /\ s.role \in {"follower", "candidate", "leader"} /\ s.log \in Seq(Nat) /\ s.front.synced \in Nat
  BY Zenon DEF Local, CtxOK, Ctx, Frontier
<1>2. d.hard.term \in Nat /\ d.log \in Seq(Nat) /\ d.hard.term <= s.term
  BY Zenon DEF Local, DiskImage, Hard, OnDisk
<1>3. Len(s.log) \in Nat /\ Len(d.log) \in Nat /\ LastTerm(s.log) \in Nat
  BY <1>1, <1>2, Indexed, TermAtFacts, Zenon
<1>4. LastTerm(s.log) = IF Len(s.log) = 0 THEN 0 ELSE s.log[Len(s.log)]
  BY <1>1, TermAtFacts, Zenon
<1>5. \A i \in 1 .. Len(s.log) : s.log[i] <= s.term
  BY Zenon DEF Local, OnDisk
<1>6. LastTerm(s.log) <= s.term
  <2>1. CASE Len(s.log) = 0
    BY <1>1, <1>4, <2>1
  <2>2. CASE Len(s.log) # 0
    <3>1. Len(s.log) \in 1 .. Len(s.log)
      BY <1>3, <2>2
    <3> QED
      BY <1>4, <1>5, <2>2, <3>1, Zenon
  <2> QED
    BY <2>1, <2>2, Zenon
<1> QED
  BY <1>1, <1>2, <1>3, <1>6, Zenon

LEMMA CalmStep ==
  ASSUME NEW n \in Node, NEW s, NEW t, NEW d, NEW M, NEW E,
         Local(n, s, d, M, E), CtxOK(t), Calm(s, t)
  PROVE  Local(n, t, d, M, E)
<1>1. OnDisk(t, d)
  BY Zenon DEF Local, OnDisk, Calm
<1>2. Standing(n, t, d)
  BY Zenon DEF Local, Standing, Calm
<1>3. Office(n, t, d, E)
  BY Zenon DEF Local, Office, Calm
<1>4. Ballots(n, t, d, M, E)
  BY Zenon DEF Local, Ballots, Calm
<1> QED
  BY <1>1, <1>2, <1>3, <1>4, Zenon DEF Local

\* The vote is cleared: in a later term, or by a leader or a candidate that gives up.
Lapse(s, t) ==
  /\ t.log = s.log /\ t.front.synced = s.front.synced
  /\ t.role = "follower" /\ t.vote = None /\ t.grant = None
  /\ t.term > s.term \/ (t.term = s.term /\ s.role # "follower")

LEMMA LapseStep ==
  ASSUME NEW n \in Node, NEW s, NEW t, NEW d, NEW M, NEW E,
         Local(n, s, d, M, E), CtxOK(t), Lapse(s, t), \A m \in M : MsgOK(m),
         E \subseteq [term : Nat, node : Node]
  PROVE  Local(n, t, d, M, E)
<1>a. t.term \in Nat
  BY Zenon DEF CtxOK, Ctx
<1>t. s.term \in Nat /\ t.term \in Nat /\ d.hard.term \in Nat /\ t.term >= s.term /\ d.hard.term <= s.term
  BY <1>a, LocalTypes DEF Lapse
<1>1. OnDisk(t, d)
  <2>1. \A i \in 1 .. Len(s.log) : s.log[i] \in Nat
    BY Indexed, Zenon DEF Local, CtxOK, Ctx
  <2> QED
    BY <1>t, <2>1 DEF Local, OnDisk, Lapse
<1>2. Standing(n, t, d)
  BY Zenon DEF Standing, Lapse
<1>3. Office(n, t, d, E)
  <2>1. CASE t.term > s.term
    <3>1. ~Led(E, t.term, n)
      BY <1>t, <2>1 DEF Local, Office, Led
    <3> QED
      BY <3>1, Zenon DEF Local, Office, Lapse
  <2>2. CASE t.term = s.term /\ s.role = "leader"
    BY <2>2, Zenon DEF Local, Office, Standing, Lapse
  <2>3. CASE t.term = s.term /\ s.role = "candidate"
    BY <2>3, Zenon DEF Local, Office, Lapse
  <2>4. s.role \in {"follower", "candidate", "leader"}
    BY Zenon DEF Local, CtxOK, Ctx
  <2> QED
    BY <2>1, <2>2, <2>3, <2>4, Zenon DEF Lapse
<1>4. Ballots(n, t, d, M, E)
  <2>1. ASSUME NEW m \in M, Vote(m), m.from = n PROVE m.term # t.term
    <3>1. m.term <= d.hard.term /\ m.to # n /\ (m.term = s.term => s.vote = m.to)
      BY <2>1, Zenon DEF Local, Ballots
    <3>2. m.term \in Nat
      BY <2>1, Zenon DEF MsgOK, Message, VoteMsg, VotedMsg, AppendMsg, AppendedMsg
    <3>3. s.role # "follower" => s.vote = n
      BY Zenon DEF Local, Standing
    <3> QED
      BY <1>t, <3>1, <3>2, <3>3 DEF Lapse
  <2> QED
    BY <2>1, Zenon DEF Local, Ballots, Lapse
<1> QED
  BY <1>1, <1>2, <1>3, <1>4, Zenon DEF Local

\* A vote is granted: to a candidate whose log is not behind, so the node did not lead.
Granted(s, t, c) ==
  /\ t.term = s.term /\ t.log = s.log /\ t.front.synced = s.front.synced /\ t.role = s.role
  /\ t.vote = c /\ t.grant = c /\ t.grantWait
  /\ s.vote \in {None, c} /\ LastTerm(s.log) < s.term

LEMMA GrantStep ==
  ASSUME NEW n \in Node, NEW s, NEW t, NEW d, NEW M, NEW E, NEW c \in Node, c # n,
         Local(n, s, d, M, E), CtxOK(t), Granted(s, t, c), \A m \in M : MsgOK(m)
  PROVE  Local(n, t, d, M, E)
<1>n. None \notin Node
  BY RaftAssumption, Zenon
<1>f. s.role = "follower" /\ LastTerm(s.log) # s.term /\ s.vote # n
  <2>1. LastTerm(s.log) \in Nat /\ s.term \in Nat
    BY TermAtFacts, Zenon DEF Local, CtxOK, Ctx
  <2> QED
    BY <1>n, <2>1 DEF Local, Standing, Granted
<1>1. OnDisk(t, d)
  BY Zenon DEF Local, OnDisk, Granted
<1>2. Standing(n, t, d)
  BY <1>f, Zenon DEF Local, Standing, Granted
<1>3. Office(n, t, d, E)
  <2>1. ~Led(E, s.term, n)
    BY <1>f, Zenon DEF Local, Office
  <2> QED
    BY <1>f, <2>1, Zenon DEF Local, Office, Granted
<1>4. Ballots(n, t, d, M, E)
  <2>1. ASSUME NEW m \in M, Vote(m), m.from = n, m.term = s.term PROVE m.to = c
    <3>1. s.vote = m.to
      BY <2>1, Zenon DEF Local, Ballots
    <3>2. m.to \in Node
      BY <2>1, Zenon DEF Vote, MsgOK, Message, VoteMsg, VotedMsg, AppendMsg, AppendedMsg
    <3> QED
      BY <1>n, <3>1, <3>2, Zenon DEF Granted
  <2> QED
    BY <1>f, <2>1, Zenon DEF Local, Ballots, Granted
<1> QED
  BY <1>1, <1>2, <1>3, <1>4, Zenon DEF Local

\* raft_become_candidate: a term the node was never in.
Campaigned(n, s, t) ==
  /\ t.term = s.term + 1 /\ t.vote = n /\ t.role = "candidate" /\ t.votes = {}
  /\ t.log = s.log /\ t.front.synced = s.front.synced
  /\ t.grant = None /\ t.ask /\ t.askWait

LEMMA CampaignStep ==
  ASSUME NEW n \in Node, NEW s, NEW t, NEW d, NEW M, NEW E,
         Local(n, s, d, M, E), CtxOK(t), Campaigned(n, s, t), \A m \in M : MsgOK(m),
         E \subseteq [term : Nat, node : Node]
  PROVE  Local(n, t, d, M, E)
<1>t. s.term \in Nat /\ t.term \in Nat /\ d.hard.term \in Nat /\ t.term = s.term + 1 /\ d.hard.term <= s.term
  BY LocalTypes DEF Campaigned
<1>s. s.log \in Seq(Nat) /\ Len(s.log) \in Nat /\ \A i \in 1 .. Len(s.log) : s.log[i] \in Nat
  BY Indexed, Zenon DEF Local, CtxOK, Ctx
<1>1. OnDisk(t, d)
  BY <1>t, <1>s DEF Local, OnDisk, Campaigned
<1>l. LastTerm(s.log) < t.term
  BY <1>t, LocalTypes
<1>2. Standing(n, t, d)
  BY <1>t, <1>l DEF Standing, Campaigned
<1>3. Office(n, t, d, E)
  <2>1. ~Led(E, t.term, n)
    BY <1>t DEF Local, Office, Led
  <2> QED
    BY <2>1, Zenon DEF Local, Office, Campaigned
<1>4. Ballots(n, t, d, M, E)
  <2>1. ASSUME NEW m \in M, Vote(m), m.from = n PROVE m.term # t.term
    <3>1. m.term <= d.hard.term
      BY <2>1, Zenon DEF Local, Ballots
    <3>2. m.term \in Nat
      BY <2>1, Zenon DEF MsgOK, Message, VoteMsg, VotedMsg, AppendMsg, AppendedMsg
    <3> QED
      BY <1>t, <3>1, <3>2
  <2> QED
    BY <2>1, Zenon DEF Local, Ballots, Campaigned
<1> QED
  BY <1>1, <1>2, <1>3, <1>4, Zenon DEF Local

\* A vote is counted.
Counted(s, t, v) ==
  /\ t.term = s.term /\ t.vote = s.vote /\ t.log = s.log /\ t.front.synced = s.front.synced
  /\ t.role = s.role /\ t.grant = s.grant /\ t.grantWait = s.grantWait
  /\ t.ask = s.ask /\ t.askWait = s.askWait
  /\ t.votes = s.votes \cup {v}

LEMMA CountStep ==
  ASSUME NEW n \in Node, NEW s, NEW t, NEW d, NEW M, NEW E, NEW v \in Node, v # n,
         Local(n, s, d, M, E), CtxOK(t), Counted(s, t, v), VotedIn(M, v, n, s.term)
  PROVE  Local(n, t, d, M, E)
<1>1. OnDisk(t, d)
  BY Zenon DEF Local, OnDisk, Counted
<1>2. Standing(n, t, d)
  BY Zenon DEF Local, Standing, Counted
<1>3. Office(n, t, d, E)
  BY Zenon DEF Local, Office, Counted
<1>4. Ballots(n, t, d, M, E)
  BY Zenon DEF Local, Ballots, Counted
<1> QED
  BY <1>1, <1>2, <1>3, <1>4, Zenon DEF Local

LEMMA AppendFacts ==
  ASSUME NEW log \in Seq(Nat), NEW x \in Nat
  PROVE  /\ Append(log, x) \in Seq(Nat) /\ Len(Append(log, x)) = Len(log) + 1
         /\ \A i \in 1 .. Len(log) : Append(log, x)[i] = log[i]
         /\ Append(log, x)[Len(log) + 1] = x
         /\ LastTerm(Append(log, x)) = x
<1>1. Len(log) \in Nat
  BY Indexed, Zenon
<1>2. /\ Append(log, x) \in Seq(Nat) /\ Len(Append(log, x)) = Len(log) + 1
      /\ \A i \in 1 .. Len(log) : Append(log, x)[i] = log[i]
      /\ Append(log, x)[Len(log) + 1] = x
  BY Extended, Zenon
<1> DEFINE q == Append(log, x)
<1> HIDE DEF q
<1>3. q \in Seq(Nat) /\ Len(q) = Len(log) + 1 /\ q[Len(log) + 1] = x
  BY <1>2, Zenon DEF q
<1>4. LastTerm(q) = IF Len(q) = 0 THEN 0 ELSE q[Len(q)]
  BY <1>3, TermAtFacts, Zenon
<1>5. LastTerm(q) = x
  BY <1>1, <1>3, <1>4
<1> QED
  BY <1>2, <1>5, Zenon DEF q

\* An entry of the current term is appended.
LEMMA AppendOnDisk ==
  ASSUME NEW n, NEW s, NEW t, NEW d, NEW M, NEW E, Local(n, s, d, M, E), s.term >= 1,
         t.term = s.term, t.log = Append(s.log, s.term), t.front.synced = s.front.synced
  PROVE  /\ OnDisk(t, d) /\ LastTerm(t.log) = s.term
         /\ ~(t.front.synced >= Len(t.log))
<1>1. /\ s.term \in Nat /\ s.log \in Seq(Nat) /\ Len(s.log) \in Nat /\ s.front.synced \in Nat
  BY LocalTypes, Zenon
<1>2. /\ Len(t.log) = Len(s.log) + 1
      /\ \A i \in 1 .. Len(s.log) : t.log[i] = s.log[i]
      /\ t.log[Len(s.log) + 1] = s.term
      /\ LastTerm(t.log) = s.term
  BY <1>1, AppendFacts
<1>3. \A i \in 1 .. Len(t.log) : i \in 1 .. Len(s.log) \/ i = Len(s.log) + 1
  BY <1>1, <1>2
<1>4. OnDisk(s, d)
  BY Zenon DEF Local
<1>5. \A i \in 1 .. Len(t.log) : t.log[i] >= 1 /\ t.log[i] <= t.term
  BY <1>1, <1>2, <1>3, <1>4 DEF OnDisk
<1>6. \A i \in 1 .. t.front.synced : d.log[i] = t.log[i]
  <2>1. \A i \in 1 .. s.front.synced : i \in 1 .. Len(s.log)
    BY <1>1, <1>4 DEF OnDisk
  <2> QED
    BY <1>2, <1>4, <2>1, Zenon DEF OnDisk
<1>7. t.front.synced <= Len(t.log) /\ ~(t.front.synced >= Len(t.log))
  BY <1>1, <1>2, <1>4 DEF OnDisk
<1> QED
  BY <1>2, <1>4, <1>5, <1>6, <1>7, Zenon DEF OnDisk

Won(s, t) ==
  /\ t.term = s.term /\ t.vote = s.vote /\ t.role = "leader" /\ t.log = Append(s.log, s.term)
  /\ t.front.synced = s.front.synced /\ t.grant = s.grant

LEMMA WinStep ==
  ASSUME NEW n \in Node, NEW s, NEW t, NEW d, NEW M, NEW E,
         Local(n, s, d, M, E), CtxOK(t), Won(s, t), s.role = "candidate",
         d.hard.term = s.term, \A m \in M : MsgOK(m)
  PROVE  Local(n, t, d, M, E \cup {[term |-> s.term, node |-> n]})
<1> DEFINE e0 == [term |-> s.term, node |-> n]
           F == E \cup {e0}
<1>0. e0.term = s.term /\ e0.node = n /\ e0 \in F /\ \A e \in F : e \in E \/ e = e0
  BY Zenon
<1> HIDE DEF e0, F
<1>s. s.vote = n /\ s.grant = None /\ s.term >= 1 /\ d.hard.vote = n
  BY Zenon DEF Local, Standing
<1>1. OnDisk(t, d) /\ LastTerm(t.log) = s.term /\ ~(t.front.synced >= Len(t.log))
  BY <1>s, AppendOnDisk, Zenon DEF Won
<1>2. Standing(n, t, d)
  BY <1>s, <1>1, Zenon DEF Standing, Won
<1>l. \A x : Led(F, x, n) => Led(E, x, n) \/ x = s.term
  BY <1>0, Zenon DEF Led
<1>k. Led(F, s.term, n)
  BY <1>0, Zenon DEF Led
<1>t. s.term \in Nat
  BY LocalTypes, Zenon
<1>3. Office(n, t, d, F)
  <2>1. \A e \in F : e.node = n => e.term <= d.hard.term
    BY <1>0, <1>t DEF Local, Office
  <2> QED
    BY <1>s, <1>1, <1>k, <2>1, Zenon DEF Office, Won
<1>4. Ballots(n, t, d, M, F)
  <2>1. ASSUME NEW m \in M, Vote(m), m.from = n PROVE ~Led(F, m.term, n)
    <3>1. ~Led(E, m.term, n) /\ m.term # s.term
      BY <2>1, <1>s, Zenon DEF Local, Ballots
    <3> QED
      BY <3>1, <1>l, Zenon
  <2> QED
    BY <2>1, Zenon DEF Local, Ballots, Won
<1>5. Local(n, t, d, M, F)
  BY <1>1, <1>2, <1>3, <1>4, Zenon DEF Local
<1> QED
  BY <1>5, Zenon DEF F, e0

LEMMA SubmitStep ==
  ASSUME NEW n \in Node, NEW s, NEW t, NEW d, NEW M, NEW E,
         Local(n, s, d, M, E), CtxOK(t), Won(s, t), s.role = "leader"
  PROVE  Local(n, t, d, M, E)
<1>s. s.vote = n /\ s.grant = None /\ s.term >= 1
  BY Zenon DEF Local, Standing
<1>1. OnDisk(t, d) /\ LastTerm(t.log) = s.term /\ ~(t.front.synced >= Len(t.log))
  BY <1>s, AppendOnDisk, Zenon DEF Won
<1>2. Standing(n, t, d)
  BY <1>s, <1>1, Zenon DEF Standing, Won
<1>3. Office(n, t, d, E)
  BY <1>s, <1>1, Zenon DEF Local, Office, Won
<1>4. Ballots(n, t, d, M, E)
  BY Zenon DEF Local, Ballots, Won
<1> QED
  BY <1>1, <1>2, <1>3, <1>4, Zenon DEF Local

\* A follower's log follows the leader's: what it keeps below the frontier it had before.
Followed(s, t) ==
  /\ t.term = s.term /\ t.vote = s.vote /\ t.role = "follower" /\ s.role = "follower"
  /\ t.grant = s.grant /\ t.grantWait = s.grantWait
  /\ t.log \in Seq(Nat) /\ \A i \in 1 .. Len(t.log) : t.log[i] >= 1 /\ t.log[i] <= s.term
  /\ t.front.synced <= s.front.synced /\ t.front.synced <= Len(t.log)
  /\ \A i \in 1 .. t.front.synced : t.log[i] = s.log[i]

LEMMA FollowStep ==
  ASSUME NEW n \in Node, NEW s, NEW t, NEW d, NEW M, NEW E,
         Local(n, s, d, M, E), CtxOK(t), Followed(s, t), ~Led(E, s.term, n)
  PROVE  Local(n, t, d, M, E)
<1>1. OnDisk(t, d)
  <2>1. t.front.synced \in Nat /\ s.front.synced \in Nat /\ Len(d.log) \in Nat
    <3>1. t.front.synced \in Nat
      BY Zenon DEF CtxOK, Ctx, Frontier
    <3> QED
      BY <3>1, LocalTypes, Zenon
  <2>2. OnDisk(s, d)
    BY Zenon DEF Local
  <2>3. \A i \in 1 .. t.front.synced : d.log[i] = t.log[i]
    BY <2>1, <2>2 DEF OnDisk, Followed
  <2> QED
    BY <2>1, <2>2, <2>3 DEF OnDisk, Followed
<1>2. Standing(n, t, d)
  BY Zenon DEF Local, Standing, Followed
<1>3. Office(n, t, d, E)
  BY Zenon DEF Local, Office, Followed
<1>4. Ballots(n, t, d, M, E)
  BY Zenon DEF Local, Ballots, Followed
<1> QED
  BY <1>1, <1>2, <1>3, <1>4, Zenon DEF Local

-----------------------------------------------------------------------------
(* The disk. *)

LEMMA TailFacts ==
  ASSUME NEW L \in Seq(Nat), NEW k \in Nat, k < Len(L)
  PROVE  LET b == SubSeq(L, k + 1, Len(L))
         IN  b \in Seq(Nat) /\ Len(b) = Len(L) - k /\ \A i \in 1 .. Len(L) - k : b[i] = L[k + i]
<1>1. /\ SubSeq(L, k + 1, Len(L)) \in Seq(Nat)
      /\ Len(SubSeq(L, k + 1, Len(L))) = Len(L) - k
      /\ \A i \in 1 .. Len(L) - k : SubSeq(L, k + 1, Len(L))[i] = L[k + i]
  OBVIOUS
<1> QED
  BY <1>1, Zenon

\* The log below the frontier as the disk has it, and the rest as the record has it.
LEMMA WrittenLog ==
  ASSUME NEW L \in Seq(Nat), NEW D \in Seq(Nat), NEW k \in Nat, k < Len(L), k <= Len(D),
         \A i \in 1 .. k : D[i] = L[i]
  PROVE  Truncate(D, k) \o SubSeq(L, k + 1, Len(L)) = L
<1> DEFINE a == Truncate(D, k)
           b == SubSeq(L, k + 1, Len(L))
           c == a \o b
<1>0. Len(L) \in Nat /\ Len(D) \in Nat
  BY Indexed, Zenon
<1>1. a \in Seq(Nat) /\ Len(a) = k /\ \A i \in 1 .. k : a[i] = D[i]
  <2>1. CASE k < Len(D)
    <3>1. \A i \in 1 .. k : D[i] \in Nat
      BY <1>0, Indexed
    <3> QED
      BY <1>0, <2>1, <3>1, Sliced DEF Truncate
  <2>2. CASE k = Len(D)
    BY <1>0, <2>2 DEF Truncate
  <2> QED
    BY <1>0, <2>1, <2>2
<1>2. b \in Seq(Nat) /\ Len(b) = Len(L) - k /\ \A i \in 1 .. Len(L) - k : b[i] = L[k + i]
  BY TailFacts, Zenon
<1> HIDE DEF a, b
<1>3. /\ c \in Seq(Nat) /\ Len(c) = Len(a) + Len(b)
      /\ \A i \in 1 .. Len(a) + Len(b) : c[i] = IF i <= Len(a) THEN a[i] ELSE b[i - Len(a)]
  BY <1>1, <1>2, Joined, Zenon
<1> HIDE DEF c
<1>4. Len(c) = Len(L)
  BY <1>0, <1>1, <1>2, <1>3
<1>5. ASSUME NEW i \in 1 .. Len(c) PROVE c[i] = L[i]
  <2>1. CASE i <= k
    <3>1. i \in 1 .. k /\ i \in 1 .. Len(a) + Len(b) /\ i <= Len(a)
      BY <1>0, <1>1, <1>2, <1>3, <2>1
    <3>2. c[i] = a[i]
      BY <1>3, <3>1, Zenon
    <3> QED
      BY <1>1, <3>1, <3>2, Zenon
  <2>2. CASE ~(i <= k)
    <3>1. i - k \in 1 .. Len(L) - k /\ k + (i - k) = i
      BY <1>0, <1>4, <2>2
    <3>2. c[i] = b[i - k]
      BY <1>0, <1>1, <1>2, <1>3, <1>4, <2>2, Zenon
    <3> QED
      BY <1>2, <3>1, <3>2, Zenon
  <2> QED
    BY <2>1, <2>2, Zenon
<1>6. c = L
  BY <1>3, <1>4, <1>5, SameLog, Zenon
<1> QED
  BY <1>6, Zenon DEF a, b, c

\* What a record leaves on disk: the term and vote of the node and, if anything was above
\* the frontier, its log.
LEMMA RecoveredFacts ==
  ASSUME NEW s, NEW d, s \in Ctx, d \in DiskImage, OnDisk(s, d)
  PROVE  LET r == Recovered(d, ViewOf(s)) IN
         /\ r \in DiskImage /\ r.hard.term = s.term /\ r.hard.vote = s.vote
         /\ r.log = IF s.front.synced < Len(s.log) THEN s.log ELSE d.log
         /\ ViewOf(s).durable = IF s.front.synced < Len(s.log) THEN Len(s.log) ELSE 0
<1> DEFINE k == s.front.synced
           h == [term |-> s.term, vote |-> s.vote]
           v == ViewOf(s)
<1>1. /\ s.log \in Seq(Nat) /\ Len(s.log) \in Nat /\ k \in Nat /\ s.term \in Nat /\ h \in Hard
  BY Indexed, Zenon DEF Ctx, Frontier, Hard
<1>2. d.log \in Seq(Nat) /\ Len(d.log) \in Nat /\ d.hard \in Hard /\ d.hard.term \in Nat
  BY Indexed, Zenon DEF DiskImage, Hard
<1>3. v.hard = h /\ v.from - 1 = k /\ v.entries = SubSeq(s.log, k + 1, Len(s.log))
      /\ v.durable = IF k < Len(s.log) THEN Len(s.log) ELSE 0
  <2> DEFINE e == SubSeq(s.log, k + 1, Len(s.log))
             u == IF k < Len(s.log) THEN Len(s.log) ELSE 0
  <2>1. v = [hard |-> h, from |-> k + 1, entries |-> e, durable |-> u]
    BY Zenon DEF ViewOf, PersistView
  <2> HIDE DEF e, u, v, h
  <2>2. v.hard = h /\ v.from = k + 1 /\ v.entries = e /\ v.durable = u
    BY <2>1, Zenon
  <2> QED
    BY <1>1, <2>2 DEF e, u
<1>4. Recovered(d, v).hard = h
  <2>1. h.term >= d.hard.term
    BY <1>1, <1>2, Zenon DEF OnDisk
  <2> QED
    BY <1>3, <2>1, Zenon DEF Recovered, RecoverHard
<1>5. Recovered(d, v).log = IF k < Len(s.log) THEN s.log ELSE d.log
  <2>1. Recovered(d, v).log = IF v.entries = << >> THEN d.log ELSE Truncate(d.log, k) \o v.entries
    BY <1>3, Zenon DEF Recovered, RecoverLog
  <2>2. CASE k < Len(s.log)
    <3>1. v.entries # << >>
      <4>1. Len(v.entries) = Len(s.log) - k
        <5>1. PICK L, x : L = s.log /\ x = k
          BY Zenon
        <5>2. L \in Seq(Nat) /\ x \in Nat /\ x < Len(L)
          BY <1>1, <2>2, <5>1, Zenon
        <5>3. Len(SubSeq(L, x + 1, Len(L))) = Len(L) - x
          BY <5>2, TailFacts, Zenon
        <5> QED
          BY <1>3, <5>1, <5>3, Zenon
      <4> QED
        BY <1>1, <2>2, <4>1
    <3>2. k <= Len(d.log) /\ \A i \in 1 .. k : d.log[i] = s.log[i]
      BY Zenon DEF OnDisk
    <3>3. Truncate(d.log, k) \o SubSeq(s.log, k + 1, Len(s.log)) = s.log
      BY <1>1, <1>2, <2>2, <3>2, WrittenLog, Zenon
    <3> QED
      BY <1>3, <2>1, <2>2, <3>1, <3>3, Zenon
  <2>3. CASE ~(k < Len(s.log))
    <3>1. v.entries = << >>
      BY <1>1, <1>3, <2>3, SlicedNone
    <3> QED
      BY <2>1, <2>3, <3>1, Zenon
  <2> QED
    BY <2>2, <2>3, Zenon
<1> HIDE DEF v
<1>6. Recovered(d, v) = [hard |-> Recovered(d, v).hard, log |-> Recovered(d, v).log]
  BY Zenon DEF Recovered
<1>7. Recovered(d, v) \in DiskImage
  BY <1>1, <1>2, <1>4, <1>5, <1>6, Zenon DEF DiskImage
<1> QED
  BY <1>1, <1>3, <1>4, <1>5, <1>7 DEF v

Wrote(s, t) ==
  /\ t.term = s.term /\ t.vote = s.vote /\ t.role = s.role /\ t.log = s.log /\ t.votes = s.votes
  /\ t.grant = s.grant
  /\ t.front.synced = IF s.front.synced < Len(s.log) THEN Len(s.log) ELSE s.front.synced

\* The record of a node that stands still until it is written.
LEMMA WroteStep ==
  ASSUME NEW n \in Node, NEW s, NEW t, NEW d, NEW M, NEW E,
         Local(n, s, d, M, E), CtxOK(t), Wrote(s, t), \A m \in M : MsgOK(m),
         E \subseteq [term : Nat, node : Node]
  PROVE  Local(n, t, Recovered(d, ViewOf(s)), M, E)
<1> DEFINE r == Recovered(d, ViewOf(s))
<1>1. /\ r \in DiskImage /\ r.hard.term = s.term /\ r.hard.vote = s.vote
      /\ r.log = IF s.front.synced < Len(s.log) THEN s.log ELSE d.log
  BY RecoveredFacts, Zenon DEF Local, CtxOK
<1> HIDE DEF r
<1>2. /\ s.term \in Nat /\ d.hard.term \in Nat /\ d.hard.term <= s.term
      /\ Len(s.log) \in Nat /\ Len(d.log) \in Nat /\ s.front.synced \in Nat /\ d.log \in Seq(Nat)
  BY LocalTypes, Zenon
<1>3. OnDisk(s, d)
  BY Zenon DEF Local
<1>4. OnDisk(t, r)
  <2>1. CASE s.front.synced < Len(s.log)
    BY <1>1, <1>2, <1>3, <2>1 DEF OnDisk, Wrote
  <2>2. CASE ~(s.front.synced < Len(s.log))
    <3>1. \A i \in 1 .. Len(d.log) : d.log[i] \in Nat
      BY <1>2, Indexed, Zenon
    <3> QED
      BY <1>1, <1>2, <1>3, <2>2, <3>1 DEF OnDisk, Wrote
  <2> QED
    BY <2>1, <2>2, Zenon
<1>5. Standing(n, t, r)
  BY <1>1, Zenon DEF Local, Standing, Wrote
<1>6. Office(n, t, r, E)
  <2>1. \A e \in E : e.node = n => e.term <= r.hard.term
    BY <1>1, <1>2 DEF Local, Office
  <2>2. Led(E, s.term, n) /\ LastTerm(s.log) = s.term => LastTerm(r.log) = s.term
    BY <1>1, <1>2 DEF Local, Office
  <2> QED
    BY <1>1, <2>1, <2>2, Zenon DEF Local, Office, Wrote
<1>7. Ballots(n, t, r, M, E)
  <2>1. \A m \in M : m.term \in Nat
    BY Zenon DEF MsgOK, Message, VoteMsg, VotedMsg, AppendMsg, AppendedMsg
  <2>2. \A m \in M : m.term <= d.hard.term => m.term <= r.hard.term
    BY <1>1, <1>2, <2>1
  <2> QED
    BY <1>1, <2>2, Zenon DEF Local, Ballots, Wrote
<1> QED
  BY <1>1, <1>4, <1>5, <1>6, <1>7, Zenon DEF Local, r

\* A crash and the recovery.
LEMMA RestartStep ==
  ASSUME NEW n \in Node, NEW s, NEW d, NEW M, NEW E, Local(n, s, d, M, E)
  PROVE  Local(n, Restored(d), d, M, E)
<1> DEFINE t == Restored(d)
<1>1. /\ d \in DiskImage /\ d.hard.term \in Nat /\ d.log \in Seq(Nat) /\ Len(d.log) \in Nat
  BY LocalTypes, Zenon DEF Local
<1>2. CtxOK(t)
  BY <1>1, RestoredType, Zenon
<1>3. /\ t.term = d.hard.term /\ t.vote = d.hard.vote /\ t.role = "follower" /\ t.log = d.log
      /\ t.grant = None /\ t.front.synced = Len(d.log)
  BY Zenon DEF Restored, RestoredFrontier
<1> HIDE DEF t
<1>4. OnDisk(t, d)
  BY <1>1, <1>3 DEF Local, OnDisk
<1>5. Standing(n, t, d)
  BY <1>3, Zenon DEF Standing
<1>6. Office(n, t, d, E)
  BY <1>3, Zenon DEF Local, Office
<1>7. Ballots(n, t, d, M, E)
  BY <1>3, Zenon DEF Local, Ballots
<1> QED
  BY <1>1, <1>2, <1>4, <1>5, <1>6, <1>7, Zenon DEF Local, t

-----------------------------------------------------------------------------
(* Messages. *)

\* A request for a real vote, as opposed to a pre-vote.
Request(m) == m.type = "vote" /\ ~m.pre

\* Messages that are neither a vote of n nor a request of it.
LEMMA MoreMessages ==
  ASSUME NEW n, NEW s, NEW d, NEW M, NEW E, NEW out, Local(n, s, d, M, E),
         \A m \in out : m.from = n => ~Vote(m) /\ ~Request(m)
  PROVE  Local(n, s, d, M \cup out, E)
<1>1. \A v, c, t : VotedIn(M, v, c, t) => VotedIn(M \cup out, v, c, t)
  BY Zenon DEF VotedIn
<1>2. Ballots(n, s, d, M, E)
  BY Zenon DEF Local
<1>3. Ballots(n, s, d, M \cup out, E)
  BY <1>1, <1>2, Zenon DEF Ballots, Request
<1> QED
  BY <1>3, Zenon DEF Local

\* Another node takes office.
LEMMA MoreElected ==
  ASSUME NEW n, NEW s, NEW d, NEW M, NEW E, NEW e0, Local(n, s, d, M, E), e0.node # n
  PROVE  Local(n, s, d, M, E \cup {e0})
<1>1. \A t : Led(E \cup {e0}, t, n) <=> Led(E, t, n)
  BY Zenon DEF Led
<1>2. Office(n, s, d, E \cup {e0})
  BY <1>1, Zenon DEF Local, Office
<1>3. Ballots(n, s, d, M, E \cup {e0})
  BY <1>1, Zenon DEF Local, Ballots
<1> QED
  BY <1>2, <1>3, Zenon DEF Local

\* The replies raft_advance lets go.
LEMMA ReleasedFacts ==
  ASSUME NEW n \in Node, NEW s, CtxOK(s), NEW m \in ReleasedMsgs(n, s)
  PROVE  /\ MsgOK(m) /\ m.from = n /\ m.type # "append"
         /\ Vote(m) => m.to = s.grant /\ m.term = s.term /\ s.grant # None /\ ~s.grantWait
         /\ Request(m) => /\ m.lastTerm = LastTerm(s.log) /\ m.term = s.term
                          /\ s.ask /\ ~s.askWait /\ s.role = "candidate"
<1>1. /\ s.term \in Nat /\ s.log \in Seq(Nat) /\ s.grant \in Node \cup {None} /\ s.ack \in Ack
      /\ s.reject \in Reject /\ s.front \in Frontier
  BY Zenon DEF CtxOK, Ctx
<1>2. Len(s.log) \in Nat /\ LastTerm(s.log) \in Nat
  BY <1>1, TermAtFacts, Zenon
<1>3. CASE s.grant # None /\ ~s.grantWait /\ m = VoteResult(n, s.grant, s, FALSE)
  <2>1. m \in VotedMsg
    BY <1>1, <1>3, Zenon DEF VoteResult, VotedMsg
  <2> QED
    BY <1>3, <2>1, Zenon DEF VoteResult, MsgOK, Message, Vote, Request
<1>4. CASE s.ack.on /\ ~s.ack.wait /\ AckReport(s) > s.ack.last
           /\ m = AppendResult(n, s.ack.to, s, TRUE, AckReport(s), 0, 0, 0)
  <2>1. AckReport(s) \in Nat /\ s.ack.to \in Node \cup {None}
    BY <1>1, <1>2, Zenon DEF AckReport, Lesser, Frontier, Ack
  <2>2. m \in AppendedMsg
    BY <1>1, <1>4, <2>1, Zenon DEF AppendResult, AppendedMsg
  <2> QED
    BY <1>4, <2>2, Zenon DEF AppendResult, MsgOK, Message, Vote, Request
<1>5. CASE s.reject.on /\ ~s.reject.wait
           /\ m = AppendResult(n, s.reject.to, s, FALSE, s.reject.last, s.reject.hint,
                               s.reject.conflictTerm, s.reject.conflictFirst)
  <2>1. m \in AppendedMsg
    BY <1>1, <1>5, Zenon DEF AppendResult, AppendedMsg, Reject
  <2>2. Usable(m)
    BY <1>5, Zenon DEF AppendResult, CtxOK, Usable
  <2> QED
    BY <1>5, <2>1, <2>2, Zenon DEF AppendResult, MsgOK, Message, Vote, Request
<1>6. CASE s.ask /\ ~s.askWait /\ s.role = "candidate" /\ m = VoteRequest(n, s, FALSE)
  <2>1. m \in VoteMsg
    BY <1>1, <1>2, <1>6, Zenon DEF VoteRequest, VoteMsg
  <2> QED
    BY <1>6, <2>1, Zenon DEF VoteRequest, MsgOK, Message, Vote, Request
<1> QED
  BY <1>3, <1>4, <1>5, <1>6, Zenon DEF ReleasedMsgs

LEMMA ReleaseStep ==
  ASSUME NEW n \in Node, NEW s, NEW d, NEW M, NEW E, Local(n, s, d, M, E)
  PROVE  Local(n, s, d, M \cup ReleasedMsgs(n, s), E)
<1> DEFINE out == ReleasedMsgs(n, s)
           N == M \cup out
<1>1. \A m \in out :
         /\ Vote(m) => m.to = s.grant /\ m.term = s.term /\ s.grant # None /\ ~s.grantWait
         /\ Request(m) => /\ m.lastTerm = LastTerm(s.log) /\ m.term = s.term
                          /\ s.ask /\ ~s.askWait /\ s.role = "candidate"
  BY ReleasedFacts DEF Local
<1> HIDE DEF out
<1>2. \A v, c, t : VotedIn(M, v, c, t) => VotedIn(N, v, c, t)
  BY Zenon DEF VotedIn
<1>3. s.term \in Nat /\ d.hard.term \in Nat /\ d.hard.term <= s.term
  BY LocalTypes, Zenon
<1>4. \A m \in N : Vote(m) /\ m.from = n =>
         /\ m.to # n /\ m.term <= d.hard.term /\ ~Led(E, m.term, n)
         /\ m.term = s.term => s.vote = m.to
         /\ m.term = d.hard.term => d.hard.vote = m.to
  <2>1. \A m \in M : Vote(m) /\ m.from = n =>
         /\ m.to # n /\ m.term <= d.hard.term /\ ~Led(E, m.term, n)
         /\ m.term = s.term => s.vote = m.to
         /\ m.term = d.hard.term => d.hard.vote = m.to
    BY Zenon DEF Local, Ballots
  <2>2. s.grant # None /\ ~s.grantWait =>
          /\ s.vote = s.grant /\ s.grant # n /\ d.hard.term = s.term /\ d.hard.vote = s.vote
          /\ ~Led(E, s.term, n)
    BY Zenon DEF Local, Standing, Office
  <2> QED
    BY <1>1, <1>3, <2>1, <2>2, Zenon
<1>5. \A a, b \in N : Vote(a) /\ Vote(b) /\ a.from = n /\ b.from = n /\ a.term = b.term => a.to = b.to
  <2>1. \A a, b \in M : Vote(a) /\ Vote(b) /\ a.from = n /\ b.from = n /\ a.term = b.term => a.to = b.to
    BY Zenon DEF Local, Ballots
  <2>2. \A a \in out : Vote(a) => a.term = s.term
    BY <1>1, Zenon
  <2> QED
    BY <1>4, <2>1, <2>2, Zenon
<1>6. \A m \in N : m.type = "vote" /\ ~m.pre /\ m.from = n => m.lastTerm < m.term /\ m.term <= d.hard.term
  <2>1. s.role = "candidate" /\ s.ask /\ ~s.askWait => LastTerm(s.log) < s.term /\ d.hard.term = s.term
    BY Zenon DEF Local, Standing
  <2> QED
    BY <1>1, <1>3, <2>1, Zenon DEF Local, Ballots, Request
<1>7. Ballots(n, s, d, N, E)
  BY <1>2, <1>4, <1>5, <1>6, Zenon DEF Local, Ballots
<1> QED
  BY <1>7, Zenon DEF Local, out
=============================================================================
