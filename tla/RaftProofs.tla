----------------------------- MODULE RaftProofs -----------------------------
(***************************************************************************)
(* Election safety and log matching of Raft, for any number of voters, any *)
(* log, any number of timeouts and crashes, lost, reordered and repeated   *)
(* messages, when the caller persists synchronously (raft_vote_lost shows  *)
(* that with the pipelined WAL election safety does not hold).             *)
(***************************************************************************)
EXTENDS RaftLog, FiniteSetTheorems, WellFoundedInduction

-----------------------------------------------------------------------------
(* The facts about numbers and finite sets the proof rests on. *)

LEMMA Minimal ==
  ASSUME NEW R, IsWellFoundedOn(R, Nat), NEW T, T \subseteq Nat, T # {}
  PROVE  \E x \in T : \A y \in T : ~ (<<y, x>> \in R)
BY WFMin

LEMMA LeastOf ==
  ASSUME NEW T, T \subseteq Nat, T # {}, NEW R, IsWellFoundedOn(R, Nat),
         \A a, b \in Nat : a < b => <<a, b>> \in R
  PROVE  \E x \in T : \A y \in T : x <= y
<1>1. PICK x \in T : \A y \in T : ~ (<<y, x>> \in R)
  BY Minimal, Zenon
<1>2. ASSUME NEW y \in T PROVE x <= y
  <2>1. x \in Nat /\ y \in Nat
    OBVIOUS
  <2>2. ~ (y < x)
    BY <1>1, <2>1, Zenon
  <2> QED
    BY <2>1, <2>2
<1> QED
  BY <1>2

\* Less-than is well founded, so a set of naturals that is not empty has a least element.
LEMMA Ordered == WellOrdered
<1> SUFFICES ASSUME NEW T, T \subseteq Nat, T # {} PROVE \E x \in T : \A y \in T : x <= y
  BY DEF WellOrdered
<1>1. IsWellFoundedOn(OpToRel(<, Nat), Nat)
  BY NatLessThanWellFounded
<1>2. \A a, b \in Nat : a < b => <<a, b>> \in OpToRel(<, Nat)
  BY DEF OpToRel
<1> QED
  BY <1>1, <1>2, LeastOf, Zenon

LEMMA QuorumsMeet ==
  ASSUME NEW P \in SUBSET Node, NEW Q \in SUBSET Node, IsQuorum(P), IsQuorum(Q)
  PROVE  \E v \in Node : v \in P /\ v \in Q
<1>1. IsFiniteSet(Node) /\ Cardinality(Node) \in Nat
  BY RaftAssumption, FS_CardinalityType, Zenon
<1>2. /\ IsFiniteSet(P) /\ IsFiniteSet(Q) /\ Cardinality(P) \in Nat /\ Cardinality(Q) \in Nat
  BY <1>1, FS_Subset, FS_CardinalityType, Zenon
<1>3. Cardinality(P) + Cardinality(Q) > Cardinality(Node)
  BY <1>1, <1>2 DEF IsQuorum
<1>4. P \cap Q # {}
  BY <1>1, <1>3, FS_MajoritiesIntersect, Zenon
<1> QED
  BY <1>4, Zenon

\* Two leaders of a term have a common voter, and it voted once; one of the two it is not.
LEMMA OneLeader == ElectionInv => ElectionSafety
<1> SUFFICES ASSUME ElectionInv, NEW a \in elected, NEW b \in elected, a.term = b.term
             PROVE  a.node = b.node
  BY Zenon DEF ElectionSafety
<1>1. PICK P \in SUBSET Node : /\ IsQuorum(P) /\ a.node \in P
                              /\ \A v \in P : v # a.node => VotedIn(msgs, v, a.node, a.term)
  BY Zenon DEF ElectionInv, ElectedOK
<1>2. PICK Q \in SUBSET Node : /\ IsQuorum(Q) /\ b.node \in Q
                              /\ \A v \in Q : v # b.node => VotedIn(msgs, v, b.node, b.term)
  BY Zenon DEF ElectionInv, ElectedOK
<1>3. PICK v \in Node : v \in P /\ v \in Q
  BY <1>1, <1>2, QuorumsMeet, Zenon
<1>4. Ballots(v, node[v], disk[v], msgs, elected)
  BY Zenon DEF ElectionInv, Local
<1>5. Led(elected, a.term, a.node) /\ Led(elected, b.term, b.node)
  BY Zenon DEF Led
<1>6. CASE v # a.node /\ v # b.node
  <2>1. VotedIn(msgs, v, a.node, a.term) /\ VotedIn(msgs, v, b.node, b.term)
    BY <1>1, <1>2, <1>3, <1>6, Zenon
  <2> QED
    BY <1>4, <2>1 DEF VotedIn, Ballots
<1>7. CASE v = a.node /\ v # b.node
  <2>1. VotedIn(msgs, v, b.node, b.term)
    BY <1>2, <1>3, <1>7, Zenon
  <2> QED
    BY <1>4, <1>5, <1>7, <2>1 DEF VotedIn, Ballots
<1>8. CASE v # a.node /\ v = b.node
  <2>1. VotedIn(msgs, v, a.node, a.term)
    BY <1>1, <1>3, <1>8, Zenon
  <2> QED
    BY <1>4, <1>5, <1>8, <2>1 DEF VotedIn, Ballots
<1> QED
  BY <1>6, <1>7, <1>8, Zenon

LEMMA NextKeeps ==
  ASSUME ElectionInv, ~Pipelined, [Next]_vars
  PROVE  ElectionInv'
<1>1. ASSUME NEW n \in Node, NEW m \in msgs, Receive(n, m) PROVE ElectionInv'
  <2>1. CASE RecvRequestVote(n, m)
    BY <2>1, RequestVoteKeeps, Zenon
  <2>2. CASE RecvVoteResult(n, m)
    BY <2>2, VoteResultKeeps, Zenon
  <2>3. CASE RecvAppendEntries(n, m)
    BY <2>3, OneLeader, AppendEntriesKeeps, Ordered
  <2>4. CASE RecvAppendResult(n, m)
    BY <2>4, AppendResultKeeps, Ordered
  <2> QED
    BY <1>1, <2>1, <2>2, <2>3, <2>4, Zenon DEF Receive
<1>2. ASSUME NEW n \in Node, Submit(n) PROVE ElectionInv'
  BY <1>2, SubmitKeeps, Zenon
<1>3. ASSUME NEW n \in Node, Drive(n) PROVE ElectionInv'
  BY <1>3, DriveKeeps, Ordered
<1>4. ASSUME NEW n \in Node, WalWrite(n) PROVE ElectionInv'
  BY <1>4, WalWriteKeeps, Ordered
<1>5. ASSUME NEW n \in Node, Restart(n) PROVE ElectionInv'
  BY <1>5, RestartKeeps, Zenon
<1>6. CASE UNCHANGED vars
  BY <1>6, Zenon DEF ElectionInv, vars
<1> QED
  BY <1>1, <1>2, <1>3, <1>4, <1>5, <1>6, Zenon DEF Next

\* The invariant holds throughout, for every set of voters and every bound, when the caller
\* of raft_advance writes each persist view before it calls raft.h again.
THEOREM Electable == ~Pipelined => (Spec => []ElectionInv)
<1> SUFFICES ASSUME ~Pipelined PROVE Spec => []ElectionInv
  BY Zenon
<1>1. ElectionInv /\ [Next]_vars => ElectionInv'
  BY NextKeeps, Zenon
<1> QED
  BY <1>1, InitKeeps, PTL DEF Spec

\* No term ever has two leaders: raft_recv_request_vote gives one vote per term, a crash does
\* not make it forget (raft.h defers the response until the vote is on disk), and a leader
\* that stepped down in its own term, whose vote raft_step_down clears, is kept from voting
\* again by the entry raft_become_leader wrote.
THEOREM OneLeaderPerTerm == ~Pipelined => (Spec => []ElectionSafety)
<1> SUFFICES ASSUME ~Pipelined PROVE Spec => []ElectionSafety
  BY Zenon
<1>1. Spec => []ElectionInv
  BY Electable, Zenon
<1> QED
  BY <1>1, OneLeader, PTL

LEMMA NextKeepsLogs ==
  ASSUME ElectionInv, LogInv, ~Pipelined, [Next]_vars
  PROVE  LogInv'
<1>0. WellOrdered /\ ElectionSafety /\ ElectionSafety'
  <2>1. ElectionInv'
    BY NextKeeps
  <2>2. ElectionSafety'
    BY <2>1, OneLeader, PTL
  <2> QED
    BY <2>2, Ordered, OneLeader, Zenon
<1>1. ASSUME NEW n \in Node, NEW m \in msgs, Receive(n, m) PROVE LogInv'
  <2>1. CASE RecvRequestVote(n, m)
    BY <2>1, RequestVoteLogs, Zenon
  <2>2. CASE RecvVoteResult(n, m)
    BY <1>0, <2>2, VoteResultLogs, Zenon
  <2>3. CASE RecvAppendEntries(n, m)
    BY <1>0, <2>3, AppendEntriesLogs, Zenon
  <2>4. CASE RecvAppendResult(n, m)
    BY <2>4, AppendResultLogs, Zenon
  <2> QED
    BY <1>1, <2>1, <2>2, <2>3, <2>4, Zenon DEF Receive
<1>2. ASSUME NEW n \in Node, Submit(n) PROVE LogInv'
  BY <1>0, <1>2, SubmitLogs, Zenon
<1>3. ASSUME NEW n \in Node, Drive(n) PROVE LogInv'
  BY <1>0, <1>3, DriveLogs, Zenon
<1>4. ASSUME NEW n \in Node, WalWrite(n) PROVE LogInv'
  BY <1>0, <1>4, WalWriteLogs, Zenon
<1>5. ASSUME NEW n \in Node, Restart(n) PROVE LogInv'
  BY <1>5, RestartLogs, Zenon
<1>6. CASE UNCHANGED vars
  <2>1. node' = node /\ disk' = disk /\ msgs' = msgs /\ elected' = elected
    BY <1>6, Zenon DEF vars
  <2> QED
    BY <2>1, Zenon DEF LogInv
<1> QED
  BY <1>1, <1>2, <1>3, <1>4, <1>5, <1>6, Zenon DEF Next

\* Two logs with the same term at an index agree up to it, whatever was lost, reordered,
\* cut short by memory or forgotten in a crash: the one comparison of
\* raft_recv_append_entries (the term at prev) is enough.
THEOREM LogsMatch == ~Pipelined => (Spec => []LogMatching)
<1> SUFFICES ASSUME ~Pipelined PROVE Spec => []LogMatching
  BY Zenon
<1>1. LogInv /\ ElectionInv /\ [Next]_vars => LogInv'
  BY NextKeepsLogs, Zenon
<1>2. Spec => []ElectionInv
  BY Electable, Zenon
<1> QED
  BY <1>1, <1>2, InitLogs, LogsAgree, PTL DEF Spec
=============================================================================
