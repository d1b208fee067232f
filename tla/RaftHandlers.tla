---------------------------- MODULE RaftHandlers ----------------------------
(***************************************************************************)
(* The handlers of a message and of a submitted entry keep the invariant of *)
(* RaftLocal.  A handler moves one node and sends messages: what the others *)
(* know of that node is shown once, in Moved, and every handler goes through *)
(* it.                                                                     *)
(***************************************************************************)
EXTENDS RaftLocal

-----------------------------------------------------------------------------
(* A step of node n, which leaves it with state t and disk d and sends out. *)

Moves(n, t, out, d) ==
  /\ node' = [node EXCEPT ![n] = t]
  /\ disk' = [disk EXCEPT ![n] = d]
  /\ msgs' = msgs \cup out
  /\ elected' = elected \/ elected' = elected \cup {[term |-> t.term, node |-> n]}
  /\ DOMAIN wal' = Node /\ WalOK(wal'[n], t)
  /\ \A p \in Node : p # n => wal'[p] = wal[p]

LEMMA Moved ==
  ASSUME ElectionInv, NEW n \in Node, NEW t, NEW out, NEW d, Moves(n, t, out, d),
         Local(n, t, d, msgs', elected'),
         \A m \in out : MsgOK(m) /\ m.from = n,
         \A m \in out : m.type = "append" =>
            /\ m.from # m.to /\ Led(elected', m.term, m.from)
            /\ \A i \in 1 .. Len(m.entries) : m.entries[i] >= 1 /\ m.entries[i] <= m.term,
         \A m \in out : Vote(m) => m.term <= disk[m.to].hard.term,
         t.grant # None => t.term <= disk[t.grant].hard.term,
         d.hard.term >= disk[n].hard.term,
         ElectedOK(msgs', elected')
  PROVE  ElectionInv'
<1> DEFINE e0 == [term |-> t.term, node |-> n]
<1>0. elected' = elected \/ elected' = elected \cup {e0}
  BY Zenon DEF Moves
<1>1. e0 \in [term : Nat, node : Node] /\ e0.node = n
  BY Zenon DEF Local, CtxOK, Ctx
<1> HIDE DEF e0
<1>2. DOMAIN node' = Node /\ disk' \in [Node -> DiskImage] /\ DOMAIN wal' = Node
  BY Zenon DEF Moves, ElectionInv, Local
<1>3. \A m \in msgs' : MsgOK(m)
  BY Zenon DEF Moves, ElectionInv
<1>4. elected' \subseteq [term : Nat, node : Node]
  BY <1>0, <1>1, Zenon DEF ElectionInv
<1>5. node'[n] = t /\ disk'[n] = d
  BY Zenon DEF Moves, ElectionInv
<1>6. \A p \in Node : p # n => node'[p] = node[p] /\ disk'[p] = disk[p] /\ wal'[p] = wal[p]
  BY Zenon DEF Moves, ElectionInv
<1>7. ASSUME NEW p \in Node
      PROVE  Local(p, node'[p], disk'[p], msgs', elected') /\ WalOK(wal'[p], node'[p])
  <2>1. CASE p = n
    BY <1>5, <2>1, Zenon DEF Moves
  <2>2. CASE p # n
    <3>1. Local(p, node[p], disk[p], msgs, elected) /\ WalOK(wal[p], node[p])
      BY Zenon DEF ElectionInv
    <3>2. \A m \in out : m.from = p => ~Vote(m) /\ ~Request(m)
      BY <2>2, Zenon
    <3>3. Local(p, node[p], disk[p], msgs \cup out, elected)
      <4>1. PICK s, e, M, E : s = node[p] /\ e = disk[p] /\ M = msgs /\ E = elected
        BY Zenon
      <4>2. Local(p, s, e, M \cup out, E)
        BY <3>1, <3>2, <4>1, MoreMessages, Zenon
      <4> QED
        BY <4>1, <4>2, Zenon
    <3>4. Local(p, node[p], disk[p], msgs \cup out, elected \cup {e0})
      <4>1. PICK s, e, M, E : s = node[p] /\ e = disk[p] /\ M = msgs \cup out /\ E = elected
        BY Zenon
      <4>2. Local(p, s, e, M, E \cup {e0})
        BY <1>1, <2>2, <3>3, <4>1, MoreElected, Zenon
      <4> QED
        BY <4>1, <4>2, Zenon
    <3>5. Local(p, node[p], disk[p], msgs', elected')
      BY <1>0, <3>3, <3>4, Zenon DEF Moves
    <3> QED
      BY <1>6, <2>2, <3>1, <3>5, Zenon
  <2> QED
    BY <2>1, <2>2, Zenon
<1>8. AppendsOK(msgs', elected')
  <2>1. \A x, y : Led(elected, x, y) => Led(elected', x, y)
    BY <1>0, Zenon DEF Led
  <2>2. AppendsOK(msgs, elected)
    BY Zenon DEF ElectionInv
  <2>3. msgs' = msgs \cup out
    BY Zenon DEF Moves
  <2> QED
    BY <2>1, <2>2, <2>3, Zenon DEF AppendsOK
<1>9. \A p \in Node : disk[p].hard.term \in Nat /\ disk'[p].hard.term \in Nat
                      /\ disk[p].hard.term <= disk'[p].hard.term
  <2>1. \A p \in Node : disk[p].hard.term \in Nat
    BY LocalTypes, Zenon DEF ElectionInv
  <2>2. \A p \in Node : disk'[p].hard.term \in Nat
    BY <1>7, LocalTypes, Zenon
  <2> QED
    BY <2>1, <2>2, <1>5, <1>6
<1>10. VotesOK(msgs', disk')
  <2>1. \A m \in msgs' : Vote(m) => m.to \in Node /\ m.term \in Nat
    BY <1>3, Zenon DEF Vote, MsgOK, Message, VoteMsg, VotedMsg, AppendMsg, AppendedMsg
  <2>2. \A m \in msgs' : Vote(m) => m.term <= disk[m.to].hard.term
    BY Zenon DEF Moves, ElectionInv, VotesOK
  <2> QED
    BY <1>9, <2>1, <2>2 DEF VotesOK
<1>11. GrantsOK(node', disk')
  <2>1. \A p \in Node : node'[p].grant \in Node \cup {None} /\ node'[p].term \in Nat
    BY <1>7, Zenon DEF Local, CtxOK, Ctx
  <2>2. \A p \in Node : node'[p].grant # None => node'[p].term <= disk[node'[p].grant].hard.term
    BY <1>5, <1>6, Zenon DEF ElectionInv, GrantsOK
  <2> QED
    BY <1>9, <2>1, <2>2 DEF GrantsOK
<1> QED
  BY <1>2, <1>3, <1>4, <1>7, <1>8, <1>10, <1>11, Zenon DEF ElectionInv

\* A step in which nobody takes office.
LEMMA Stays ==
  ASSUME ElectionInv, NEW n \in Node, NEW t, NEW out, NEW d,
         Become(n, t, out), disk' = [disk EXCEPT ![n] = d],
         DOMAIN wal' = Node, WalOK(wal'[n], t), \A p \in Node : p # n => wal'[p] = wal[p],
         Local(n, t, d, msgs \cup out, elected),
         \A m \in out : MsgOK(m) /\ m.from = n,
         \A m \in out : m.type = "append" =>
            /\ m.from # m.to /\ Led(elected, m.term, m.from)
            /\ \A i \in 1 .. Len(m.entries) : m.entries[i] >= 1 /\ m.entries[i] <= m.term,
         \A m \in out : Vote(m) => m.term <= disk[m.to].hard.term,
         t.grant # None => t.term <= disk[t.grant].hard.term,
         d.hard.term >= disk[n].hard.term
  PROVE  ElectionInv' /\ elected' = elected
<1>1. elected' = elected
  <2>1. CASE t.role = "leader"
    <3>1. Led(elected, t.term, n)
      BY <2>1, Zenon DEF Local, Office
    <3>2. PICK e \in elected : e.term = t.term /\ e.node = n
      BY <3>1, Zenon DEF Led
    <3>3. e = [term |-> t.term, node |-> n]
      BY <3>2, Zenon DEF ElectionInv
    <3> QED
      BY <2>1, <3>3, Zenon DEF Become
  <2>2. CASE t.role # "leader"
    BY <2>2, Zenon DEF Become
  <2> QED
    BY <2>1, <2>2, Zenon
<1>2. msgs' = msgs \cup out /\ Moves(n, t, out, d)
  BY <1>1, Zenon DEF Become, Moves
<1>3. Local(n, t, d, msgs', elected')
  BY <1>1, <1>2, Zenon
<1>4. ElectedOK(msgs', elected')
  <2>1. \A v, c, x : VotedIn(msgs, v, c, x) => VotedIn(msgs', v, c, x)
    BY <1>2, Zenon DEF VotedIn
  <2> QED
    BY <1>1, <2>1, Zenon DEF ElectionInv, ElectedOK
<1>5. \A m \in out : m.type = "append" =>
            /\ m.from # m.to /\ Led(elected', m.term, m.from)
            /\ \A i \in 1 .. Len(m.entries) : m.entries[i] >= 1 /\ m.entries[i] <= m.term
  BY <1>1, Zenon
<1> QED
  BY <1>1, <1>2, <1>3, <1>4, <1>5, Moved, Zenon

\* A handler of n that writes nothing and sends neither votes nor entries.
LEMMA Handled ==
  ASSUME ElectionInv, NEW n \in Node, NEW t, NEW out, Become(n, t, out), UNCHANGED <<wal, disk>>,
         wal[n] = IdleWal, Local(n, t, disk[n], msgs, elected),
         \A m \in out : MsgOK(m) /\ m.from = n /\ m.type # "append" /\ ~Vote(m) /\ ~Request(m),
         t.grant # None => t.term <= disk[t.grant].hard.term
  PROVE  ElectionInv' /\ elected' = elected
<1>0. PICK d : d = disk[n]
  BY Zenon
<1>1. disk' = [disk EXCEPT ![n] = d]
  BY <1>0, Zenon DEF ElectionInv
<1>w. DOMAIN wal' = Node /\ WalOK(wal'[n], t) /\ \A p \in Node : p # n => wal'[p] = wal[p]
  BY Zenon DEF ElectionInv, WalOK
<1>2. Local(n, t, disk[n], msgs \cup out, elected)
  <2>1. PICK M, E : M = msgs /\ E = elected
    BY Zenon
  <2>2. Local(n, t, d, M \cup out, E)
    BY <1>0, <2>1, MoreMessages, Zenon
  <2> QED
    BY <1>0, <2>1, <2>2, Zenon
<1>3. disk[n].hard.term >= disk[n].hard.term
  <2>1. disk[n].hard.term \in Nat
    BY LocalTypes, Zenon
  <2> QED
    BY <2>1
<1>4. Local(n, t, d, msgs \cup out, elected) /\ d.hard.term >= disk[n].hard.term
  BY <1>0, <1>2, <1>3, Zenon
<1>5. \A m \in out : MsgOK(m) /\ m.from = n
  BY Zenon
<1>6. \A m \in out : m.type = "append" =>
            /\ m.from # m.to /\ Led(elected, m.term, m.from)
            /\ \A i \in 1 .. Len(m.entries) : m.entries[i] >= 1 /\ m.entries[i] <= m.term
  BY Zenon
<1>7. \A m \in out : Vote(m) => m.term <= disk[m.to].hard.term
  BY Zenon
<1> QED
  BY <1>1, <1>w, <1>4, <1>5, <1>6, <1>7, Stays, Zenon

\* raft_step_down, seen from the node.
LEMMA SteppedDown ==
  ASSUME ElectionInv, NEW n \in Node, NEW x \in Nat,
         x > node[n].term \/ (x = node[n].term /\ node[n].role # "follower")
  PROVE  /\ Local(n, StepDown(node[n], x), disk[n], msgs, elected)
         /\ StepDown(node[n], x).grant = None /\ StepDown(node[n], x).term = x
         /\ StepDown(node[n], x).role = "follower" /\ StepDown(node[n], x).log = node[n].log
<1>1. PICK s, d, M, E : s = node[n] /\ d = disk[n] /\ M = msgs /\ E = elected
  BY Zenon
<1>2. Local(n, s, d, M, E) /\ (\A m \in M : MsgOK(m)) /\ E \subseteq [term : Nat, node : Node]
  BY <1>1, Zenon DEF ElectionInv
<1>3. CtxOK(s)
  BY <1>2, Zenon DEF Local
<1> DEFINE t == StepDown(s, x)
<1>4. CtxOK(t)
  BY <1>3, StepDownType, Zenon
<1>5. s \in Ctx
  BY <1>3, Zenon DEF CtxOK
<1>6. /\ t.log = s.log /\ t.front = s.front /\ t.role = "follower" /\ t.vote = None /\ t.grant = None
      /\ t.term = x
  BY <1>5, Zenon DEF StepDown, Ctx
<1> HIDE DEF t
<1>7. Lapse(s, t)
  BY <1>1, <1>6, Zenon DEF Lapse
<1>8. Local(n, t, d, M, E)
  BY <1>2, <1>4, <1>7, LapseStep, Zenon
<1> QED
  BY <1>1, <1>6, <1>8, Zenon DEF t

LEMMA RequestVoteKeeps ==
  ASSUME ElectionInv, ~Pipelined, NEW n \in Node, NEW m \in msgs, RecvRequestVote(n, m)
  PROVE  ElectionInv' /\ elected' = elected
<1> DEFINE s == IF m.term > node[n].term THEN StepDown(node[n], m.term) ELSE node[n]
           grants == (m.pre \/ s.vote \in {None, m.from}) /\ UpToDate(m, s.log)
<1>0. /\ m.type = "vote" /\ m.from # n /\ wal[n] = IdleWal /\ m.term >= node[n].term
      /\ UNCHANGED <<wal, disk>>
  BY Zenon DEF RecvRequestVote, MayRun
<1>1. m.from \in Node /\ m.term \in Nat /\ m.lastTerm \in Nat /\ m.lastIndex \in Nat /\ m.pre \in BOOLEAN
  BY <1>0, Zenon DEF ElectionInv, MsgOK, Message, VoteMsg, VotedMsg, AppendMsg, AppendedMsg
<1>2. Local(n, node[n], disk[n], msgs, elected) /\ node[n].term \in Nat
  BY LocalTypes, Zenon DEF ElectionInv
<1>3. /\ Local(n, s, disk[n], msgs, elected) /\ s.term = m.term
      /\ s.grant # None => s.term <= disk[s.grant].hard.term
  <2>1. CASE m.term > node[n].term
    BY <1>1, <2>1, SteppedDown, Zenon
  <2>2. CASE ~(m.term > node[n].term)
    BY <1>0, <1>1, <1>2, <2>2 DEF ElectionInv, GrantsOK
  <2> QED
    BY <2>1, <2>2, Zenon
<1>4. /\ ~grants => Become(n, s, {})
      /\ grants /\ m.pre => Become(n, s, {VoteResult(n, m.from, s, TRUE)})
      /\ grants /\ ~m.pre =>
           Become(n, [s EXCEPT !.vote = m.from, !.dirty = TRUE, !.grant = m.from, !.grantWait = TRUE], {})
  BY Zenon DEF RecvRequestVote
<1> HIDE DEF s
<1>5. CASE ~grants
  <2>1. Become(n, s, {})
    BY <1>4, <1>5, Zenon
  <2> QED
    BY <1>0, <1>3, <2>1, Handled
<1>6. CASE grants /\ m.pre
  <2> DEFINE r == VoteResult(n, m.from, s, TRUE)
  <2>1. Become(n, s, {r})
    BY <1>4, <1>6, Zenon
  <2>2. r \in VotedMsg /\ r.from = n /\ r.type = "voted" /\ r.pre
    BY <1>1, <1>3, Zenon DEF VoteResult, VotedMsg
  <2> HIDE DEF r
  <2>3. \A k \in {r} : MsgOK(k) /\ k.from = n /\ k.type # "append" /\ ~Vote(k) /\ ~Request(k)
    BY <2>2, Zenon DEF MsgOK, Message, Vote, Request
  <2> QED
    BY <1>0, <1>3, <2>1, <2>3, Handled, Zenon
<1>7. CASE grants /\ ~m.pre
  <2> DEFINE t == [s EXCEPT !.vote = m.from, !.dirty = TRUE, !.grant = m.from, !.grantWait = TRUE]
  <2>1. Become(n, t, {})
    BY <1>4, <1>7, Zenon
  <2>2. CtxOK(s) /\ s \in Ctx
    BY <1>3, Zenon DEF Local, CtxOK
  <2>3. t \in Ctx
    BY <1>1, <2>2, Zenon DEF Ctx
  <2>4. /\ t.term = s.term /\ t.log = s.log /\ t.front = s.front /\ t.role = s.role
        /\ t.vote = m.from /\ t.grant = m.from /\ t.grantWait /\ t.next = s.next /\ t.reject = s.reject
    BY <2>2, Zenon DEF Ctx
  <2> HIDE DEF t
  <2>5. CtxOK(t)
    BY <2>2, <2>3, <2>4, Zenon DEF CtxOK
  <2>6. /\ m.lastTerm < m.term /\ m.term <= disk[m.from].hard.term
    <3>1. Ballots(m.from, node[m.from], disk[m.from], msgs, elected)
      BY <1>1, Zenon DEF ElectionInv, Local
    <3> QED
      BY <1>0, <1>7, <3>1, Zenon DEF Ballots
  <2>7. LastTerm(s.log) < s.term
    <3>1. LastTerm(s.log) \in Nat
      BY <1>3, LocalTypes, Zenon
    <3> QED
      BY <1>1, <1>3, <1>7, <2>6, <3>1 DEF UpToDate
  <2>8. Granted(s, t, m.from)
    BY <1>7, <2>4, <2>7, Zenon DEF Granted
  <2>9. Local(n, t, disk[n], msgs, elected)
    <3>1. PICK c, d, M, E : c = m.from /\ d = disk[n] /\ M = msgs /\ E = elected
      BY Zenon
    <3>2. \A k \in M : MsgOK(k)
      BY <3>1, Zenon DEF ElectionInv
    <3> QED
      BY <1>0, <1>1, <1>3, <2>5, <2>8, <3>1, <3>2, GrantStep, Zenon
  <2>10. t.grant # None => t.term <= disk[t.grant].hard.term
    BY <1>3, <2>4, <2>6, Zenon
  <2> QED
    BY <1>0, <2>1, <2>9, <2>10, Handled
<1> QED
  BY <1>1, <1>5, <1>6, <1>7, Zenon

\* A node that enough others voted for takes office.
LEMMA Elected ==
  ASSUME ElectionInv, NEW n \in Node, NEW s, Local(n, s, disk[n], msgs, elected),
         s.role = "candidate", s.term = disk[n].hard.term, s.term = node[n].term,
         IsQuorum({n} \cup s.votes), wal[n] = IdleWal,
         Become(n, BecomeLeader(s), {}), UNCHANGED <<wal, disk>>
  PROVE  ElectionInv'
<1> DEFINE t == BecomeLeader(s)
           e0 == [term |-> s.term, node |-> n]
<1>1. CtxOK(s) /\ s \in Ctx
  BY Zenon DEF Local, CtxOK
<1>2. CtxOK(t)
  BY <1>1, LeaderType, Zenon
<1>3. /\ t.term = s.term /\ t.vote = s.vote /\ t.role = "leader" /\ t.log = Append(s.log, s.term)
      /\ t.front = s.front /\ t.grant = s.grant
  BY <1>1, Zenon DEF BecomeLeader, Ctx
<1> HIDE DEF t
<1>4. PICK d, M, E : d = disk[n] /\ M = msgs /\ E = elected
  BY Zenon
<1>5. Local(n, t, d, M, E \cup {e0})
  <2>1. Local(n, s, d, M, E) /\ (\A m \in M : MsgOK(m)) /\ d.hard.term = s.term
    BY <1>4, Zenon DEF ElectionInv
  <2>2. Won(s, t)
    BY <1>3, Zenon DEF Won
  <2> QED
    BY <1>2, <2>1, <2>2, WinStep, Zenon
<1>6. elected' = elected \cup {e0} /\ msgs' = msgs /\ node' = [node EXCEPT ![n] = t]
  BY <1>3, Zenon DEF Become, t
<1>7. Moves(n, t, {}, d)
  BY <1>3, <1>4, <1>6, Zenon DEF Moves, ElectionInv, WalOK
<1>8. Local(n, t, d, msgs', elected')
  BY <1>4, <1>5, <1>6, Zenon
<1>9. ElectedOK(msgs', elected')
  <2>1. \A v \in {n} \cup s.votes : v # n => VotedIn(msgs, v, n, s.term)
    BY Zenon DEF Local, Ballots
  <2>2. {n} \cup s.votes \in SUBSET Node
    BY <1>1, Zenon DEF Ctx
  <2>3. e0.term = s.term /\ e0.node = n
    BY Zenon
  <2> HIDE DEF e0
  <2> QED
    BY <1>6, <2>1, <2>2, <2>3, Zenon DEF ElectionInv, ElectedOK
<1>10. t.grant = None
  BY <1>3, Zenon DEF Local, Standing
<1>11. d.hard.term >= disk[n].hard.term
  BY <1>4, LocalTypes, Zenon
<1>12. PICK out : out = {}
  BY Zenon
<1>13. Moves(n, t, out, d) /\ \A m \in out : FALSE
  BY <1>7, <1>12, Zenon
<1>14. t.grant # None => t.term <= disk[t.grant].hard.term
  BY <1>10, Zenon
<1> QED
  BY <1>8, <1>9, <1>11, <1>13, <1>14, Moved, Zenon

\* A change of the volatile state that no part of the invariant sees.
LEMMA Calmed ==
  ASSUME ElectionInv, NEW n \in Node, NEW s, NEW t, Local(n, s, disk[n], msgs, elected),
         CtxOK(t), Calm(s, t), s.grant # None => s.term <= disk[s.grant].hard.term
  PROVE  /\ Local(n, t, disk[n], msgs, elected)
         /\ t.grant # None => t.term <= disk[t.grant].hard.term
<1>1. PICK d, M, E : d = disk[n] /\ M = msgs /\ E = elected
  BY Zenon
<1>2. Local(n, t, d, M, E)
  BY <1>1, CalmStep, Zenon
<1> QED
  BY <1>1, <1>2, Zenon DEF Calm

LEMMA PreVoteKeeps ==
  ASSUME ElectionInv, NEW n \in Node, NEW v \in Node, wal[n] = IdleWal, UNCHANGED <<wal, disk>>,
         LET s == [node[n] EXCEPT !.preVotes = @ \cup {v}]
         IN  Become(n, IF IsQuorum({n} \cup s.preVotes) THEN BecomeCandidate(n, s) ELSE s, {})
  PROVE  ElectionInv'
<1> DEFINE s == [node[n] EXCEPT !.preVotes = @ \cup {v}]
           t == BecomeCandidate(n, s)
<1>1. /\ Local(n, node[n], disk[n], msgs, elected) /\ CtxOK(node[n]) /\ node[n] \in Ctx
      /\ node[n].grant # None => node[n].term <= disk[node[n].grant].hard.term
  BY Zenon DEF ElectionInv, GrantsOK, Local, CtxOK
<1>2. s \in Ctx
  BY <1>1, Zenon DEF Ctx
<1>3. /\ s.term = node[n].term /\ s.vote = node[n].vote /\ s.log = node[n].log
      /\ s.front = node[n].front /\ s.votes = node[n].votes /\ s.role = node[n].role
      /\ s.grant = node[n].grant /\ s.grantWait = node[n].grantWait /\ s.ask = node[n].ask
      /\ s.askWait = node[n].askWait /\ s.next = node[n].next /\ s.reject = node[n].reject
  BY <1>1, Zenon DEF Ctx
<1>b. Become(n, IF IsQuorum({n} \cup s.preVotes) THEN t ELSE s, {})
  BY Zenon
<1> HIDE DEF s
<1>4. CtxOK(s) /\ Calm(node[n], s)
  BY <1>1, <1>2, <1>3, Zenon DEF CtxOK, Calm
<1>5. /\ Local(n, s, disk[n], msgs, elected)
      /\ s.grant # None => s.term <= disk[s.grant].hard.term
  <2>1. PICK a : a = node[n]
    BY Zenon
  <2> QED
    BY <1>1, <1>4, <2>1, Calmed, Zenon
<1>6. CASE ~IsQuorum({n} \cup s.preVotes)
  <2>1. Become(n, s, {})
    BY <1>b, <1>6, Zenon
  <2> QED
    BY <1>5, <2>1, Handled
<1>7. CASE IsQuorum({n} \cup s.preVotes)
  <2>1. Become(n, t, {})
    BY <1>b, <1>7, Zenon
  <2>2. CtxOK(t)
    BY <1>4, CandidateType, Zenon
  <2>3. CASE s.term >= MaxTerm
    <3>1. Calm(s, t)
      BY <1>2, <2>3, Zenon DEF BecomeCandidate, Ctx, Calm
    <3> HIDE DEF t
    <3>2. /\ Local(n, t, disk[n], msgs, elected)
          /\ t.grant # None => t.term <= disk[t.grant].hard.term
      BY <1>5, <2>2, <3>1, Calmed, Zenon
    <3> QED
      BY <2>1, <3>2, Handled
  <2>4. CASE ~(s.term >= MaxTerm)
    <3>1. Campaigned(n, s, t)
      BY <1>2, <2>4, Zenon DEF BecomeCandidate, Ctx, Campaigned
    <3> HIDE DEF t
    <3>2. Local(n, t, disk[n], msgs, elected)
      <4>1. PICK d, M, E : d = disk[n] /\ M = msgs /\ E = elected
        BY Zenon
      <4>2. (\A m \in M : MsgOK(m)) /\ E \subseteq [term : Nat, node : Node]
        BY <4>1, Zenon DEF ElectionInv
      <4> QED
        BY <1>5, <2>2, <3>1, <4>1, <4>2, CampaignStep, Zenon
    <3>3. t.grant = None
      BY <3>1, Zenon DEF Campaigned
    <3> QED
      BY <2>1, <3>2, <3>3, Handled
  <2> QED
    BY <2>3, <2>4, Zenon
<1> QED
  BY <1>6, <1>7, Zenon

LEMMA VoteResultKeeps ==
  ASSUME ElectionInv, ~Pipelined, NEW n \in Node, NEW m \in msgs, RecvVoteResult(n, m)
  PROVE  ElectionInv'
<1>0. m.type = "voted" /\ m.to = n /\ wal[n] = IdleWal /\ UNCHANGED <<wal, disk>>
  BY Zenon DEF RecvVoteResult, MayRun
<1>1. m.from \in Node /\ m.term \in Nat /\ m.pre \in BOOLEAN
  BY <1>0, Zenon DEF ElectionInv, MsgOK, Message, VoteMsg, VotedMsg, AppendMsg, AppendedMsg
<1>2. CASE m.term > node[n].term /\ Become(n, StepDown(node[n], m.term), {})
  <2>1. PICK t : t = StepDown(node[n], m.term)
    BY Zenon
  <2>2. Local(n, t, disk[n], msgs, elected) /\ t.grant = None /\ Become(n, t, {})
    BY <1>1, <1>2, <2>1, SteppedDown, Zenon
  <2> QED
    BY <1>0, <2>2, Handled
<1>3. CASE LET s == [node[n] EXCEPT !.preVotes = @ \cup {m.from}]
           IN  Become(n, IF IsQuorum({n} \cup s.preVotes) THEN BecomeCandidate(n, s) ELSE s, {})
  BY <1>0, <1>1, <1>3, PreVoteKeeps, Zenon
<1> DEFINE s == [node[n] EXCEPT !.votes = @ \cup {m.from}]
           wins == IsQuorum({n} \cup s.votes)
<1>4. CASE /\ m.term = node[n].term /\ ~m.pre /\ node[n].role = "candidate"
           /\ Become(n, IF wins THEN BecomeLeader(s) ELSE s, {}) \/ (wins /\ Become(n, RevertToFollower(s), {}))
  <2>1. /\ Local(n, node[n], disk[n], msgs, elected) /\ CtxOK(node[n]) /\ node[n] \in Ctx
        /\ node[n].grant = None
    BY <1>4, Zenon DEF ElectionInv, Local, CtxOK, Standing
  <2>2. s \in Ctx
    BY <1>1, <2>1 DEF Ctx
  <2>3. /\ s.term = node[n].term /\ s.vote = node[n].vote /\ s.log = node[n].log
        /\ s.front = node[n].front /\ s.votes = node[n].votes \cup {m.from} /\ s.role = node[n].role
        /\ s.grant = node[n].grant /\ s.grantWait = node[n].grantWait /\ s.ask = node[n].ask
        /\ s.askWait = node[n].askWait /\ s.next = node[n].next /\ s.reject = node[n].reject
    BY <2>1, Zenon DEF Ctx
  <2>b. Become(n, IF wins THEN BecomeLeader(s) ELSE s, {}) \/ (wins /\ Become(n, RevertToFollower(s), {}))
    BY <1>4, Zenon
  <2> HIDE DEF s
  <2>4. CtxOK(s) /\ Counted(node[n], s, m.from)
    BY <2>1, <2>2, <2>3, Zenon DEF CtxOK, Counted
  <2>5. Vote(m) /\ m.from # n /\ VotedIn(msgs, m.from, n, node[n].term)
    <3>1. Ballots(m.from, node[m.from], disk[m.from], msgs, elected)
      BY <1>1, Zenon DEF ElectionInv, Local
    <3> QED
      BY <1>0, <1>4, <3>1, Zenon DEF Ballots, Vote, VotedIn
  <2>6. Local(n, s, disk[n], msgs, elected) /\ s.role = "candidate" /\ s.grant = None
    <3>1. PICK a, v, d, M, E : a = node[n] /\ v = m.from /\ d = disk[n] /\ M = msgs /\ E = elected
      BY Zenon
    <3>2. Local(n, s, d, M, E)
      BY <1>1, <2>1, <2>4, <2>5, <3>1, CountStep, Zenon
    <3> QED
      BY <1>4, <2>1, <2>3, <3>1, <3>2, Zenon
  <2>7. CASE ~wins
    <3>1. Become(n, s, {})
      BY <2>b, <2>7, Zenon
    <3> QED
      BY <1>0, <2>6, <3>1, Handled
  <2>8. CASE wins /\ Become(n, BecomeLeader(s), {})
    <3>1. s.term = disk[n].hard.term /\ s.term = node[n].term
      <4>1. m.term <= disk[n].hard.term
        BY <1>0, <2>5, Zenon DEF ElectionInv, VotesOK
      <4>2. disk[n].hard.term \in Nat /\ disk[n].hard.term <= node[n].term /\ node[n].term \in Nat
        BY <2>1, LocalTypes, Zenon
      <4> QED
        BY <1>1, <1>4, <2>3, <4>1, <4>2
    <3> QED
      BY <1>0, <2>6, <2>8, <3>1, Elected, Zenon
  <2>9. CASE Become(n, RevertToFollower(s), {})
    <3> DEFINE t == RevertToFollower(s)
    <3>1. CtxOK(t)
      BY <2>4, LeaderType, Zenon
    <3>2. /\ t.log = s.log /\ t.front = s.front /\ t.role = "follower" /\ t.vote = None
          /\ t.grant = s.grant /\ t.term = s.term
      BY <2>2, Zenon DEF RevertToFollower, Ctx
    <3> HIDE DEF t
    <3>3. Lapse(s, t) /\ t.grant = None
      BY <2>6, <3>2, Zenon DEF Lapse
    <3>4. Local(n, t, disk[n], msgs, elected)
      <4>1. PICK d, M, E : d = disk[n] /\ M = msgs /\ E = elected
        BY Zenon
      <4>2. (\A k \in M : MsgOK(k)) /\ E \subseteq [term : Nat, node : Node]
        BY <4>1, Zenon DEF ElectionInv
      <4> QED
        BY <2>6, <3>1, <3>3, <4>1, <4>2, LapseStep, Zenon
    <3>5. Become(n, t, {})
      BY <2>9, Zenon DEF t
    <3> QED
      BY <1>0, <3>3, <3>4, <3>5, Handled
  <2> QED
    BY <2>b, <2>7, <2>8, <2>9, Zenon
<1> QED
  BY <1>2, <1>3, <1>4, Zenon DEF RecvVoteResult

-----------------------------------------------------------------------------
(* Append messages. *)

LEMMA CutLog ==
  ASSUME NEW L \in Seq(Nat), NEW i \in Nat, i <= Len(L)
  PROVE  /\ Truncate(L, i) \in Seq(Nat) /\ Len(Truncate(L, i)) = i
         /\ \A x \in 1 .. i : Truncate(L, i)[x] = L[x]
<1>0. Len(L) \in Nat
  BY Indexed, Zenon
<1>1. CASE i < Len(L)
  <2>1. \A x \in 1 .. i : L[x] \in Nat
    BY <1>0, Indexed
  <2> QED
    BY <1>0, <1>1, <2>1, Sliced DEF Truncate
<1>2. CASE i = Len(L)
  BY <1>0, <1>2 DEF Truncate
<1> QED
  BY <1>0, <1>1, <1>2

LEMMA SliceFacts ==
  ASSUME NEW L \in Seq(Nat), NEW f \in Nat, NEW l \in Nat, 1 <= f, f <= l + 1, l <= Len(L)
  PROVE  LET b == SubSeq(L, f, l)
         IN  b \in Seq(Nat) /\ Len(b) = l - f + 1 /\ \A x \in 1 .. l - f + 1 : b[x] = L[f + x - 1]
<1>0. Len(L) \in Nat
  BY Indexed, Zenon
<1>1. f \in Int /\ l \in Int /\ \A i \in f .. l : L[i] \in Nat
  BY <1>0, Indexed
<1>2. /\ SubSeq(L, f, l) \in Seq(Nat) /\ Len(SubSeq(L, f, l)) = IF f <= l THEN l - f + 1 ELSE 0
      /\ \A x \in 1 .. l - f + 1 : SubSeq(L, f, l)[x] = L[f + x - 1]
  BY <1>1, Sliced, Zenon
<1>3. (IF f <= l THEN l - f + 1 ELSE 0) = l - f + 1
  OBVIOUS
<1> QED
  BY <1>2, <1>3, Zenon

\* raft_log_cut.
LEMMA CutFacts ==
  ASSUME NEW s, CtxOK(s), s.front.synced <= Len(s.log), NEW i \in Nat, i <= Len(s.log)
  PROVE  LET c == Cut(s, i) IN
         /\ CtxOK(c) /\ c.term = s.term /\ c.vote = s.vote /\ c.role = s.role /\ c.votes = s.votes
         /\ c.grant = s.grant /\ c.grantWait = s.grantWait /\ c.ask = s.ask /\ c.askWait = s.askWait
         /\ Len(c.log) = i /\ \A x \in 1 .. i : c.log[x] = s.log[x]
         /\ c.front.synced <= s.front.synced /\ c.front.synced <= i
<1>1. /\ s \in Ctx /\ s.log \in Seq(Nat) /\ Len(s.log) \in Nat /\ s.front \in Frontier /\ s.ack \in Ack
  BY Indexed, Zenon DEF CtxOK, Ctx
<1>2. CASE i < Len(s.log)
  <2> DEFINE L == Truncate(s.log, i)
             f == Clamp(s.front, i)
             a == [s.ack EXCEPT !.last = Lesser(s.ack.last, i)]
             c == [s EXCEPT !.log = L, !.front = f, !.ack = a]
  <2>1. Cut(s, i) = c
    BY <1>1, <1>2, Zenon DEF Cut, Ctx
  <2>2. L \in Seq(Nat) /\ Len(L) = i /\ \A x \in 1 .. i : L[x] = s.log[x]
    BY <1>1, CutLog, Zenon
  <2>3. f \in Frontier /\ f.synced <= s.front.synced /\ f.synced <= i
    BY <1>1 DEF Clamp, Frontier, Lesser
  <2>4. a \in Ack
    BY <1>1 DEF Ack, Lesser
  <2> HIDE DEF L, f, a
  <2>5. /\ c \in Ctx /\ c.term = s.term /\ c.vote = s.vote /\ c.role = s.role /\ c.votes = s.votes
        /\ c.grant = s.grant /\ c.grantWait = s.grantWait /\ c.ask = s.ask /\ c.askWait = s.askWait
        /\ c.log = L /\ c.front = f /\ c.next = s.next /\ c.reject = s.reject
    BY <1>1, <2>2, <2>3, <2>4, Zenon DEF Ctx
  <2> HIDE DEF c
  <2>6. CtxOK(c)
    BY <2>5, Zenon DEF CtxOK
  <2> QED
    BY <2>1, <2>2, <2>3, <2>5, <2>6, Zenon
<1>3. CASE ~(i < Len(s.log))
  <2>1. Cut(s, i) = s /\ i = Len(s.log)
    BY <1>1, <1>3 DEF Cut
  <2>2. s.front.synced \in Nat
    BY <1>1, Zenon DEF Frontier
  <2> QED
    BY <2>1, <2>2
<1> QED
  BY <1>2, <1>3, Zenon

\* What raft_recv_append_entries makes of the log when it lacks something: the log up to
\* prev, then the entries of the message that were appended.
Merged(s, m, upTo, t) ==
  /\ CtxOK(t) /\ t.term = s.term /\ t.vote = s.vote /\ t.role = s.role /\ t.votes = s.votes
  /\ t.grant = s.grant /\ t.grantWait = s.grantWait /\ t.ask = s.ask /\ t.askWait = s.askWait
  /\ m.prev <= Len(s.log) /\ Len(t.log) = m.prev + upTo
  /\ \A x \in 1 .. Len(t.log) : t.log[x] = IF x <= m.prev THEN s.log[x] ELSE m.entries[x - m.prev]
  /\ t.front.synced <= s.front.synced /\ t.front.synced <= Len(t.log)
  /\ \A x \in 1 .. t.front.synced : t.log[x] = s.log[x]

LEMMA MergeFacts ==
  ASSUME WellOrdered, NEW s, CtxOK(s), s.front.synced <= Len(s.log), NEW m, m.prev \in Nat, m.entries \in Seq(Nat),
         Matches(s, m), Missing(s, m) # {}, NEW upTo \in Nat,
         Min(Missing(s, m)) - 1 <= upTo, upTo <= Len(m.entries)
  PROVE  Merged(s, m, upTo, Merge(s, m, upTo))
<1> DEFINE k == Min(Missing(s, m))
           i == m.prev + k - 1
           c == Cut(s, i)
           e == SubSeq(m.entries, k, upTo)
           t == [c EXCEPT !.log = c.log \o e]
<1>0. s \in Ctx /\ s.log \in Seq(Nat) /\ Len(s.log) \in Nat /\ Len(m.entries) \in Nat
  BY Indexed, Zenon DEF CtxOK, Ctx
<1>1. k \in Missing(s, m) /\ \A y \in Missing(s, m) : k <= y
  <2>1. Missing(s, m) \subseteq Nat
    BY <1>0 DEF Missing
  <2> QED
    BY <2>1, MinFacts, Zenon
<1>2. k \in 1 .. Len(m.entries) /\ k \in Nat /\ k >= 1 /\ k - 1 <= upTo
  BY <1>0, <1>1 DEF Missing
<1>t. Merge(s, m, upTo) = t
  BY Zenon DEF Merge
<1> HIDE DEF k
<1>3. ASSUME NEW j \in 1 .. k - 1 PROVE m.prev + j <= Len(s.log) /\ s.log[m.prev + j] = m.entries[j]
  <2>1. j \notin Missing(s, m)
    BY <1>1, <1>2, <1>0
  <2>2. j \in 1 .. Len(m.entries) /\ j \in 1 .. j
    BY <1>0, <1>2
  <2>3. ~(m.prev + j > Len(s.log) \/ s.log[m.prev + j] # m.entries[j])
    BY <2>1, <2>2, Zenon DEF Missing
  <2> QED
    BY <1>0, <2>2, <2>3
<1>p. m.prev <= Len(s.log)
  BY <1>0 DEF Matches
<1>4. i \in Nat /\ i <= Len(s.log) /\ i >= m.prev
  <2>1. CASE k = 1
    BY <1>p, <1>0, <2>1
  <2>2. CASE k # 1
    <3>1. k - 1 \in 1 .. k - 1
      BY <1>2, <2>2
    <3>2. m.prev + (k - 1) <= Len(s.log)
      BY <1>3, <3>1, Zenon
    <3> QED
      BY <1>2, <3>2
  <2> QED
    BY <2>1, <2>2, Zenon
<1>i. i = m.prev + k - 1
  BY Zenon
<1> HIDE DEF i
<1>5. /\ CtxOK(c) /\ c.term = s.term /\ c.vote = s.vote /\ c.role = s.role /\ c.votes = s.votes
      /\ c.grant = s.grant /\ c.grantWait = s.grantWait /\ c.ask = s.ask /\ c.askWait = s.askWait
      /\ Len(c.log) = i /\ \A x \in 1 .. i : c.log[x] = s.log[x]
      /\ c.front.synced <= s.front.synced /\ c.front.synced <= i
  BY <1>4, CutFacts, Zenon
<1>6. e \in Seq(Nat) /\ Len(e) = upTo - k + 1 /\ \A x \in 1 .. upTo - k + 1 : e[x] = m.entries[k + x - 1]
  <2>1. PICK q : q = m.entries
    BY Zenon
  <2>2. q \in Seq(Nat) /\ 1 <= k /\ k <= upTo + 1 /\ upTo <= Len(q)
    BY <1>2, <2>1
  <2> QED
    BY <1>2, <2>1, <2>2, SliceFacts, Zenon
<1> HIDE DEF c, e
<1>7. c \in Ctx /\ c.log \in Seq(Nat) /\ c.front.synced \in Nat
  BY <1>5, Zenon DEF CtxOK, Ctx, Frontier
<1> DEFINE L == c.log \o e
<1>8. /\ L \in Seq(Nat) /\ Len(L) = i + (upTo - k + 1)
      /\ \A x \in 1 .. i + (upTo - k + 1) : L[x] = IF x <= i THEN c.log[x] ELSE e[x - i]
  <2>1. /\ L \in Seq(Nat) /\ Len(L) = Len(c.log) + Len(e)
        /\ \A x \in 1 .. Len(c.log) + Len(e) : L[x] = IF x <= Len(c.log) THEN c.log[x] ELSE e[x - Len(c.log)]
    <3>1. PICK a : a = c.log
      BY Zenon
    <3>2. a \in Seq(Nat)
      BY <1>7, <3>1, Zenon
    <3>3. /\ a \o e \in Seq(Nat) /\ Len(a \o e) = Len(a) + Len(e)
          /\ \A x \in 1 .. Len(a) + Len(e) : (a \o e)[x] = IF x <= Len(a) THEN a[x] ELSE e[x - Len(a)]
      <4>1. e \in Seq(Nat)
        BY <1>6, Zenon
      <4> QED
        BY <3>2, <4>1, Joined, Zenon
    <3>4. L = a \o e
      BY <3>1, Zenon
    <3> HIDE DEF L
    <3> QED
      BY <3>1, <3>3, <3>4, Zenon
  <2> HIDE DEF L
  <2> QED
    BY <1>5, <1>6, <2>1, Zenon
<1>9. t = [c EXCEPT !.log = L]
  BY Zenon
<1> HIDE DEF L, t
<1>10. /\ t \in Ctx /\ t.term = c.term /\ t.vote = c.vote /\ t.role = c.role /\ t.votes = c.votes
       /\ t.grant = c.grant /\ t.grantWait = c.grantWait /\ t.ask = c.ask /\ t.askWait = c.askWait
       /\ t.log = L /\ t.front = c.front /\ t.next = c.next /\ t.reject = c.reject
  BY <1>7, <1>8, <1>9, Zenon DEF Ctx
<1>11. CtxOK(t)
  BY <1>5, <1>10, Zenon DEF CtxOK
<1>12. Len(L) = m.prev + upTo
  BY <1>2, <1>8, <1>i
<1>13. ASSUME NEW x \in 1 .. Len(L)
       PROVE  L[x] = (IF x <= m.prev THEN s.log[x] ELSE m.entries[x - m.prev]) /\ (x <= i => L[x] = s.log[x])
  <2>0. x \in Nat /\ x >= 1 /\ x <= m.prev + upTo /\ x \in 1 .. i + (upTo - k + 1)
    BY <1>8, <1>12
  <2>1. CASE x <= i
    <3>1. L[x] = s.log[x]
      <4>1. x \in 1 .. i
        BY <1>4, <2>0, <2>1
      <4> QED
        BY <1>5, <1>8, <2>0, <2>1, <4>1, Zenon
    <3>2. CASE x > m.prev
      <4>1. x - m.prev \in 1 .. k - 1 /\ m.prev + (x - m.prev) = x
        <5>1. PICK p : p = m.prev
          BY Zenon
        <5>2. p \in Nat /\ i = p + k - 1 /\ x <= i /\ x > p
          BY <1>i, <2>1, <3>2, <5>1, Zenon
        <5>3. x - p >= 1 /\ x - p <= k - 1 /\ p + (x - p) = x
          BY <1>2, <2>0, <5>2
        <5> QED
          BY <1>2, <2>0, <5>1, <5>2, <5>3
      <4>2. s.log[x] = m.entries[x - m.prev]
        BY <1>3, <4>1, Zenon
      <4> QED
        BY <2>0, <3>1, <3>2, <4>2, Zenon
    <3> QED
      BY <2>0, <3>1, <3>2
  <2>2. CASE ~(x <= i)
    <3>1. x - i \in 1 .. upTo - k + 1 /\ k + (x - i) - 1 = x - m.prev /\ ~(x <= m.prev)
      <4>1. PICK p : p = m.prev
        BY Zenon
      <4>2. p \in Nat /\ i = p + k - 1 /\ x <= p + upTo /\ x > i
        BY <1>4, <1>i, <2>0, <2>2, <4>1
      <4>3. x - i >= 1 /\ x - i <= upTo - k + 1 /\ x - i \in Int /\ upTo - k + 1 \in Int
        BY <1>2, <2>0, <4>2
      <4>4. k + (x - i) - 1 = x - p /\ ~(x <= p)
        BY <1>2, <2>0, <4>2
      <4> QED
        BY <4>1, <4>3, <4>4
    <3>2. L[x] = e[x - i]
      BY <1>8, <2>0, <2>2, Zenon
    <3>3. e[x - i] = m.entries[k + (x - i) - 1]
      BY <1>6, <3>1, Zenon
    <3> QED
      BY <2>2, <3>1, <3>2, <3>3, Zenon
  <2> QED
    BY <2>1, <2>2, Zenon
<1>14. t.front.synced <= Len(L) /\ \A x \in 1 .. t.front.synced : L[x] = s.log[x]
  <2>1. i <= Len(L) /\ Len(L) \in Nat
    BY <1>2, <1>4, <1>8
  <2>2. t.front.synced \in Nat /\ t.front.synced <= i
    BY <1>5, <1>7, <1>10, Zenon
  <2>3. \A x \in 1 .. t.front.synced : x \in 1 .. Len(L) /\ x <= i
    BY <1>4, <2>1, <2>2
  <2> QED
    BY <1>4, <1>13, <2>1, <2>2, <2>3
<1>15. /\ t.log = L /\ t.front.synced <= s.front.synced
       /\ t.term = s.term /\ t.vote = s.vote /\ t.role = s.role /\ t.votes = s.votes
       /\ t.grant = s.grant /\ t.grantWait = s.grantWait /\ t.ask = s.ask /\ t.askWait = s.askWait
  BY <1>5, <1>10, Zenon
<1> QED
  BY <1>t, <1>p, <1>11, <1>12, <1>13, <1>14, <1>15, Zenon DEF Merged

\* Message m of a leader of the term reaches n.
LEMMA AppendFrom ==
  ASSUME ElectionInv, ElectionSafety, NEW m \in msgs, m.type = "append"
  PROVE  /\ m.from \in Node /\ m.term \in Nat /\ m.prev \in Nat /\ m.prevTerm \in Nat
         /\ m.entries \in Seq(Nat) /\ m.commit \in Nat
         /\ m.from # m.to /\ Led(elected, m.term, m.from) /\ ~Led(elected, m.term, m.to)
         /\ \A i \in 1 .. Len(m.entries) : m.entries[i] >= 1 /\ m.entries[i] <= m.term
<1>1. /\ m.from \in Node /\ m.term \in Nat /\ m.prev \in Nat /\ m.prevTerm \in Nat
      /\ m.entries \in Seq(Nat) /\ m.commit \in Nat
  BY Zenon DEF ElectionInv, MsgOK, Message, VoteMsg, VotedMsg, AppendMsg, AppendedMsg
<1>2. /\ m.from # m.to /\ Led(elected, m.term, m.from)
      /\ \A i \in 1 .. Len(m.entries) : m.entries[i] >= 1 /\ m.entries[i] <= m.term
  BY Zenon DEF ElectionInv, AppendsOK
<1>3. ~Led(elected, m.term, m.to)
  BY <1>2, Zenon DEF ElectionSafety, Led
<1> QED
  BY <1>1, <1>2, <1>3, Zenon

\* The state in which n compares its log with the message.
LEMMA FollowFacts ==
  ASSUME ElectionInv, ElectionSafety, NEW n \in Node, NEW m \in msgs, m.type = "append", m.to = n,
         m.term >= node[n].term, m.term = node[n].term => node[n].role # "leader"
  PROVE  LET s == Follow(node[n], m) IN
         /\ Local(n, s, disk[n], msgs, elected) /\ s.term = m.term /\ s.role = "follower"
         /\ s.grant # None => s.term <= disk[s.grant].hard.term
         /\ s.log = node[n].log
<1> DEFINE a == IF m.term > node[n].term THEN StepDown(node[n], m.term) ELSE node[n]
           s == [a EXCEPT !.preVote = FALSE, !.preVotes = {}, !.role = "follower"]
<1>0. Follow(node[n], m) = s
  BY Zenon DEF Follow
<1>1. m.term \in Nat
  BY AppendFrom, Zenon
<1>2. Local(n, node[n], disk[n], msgs, elected) /\ node[n].term \in Nat
  BY LocalTypes, Zenon DEF ElectionInv
<1>3. /\ Local(n, a, disk[n], msgs, elected) /\ a.term = m.term /\ a.role # "leader"
      /\ a.grant # None => a.term <= disk[a.grant].hard.term
      /\ a.log = node[n].log
  <2>1. CASE m.term > node[n].term
    BY <1>1, <2>1, SteppedDown, Zenon
  <2>2. CASE ~(m.term > node[n].term)
    BY <1>1, <1>2, <2>2 DEF ElectionInv, GrantsOK
  <2> QED
    BY <2>1, <2>2, Zenon
<1> HIDE DEF a
<1>4. CtxOK(a) /\ a \in Ctx
  BY <1>3, Zenon DEF Local, CtxOK
<1>5. /\ s \in Ctx /\ s.term = a.term /\ s.vote = a.vote /\ s.log = a.log /\ s.front = a.front
      /\ s.votes = a.votes /\ s.role = "follower" /\ s.grant = a.grant /\ s.grantWait = a.grantWait
      /\ s.ask = a.ask /\ s.askWait = a.askWait /\ s.reject = a.reject
  BY <1>4, Zenon DEF Ctx
<1> HIDE DEF s
<1>6. CtxOK(s)
  BY <1>4, <1>5, Zenon DEF CtxOK
<1>7. Calm(a, s)
  BY <1>3, <1>5, Zenon DEF Calm
<1>8. /\ Local(n, s, disk[n], msgs, elected)
      /\ s.grant # None => s.term <= disk[s.grant].hard.term
  BY <1>3, <1>6, <1>7, Calmed, Zenon
<1> QED
  BY <1>0, <1>3, <1>5, <1>8, Zenon

LEMMA MergedLocal ==
  ASSUME WellOrdered, ElectionInv, ElectionSafety, NEW n \in Node, NEW m \in msgs, m.type = "append", m.to = n,
         NEW s, Local(n, s, disk[n], msgs, elected), s.term = m.term, s.role = "follower",
         s.grant # None => s.term <= disk[s.grant].hard.term,
         Matches(s, m), Missing(s, m) # {}, NEW upTo \in Nat,
         Min(Missing(s, m)) - 1 <= upTo, upTo <= Len(m.entries)
  PROVE  LET t == Merge(s, m, upTo) IN
         /\ Local(n, t, disk[n], msgs, elected)
         /\ t.grant # None => t.term <= disk[t.grant].hard.term
<1> DEFINE t == Merge(s, m, upTo)
<1>1. /\ m.prev \in Nat /\ m.entries \in Seq(Nat) /\ ~Led(elected, s.term, n)
      /\ \A i \in 1 .. Len(m.entries) : m.entries[i] >= 1 /\ m.entries[i] <= m.term
  BY AppendFrom, Zenon
<1>2. CtxOK(s) /\ OnDisk(s, disk[n]) /\ s.front.synced <= Len(s.log)
  BY Zenon DEF Local, OnDisk
<1>3. /\ CtxOK(t) /\ t.term = s.term /\ t.vote = s.vote /\ t.role = s.role
      /\ t.grant = s.grant /\ t.grantWait = s.grantWait
      /\ m.prev <= Len(s.log) /\ Len(t.log) = m.prev + upTo
      /\ \A x \in 1 .. Len(t.log) : t.log[x] = IF x <= m.prev THEN s.log[x] ELSE m.entries[x - m.prev]
      /\ t.front.synced <= s.front.synced /\ t.front.synced <= Len(t.log)
      /\ \A x \in 1 .. t.front.synced : t.log[x] = s.log[x]
  <2>1. s.front.synced <= Len(s.log)
    BY <1>2, Zenon
  <2>2. CtxOK(s) /\ m.prev \in Nat /\ m.entries \in Seq(Nat)
    BY <1>1, <1>2, Zenon
  <2>3. Merged(s, m, upTo, t)
    BY <2>1, <2>2, MergeFacts, Zenon
  <2> HIDE DEF t
  <2> QED
    BY <2>3, Zenon DEF Merged
<1> HIDE DEF t
<1>4. Len(s.log) \in Nat /\ Len(m.entries) \in Nat
  BY <1>1, Indexed, LocalTypes, Zenon
<1>5. ASSUME NEW x \in 1 .. Len(t.log) PROVE t.log[x] >= 1 /\ t.log[x] <= s.term
  <2>1. CASE x <= m.prev
    <3>1. x \in 1 .. Len(s.log)
      BY <1>1, <1>3, <1>4, <2>1
    <3> QED
      BY <1>2, <1>3, <2>1, <3>1, Zenon DEF OnDisk
  <2>2. CASE ~(x <= m.prev)
    <3>1. x - m.prev \in 1 .. Len(m.entries)
      <4>1. PICK p : p = m.prev
        BY Zenon
      <4>2. p \in Nat /\ x <= p + upTo /\ ~(x <= p) /\ x \in Nat
        BY <1>1, <1>3, <2>2, <4>1
      <4> QED
        BY <1>4, <4>1, <4>2
    <3> QED
      BY <1>1, <1>3, <2>2, <3>1, Zenon
  <2> QED
    BY <2>1, <2>2, Zenon
<1>6. Followed(s, t)
  <2>1. t.log \in Seq(Nat)
    BY <1>3, Zenon DEF CtxOK, Ctx
  <2> QED
    BY <1>3, <1>5, <2>1, Zenon DEF Followed
<1>7. Local(n, t, disk[n], msgs, elected)
  <2>1. PICK d, M, E : d = disk[n] /\ M = msgs /\ E = elected
    BY Zenon
  <2> QED
    BY <1>1, <1>3, <1>6, <2>1, FollowStep, Zenon
<1> QED
  BY <1>3, <1>7, Zenon DEF t

LEMMA AcceptKeeps ==
  ASSUME WellOrdered, ElectionInv, ElectionSafety, NEW n \in Node, NEW m \in msgs, m.type = "append", m.to = n,
         NEW s, Local(n, s, disk[n], msgs, elected), s.term = m.term, s.role = "follower",
         s.grant # None => s.term <= disk[s.grant].hard.term,
         wal[n] = IdleWal, UNCHANGED <<wal, disk>>, Matches(s, m), AcceptAppend(n, s, m)
  PROVE  ElectionInv' /\ elected' = elected
<1> DEFINE c == Merge(s, m, Len(m.entries))
           f == FollowCommit(c, m)
           b == s.dirty \/ m.entries # << >>
           t == [f EXCEPT !.dirty = b]
           l == LatchAck(t, m)
           r == AppendResult(n, m.from, t, TRUE, Lesser(t.front.confirm, m.prev), 0, 0, 0)
<1>1. m.prev \in Nat /\ m.entries \in Seq(Nat) /\ Len(m.entries) \in Nat /\ m.from \in Node
      /\ m.term \in Nat /\ m.commit \in Nat
  BY AppendFrom, Indexed, Zenon
<1>b. Become(n, t, {r}) \/ Become(n, l, {}) \/ Become(n, t, {})
  BY Zenon DEF AcceptAppend
<1>2. /\ Local(n, c, disk[n], msgs, elected)
      /\ c.grant # None => c.term <= disk[c.grant].hard.term
  <2>1. CASE Missing(s, m) = {}
    <3>1. c = s
      BY <2>1, Zenon DEF Merge
    <3> QED
      BY <3>1, Zenon
  <2>2. CASE Missing(s, m) # {}
    <3>1. Missing(s, m) \subseteq Nat /\ \A x \in Missing(s, m) : x <= Len(m.entries)
      BY <1>1 DEF Missing
    <3>2. Min(Missing(s, m)) \in Missing(s, m)
      BY <2>2, <3>1, MinFacts, Zenon
    <3>3. Min(Missing(s, m)) - 1 <= Len(m.entries)
      BY <1>1, <3>1, <3>2
    <3>4. Len(m.entries) <= Len(m.entries)
      BY <1>1
    <3>5. PICK u : u = Len(m.entries)
      BY Zenon
    <3> QED
      BY <1>1, <2>2, <3>3, <3>4, <3>5, MergedLocal, Zenon
  <2> QED
    BY <2>1, <2>2, Zenon
<1> HIDE DEF c
<1>3. CtxOK(c) /\ c \in Ctx /\ c.commit \in Nat /\ Len(c.log) \in Nat
  BY <1>2, LocalTypes, Zenon DEF Local, CtxOK, Ctx
<1>4. s.dirty \in BOOLEAN
  BY Zenon DEF Local, CtxOK, Ctx
<1>5. b \in BOOLEAN
  BY <1>4, Zenon
<1> HIDE DEF b
<1> DEFINE k == Larger(c.commit, Lesser(m.commit, Lesser(m.prev + Len(m.entries), Len(c.log))))
<1>6. k \in Nat /\ f = [c EXCEPT !.commit = k]
  BY <1>1, <1>3 DEF FollowCommit, Larger, Lesser
<1> HIDE DEF k
<1>7. t = [c EXCEPT !.commit = k, !.dirty = b]
  BY <1>3, <1>6, Zenon DEF Ctx
<1> HIDE DEF t
<1>8. /\ t \in Ctx /\ t.term = c.term /\ t.vote = c.vote /\ t.log = c.log /\ t.front = c.front
      /\ t.votes = c.votes /\ t.role = c.role /\ t.grant = c.grant /\ t.grantWait = c.grantWait
      /\ t.ask = c.ask /\ t.askWait = c.askWait /\ t.reject = c.reject /\ t.next = c.next
  BY <1>3, <1>5, <1>6, <1>7, Zenon DEF Ctx
<1>9. CtxOK(t) /\ Calm(c, t)
  BY <1>3, <1>8, Zenon DEF CtxOK, Calm
<1>10. /\ Local(n, t, disk[n], msgs, elected)
       /\ t.grant # None => t.term <= disk[t.grant].hard.term
  BY <1>2, <1>9, Calmed, Zenon
<1>11. CASE Become(n, t, {})
  BY <1>10, <1>11, Handled
<1>12. CASE Become(n, t, {r})
  <2>1. Lesser(t.front.confirm, m.prev) \in Nat /\ t.term \in Nat
    BY <1>1, <1>8, Zenon DEF Ctx, Frontier, Lesser
  <2>2. r \in AppendedMsg /\ r.ok /\ r.from = n /\ r.type = "appended"
    BY <1>1, <2>1, Zenon DEF AppendResult, AppendedMsg
  <2> HIDE DEF r
  <2>3. \A x \in {r} : MsgOK(x) /\ x.from = n /\ x.type # "append" /\ ~Vote(x) /\ ~Request(x)
    BY <2>2, Zenon DEF MsgOK, Message, Vote, Request
  <2> QED
    BY <1>10, <1>12, <2>3, Handled, Zenon
<1>13. CASE Become(n, l, {})
  <2> DEFINE a == IF t.ack.on THEN t.ack ELSE [NoAck EXCEPT !.wait = TRUE]
             w == [a EXCEPT !.on = TRUE, !.to = m.from, !.confirmed = Larger(@, m.prev + Len(m.entries))]
  <2>1. l = [t EXCEPT !.ack = w]
    BY Zenon DEF LatchAck
  <2>2. a \in Ack
    BY <1>8, NothingPending, Zenon DEF Ctx, Ack
  <2> HIDE DEF a
  <2>3. w \in Ack
    <3>1. a.confirmed \in Nat /\ m.prev + Len(m.entries) \in Nat
      BY <1>1, <2>2 DEF Ack
    <3>2. PICK x : x = Larger(a.confirmed, m.prev + Len(m.entries))
      BY Zenon
    <3>3. x \in Nat
      BY <3>1, <3>2, Zenon DEF Larger
    <3> QED
      BY <1>1, <2>2, <3>2, <3>3, Zenon DEF Ack
  <2> HIDE DEF w, l
  <2>4. /\ l \in Ctx /\ l.term = t.term /\ l.vote = t.vote /\ l.log = t.log /\ l.front = t.front
        /\ l.votes = t.votes /\ l.role = t.role /\ l.grant = t.grant /\ l.grantWait = t.grantWait
        /\ l.ask = t.ask /\ l.askWait = t.askWait /\ l.reject = t.reject /\ l.next = t.next
    BY <1>8, <2>1, <2>3, Zenon DEF Ctx
  <2>5. CtxOK(l) /\ Calm(t, l)
    BY <1>9, <2>4, Zenon DEF CtxOK, Calm
  <2>6. /\ Local(n, l, disk[n], msgs, elected)
        /\ l.grant # None => l.term <= disk[l.grant].hard.term
    BY <1>10, <2>5, Calmed, Zenon
  <2> QED
    BY <1>13, <2>6, Handled
<1> QED
  BY <1>b, <1>11, <1>12, <1>13, Zenon

LEMMA RejectKeeps ==
  ASSUME WellOrdered, ElectionInv, ElectionSafety, NEW n \in Node, NEW m \in msgs, m.type = "append", m.to = n,
         NEW s, Local(n, s, disk[n], msgs, elected),
         s.grant # None => s.term <= disk[s.grant].hard.term,
         wal[n] = IdleWal, UNCHANGED <<wal, disk>>, ~Matches(s, m), RejectAppend(n, s, m)
  PROVE  ElectionInv' /\ elected' = elected
<1> DEFINE tip == Len(s.log)
           hint == IF m.prev > tip THEN tip + 1 ELSE m.prev
           ct == TermAt(s.log, m.prev)
           R == {i \in 1 .. m.prev : \A j \in i .. m.prev : s.log[j] = ct}
           cfi == IF ct = 0 THEN 0 ELSE Min(R)
           j == [on |-> TRUE, to |-> m.from, wait |-> TRUE, hint |-> hint, last |-> tip,
                 conflictTerm |-> ct, conflictFirst |-> cfi]
           t == [s EXCEPT !.reject = j]
           r == AppendResult(n, m.from, s, FALSE, tip, hint, ct, cfi)
<1>1. m.prev \in Nat /\ m.from \in Node /\ m.prev > 0
  BY AppendFrom, Zenon DEF Matches
<1>2. CtxOK(s) /\ s \in Ctx /\ s.log \in Seq(Nat) /\ tip \in Nat /\ s.term \in Nat
  BY LocalTypes, Zenon DEF Local, CtxOK
<1>3. hint \in Nat /\ hint >= 1
  BY <1>1, <1>2
<1>4. ct \in Nat
  <2>1. \A i \in Int : TermAt(s.log, i) \in Nat
    BY <1>2, TermAtFacts, Zenon
  <2> QED
    BY <1>1, <2>1
<1>5. cfi \in Nat /\ (ct > 0 => cfi >= 1)
  <2>1. CASE ct = 0
    BY <2>1
  <2>2. CASE ct # 0
    <3>1. ct = s.log[m.prev]
      BY <2>2, Zenon DEF TermAt
    <3> HIDE DEF ct
    <3>2. m.prev \in 1 .. m.prev /\ \A k \in m.prev .. m.prev : k = m.prev
      BY <1>1
    <3>3. R \subseteq Nat /\ R # {} /\ \A k \in R : k >= 1
      BY <1>1, <3>1, <3>2
    <3> HIDE DEF R
    <3>4. Min(R) \in R
      BY <3>3, MinFacts, Zenon
    <3> QED
      BY <2>2, <3>3, <3>4, Zenon
  <2> QED
    BY <2>1, <2>2, Zenon
<1>b. Become(n, t, {}) \/ Become(n, s, {r})
  BY Zenon DEF RejectAppend
<1> HIDE DEF hint, ct, cfi, tip
<1>6. CASE Become(n, t, {})
  <2>1. j \in Reject /\ Usable(j)
    BY <1>1, <1>2, <1>3, <1>4, <1>5, Zenon DEF Reject, Usable
  <2> HIDE DEF j
  <2>2. /\ t \in Ctx /\ t.term = s.term /\ t.vote = s.vote /\ t.log = s.log /\ t.front = s.front
        /\ t.votes = s.votes /\ t.role = s.role /\ t.grant = s.grant /\ t.grantWait = s.grantWait
        /\ t.ask = s.ask /\ t.askWait = s.askWait /\ t.reject = j /\ t.next = s.next
    BY <1>2, <2>1, Zenon DEF Ctx
  <2> HIDE DEF t
  <2>3. CtxOK(t) /\ Calm(s, t)
    BY <1>2, <2>1, <2>2, Zenon DEF CtxOK, Calm
  <2>4. /\ Local(n, t, disk[n], msgs, elected)
        /\ t.grant # None => t.term <= disk[t.grant].hard.term
    BY <2>3, Calmed, Zenon
  <2> QED
    BY <1>6, <2>4, Handled
<1>7. CASE Become(n, s, {r})
  <2>1. r \in AppendedMsg /\ Usable(r) /\ r.from = n /\ r.type = "appended"
    BY <1>1, <1>2, <1>3, <1>4, <1>5, Zenon DEF AppendResult, AppendedMsg, Usable
  <2> HIDE DEF r
  <2>2. \A x \in {r} : MsgOK(x) /\ x.from = n /\ x.type # "append" /\ ~Vote(x) /\ ~Request(x)
    BY <2>1, Zenon DEF MsgOK, Message, Vote, Request
  <2> QED
    BY <1>7, <2>2, Handled, Zenon
<1> QED
  BY <1>b, <1>6, <1>7, Zenon

LEMMA AppendEntriesKeeps ==
  ASSUME WellOrdered, ElectionInv, ElectionSafety, ~Pipelined, NEW n \in Node, NEW m \in msgs, RecvAppendEntries(n, m)
  PROVE  ElectionInv' /\ elected' = elected
<1>0. /\ m.type = "append" /\ m.to = n /\ wal[n] = IdleWal /\ UNCHANGED <<wal, disk>>
      /\ m.term >= node[n].term /\ (m.term = node[n].term => node[n].role # "leader")
  BY Zenon DEF RecvAppendEntries, MayRun
<1>1. PICK s : s = Follow(node[n], m)
  BY Zenon
<1>2. /\ Local(n, s, disk[n], msgs, elected) /\ s.term = m.term /\ s.role = "follower"
      /\ s.grant # None => s.term <= disk[s.grant].hard.term
  BY <1>0, <1>1, FollowFacts, Zenon
<1>3. CASE Matches(s, m) /\ AcceptAppend(n, s, m)
  BY <1>0, <1>2, <1>3, AcceptKeeps, Zenon
<1>4. CASE ~Matches(s, m) /\ RejectAppend(n, s, m)
  BY <1>0, <1>2, <1>4, RejectKeeps, Zenon
<1>5. CASE /\ Matches(s, m) /\ Missing(s, m) # {}
           /\ \E upTo \in Min(Missing(s, m)) - 1 .. Len(m.entries) - 1 :
                Become(n, Merge(s, m, upTo), {})
  <2>1. PICK upTo \in Min(Missing(s, m)) - 1 .. Len(m.entries) - 1 : Become(n, Merge(s, m, upTo), {})
    BY <1>5, Zenon
  <2>2. Len(m.entries) \in Nat
    BY <1>0, AppendFrom, Indexed, Zenon
  <2>3. Min(Missing(s, m)) \in Nat /\ Min(Missing(s, m)) >= 1
    <3>1. Missing(s, m) \subseteq Nat /\ \A x \in Missing(s, m) : x >= 1
      BY <2>2 DEF Missing
    <3> QED
      BY <1>5, <3>1, MinFacts, Zenon
  <2>4. upTo \in Nat /\ Min(Missing(s, m)) - 1 <= upTo /\ upTo <= Len(m.entries)
    BY <2>2, <2>3
  <2>5. PICK t : t = Merge(s, m, upTo)
    BY Zenon
  <2>6. /\ Local(n, t, disk[n], msgs, elected)
        /\ t.grant # None => t.term <= disk[t.grant].hard.term
    BY <1>0, <1>2, <1>5, <2>4, <2>5, MergedLocal, Zenon
  <2> QED
    BY <1>0, <2>1, <2>5, <2>6, Handled
<1> QED
  BY <1>1, <1>3, <1>4, <1>5, Zenon DEF RecvAppendEntries

LEMMA AdvanceCalm ==
  ASSUME WellOrdered, NEW n \in Node, NEW s, CtxOK(s)
  PROVE  CtxOK(AdvanceCommit(n, s)) /\ Calm(s, AdvanceCommit(n, s))
<1>1. PICK c \in Nat : AdvanceCommit(n, s) = [s EXCEPT !.commit = c]
  BY AdvanceType, Zenon
<1>2. s \in Ctx
  BY Zenon DEF CtxOK
<1> QED
  BY <1>1, <1>2, AdvanceType, Zenon DEF Calm, Ctx

LEMMA ResumeFacts ==
  ASSUME WellOrdered, NEW s, CtxOK(s), NEW m, MsgOK(m), m.type = "appended", ~m.ok
  PROVE  ResumeAt(s, m) \in Nat /\ ResumeAt(s, m) >= 1
<1>1. s.log \in Seq(Nat) /\ Len(s.log) \in Nat
  BY Indexed, Zenon DEF CtxOK, Ctx
<1>2. /\ m.hint \in Nat /\ m.conflictTerm \in Nat /\ m.conflictFirst \in Nat /\ Usable(m)
  BY Zenon DEF MsgOK, Message, VoteMsg, VotedMsg, AppendMsg, AppendedMsg
<1> DEFINE above == {i \in 1 .. Len(s.log) : s.log[i] > m.conflictTerm}
           T == above \cup {Len(s.log) + 1}
           at == IF TermAt(s.log, Min(T) - 1) = m.conflictTerm THEN Min(T) ELSE m.conflictFirst
<1>3. T \subseteq Nat /\ T # {} /\ \A x \in T : x >= 1
  BY <1>1
<1>4. ResumeAt(s, m) = IF m.conflictTerm > 0 THEN Lesser(at, Len(s.log) + 1) ELSE m.hint
  BY Zenon DEF ResumeAt
<1> HIDE DEF T
<1>5. Min(T) \in Nat /\ Min(T) >= 1
  BY <1>3, MinFacts, Zenon
<1>6. at \in Nat /\ (m.conflictTerm > 0 => at >= 1)
  BY <1>2, <1>5, Zenon DEF Usable
<1> HIDE DEF at
<1> QED
  BY <1>1, <1>2, <1>4, <1>6 DEF Lesser, Usable

LEMMA AppendResultKeeps ==
  ASSUME WellOrdered, ElectionInv, ~Pipelined, NEW n \in Node, NEW m \in msgs, RecvAppendResult(n, m)
  PROVE  ElectionInv' /\ elected' = elected
<1>0. /\ m.type = "appended" /\ wal[n] = IdleWal /\ UNCHANGED <<wal, disk>> /\ node[n].role = "leader"
  BY Zenon DEF RecvAppendResult, MayRun
<1>1. MsgOK(m) /\ m.from \in Node /\ m.term \in Nat /\ m.last \in Nat
  BY <1>0, Zenon DEF ElectionInv, MsgOK, Message, VoteMsg, VotedMsg, AppendMsg, AppendedMsg
<1>2. CASE m.term > node[n].term /\ Become(n, StepDown(node[n], m.term), {})
  <2>1. PICK t : t = StepDown(node[n], m.term)
    BY Zenon
  <2>2. Local(n, t, disk[n], msgs, elected) /\ t.grant = None
    BY <1>1, <1>2, <2>1, SteppedDown, Zenon
  <2> QED
    BY <1>0, <1>2, <2>1, <2>2, Handled
<1>3. CASE LET s == node[n]
               match == Lesser(m.last, Len(s.log))
               t == IF ~m.ok THEN [s EXCEPT !.next[m.from] = ResumeAt(s, m)]
                    ELSE IF match < s.match[m.from] THEN s
                    ELSE [s EXCEPT !.match[m.from] = match, !.next[m.from] = match + 1]
           IN  Become(n, AdvanceCommit(n, t), {})
  <2>s. PICK s : s = node[n]
    BY Zenon
  <2> DEFINE p == m.from
             match == Lesser(m.last, Len(s.log))
             t == IF ~m.ok THEN [s EXCEPT !.next[p] = ResumeAt(s, m)]
                  ELSE IF match < s.match[p] THEN s
                  ELSE [s EXCEPT !.match[p] = match, !.next[p] = match + 1]
  <2>1. /\ Local(n, s, disk[n], msgs, elected) /\ CtxOK(s) /\ s \in Ctx /\ s.role = "leader"
        /\ s.grant # None => s.term <= disk[s.grant].hard.term
    BY <1>0, <2>s, Zenon DEF ElectionInv, GrantsOK, Local, CtxOK
  <2>2. match \in Nat
    <3>1. Len(s.log) \in Nat
      BY <2>1, LocalTypes, Zenon
    <3> QED
      BY <1>1, <3>1, Zenon DEF Lesser
  <2>b. Become(n, AdvanceCommit(n, t), {})
    BY <1>3, <2>s, Zenon
  <2> HIDE DEF match
  <2>3. /\ t \in Ctx /\ \A x \in Node : t.next[x] >= 1
        /\ t.term = s.term /\ t.vote = s.vote /\ t.log = s.log /\ t.front = s.front
        /\ t.votes = s.votes /\ t.role = s.role /\ t.grant = s.grant /\ t.grantWait = s.grantWait
        /\ t.ask = s.ask /\ t.askWait = s.askWait /\ t.reject = s.reject
    <3>1. \A x \in Node : s.next[x] >= 1
      BY <2>1, Zenon DEF CtxOK
    <3>2. CASE ~m.ok
      <4>1. PICK x : x = ResumeAt(s, m)
        BY Zenon
      <4>2. x \in Nat /\ x >= 1
        BY <1>0, <1>1, <2>1, <3>2, <4>1, ResumeFacts, Zenon
      <4>3. t = [s EXCEPT !.next[p] = x]
        BY <3>2, <4>1, Zenon
      <4> HIDE DEF t
      <4> QED
        BY <1>1, <2>1, <3>1, <4>2, <4>3, Zenon DEF Ctx
    <3>3. CASE m.ok /\ match < s.match[p]
      <4>1. t = s
        BY <3>3, Zenon
      <4> QED
        BY <2>1, <3>1, <4>1, Zenon
    <3>4. CASE m.ok /\ ~(match < s.match[p])
      <4>1. t = [s EXCEPT !.match[p] = match, !.next[p] = match + 1]
        BY <3>4, Zenon
      <4> HIDE DEF t
      <4>2. match + 1 \in Nat /\ match + 1 >= 1
        BY <2>2
      <4> QED
        BY <1>1, <2>1, <2>2, <3>1, <4>1, <4>2, Zenon DEF Ctx
    <3> QED
      BY <3>2, <3>3, <3>4, Zenon
  <2> HIDE DEF t
  <2>4. CtxOK(t) /\ Calm(s, t)
    BY <2>1, <2>3, Zenon DEF CtxOK, Calm
  <2>5. /\ Local(n, t, disk[n], msgs, elected)
        /\ t.grant # None => t.term <= disk[t.grant].hard.term
    BY <2>1, <2>4, Calmed, Zenon
  <2>6. PICK u : u = AdvanceCommit(n, t)
    BY Zenon
  <2>7. CtxOK(u) /\ Calm(t, u)
    BY <2>4, <2>6, AdvanceCalm, Zenon
  <2>8. /\ Local(n, u, disk[n], msgs, elected)
        /\ u.grant # None => u.term <= disk[u.grant].hard.term
    BY <2>5, <2>7, Calmed, Zenon
  <2> QED
    BY <1>0, <2>b, <2>6, <2>8, Handled
<1> QED
  BY <1>2, <1>3, Zenon DEF RecvAppendResult

LEMMA SubmitKeeps ==
  ASSUME ElectionInv, ~Pipelined, NEW n \in Node, Submit(n)
  PROVE  ElectionInv' /\ elected' = elected
<1>0. wal[n] = IdleWal /\ UNCHANGED <<wal, disk>> /\ node[n].role = "leader"
  BY Zenon DEF Submit, MayRun
<1>1. PICK s, d, M, E : s = node[n] /\ d = disk[n] /\ M = msgs /\ E = elected
  BY Zenon
<1> DEFINE L == Append(s.log, s.term)
           t == [s EXCEPT !.log = L, !.dirty = TRUE]
<1>2. Local(n, s, d, M, E) /\ CtxOK(s) /\ s \in Ctx /\ s.role = "leader" /\ s.grant = None
  BY <1>0, <1>1, Zenon DEF ElectionInv, Local, CtxOK, Standing
<1>3. L \in Seq(Nat)
  <2>1. s.log \in Seq(Nat) /\ s.term \in Nat
    BY <1>2, LocalTypes, Zenon
  <2> QED
    BY <2>1, Extended, Zenon
<1>b. Become(n, t, {})
  BY <1>1, <1>2, Zenon DEF Submit, Ctx
<1> HIDE DEF L
<1>4. /\ t \in Ctx /\ t.term = s.term /\ t.vote = s.vote /\ t.log = L /\ t.front = s.front
      /\ t.role = s.role /\ t.grant = s.grant /\ t.reject = s.reject /\ t.next = s.next
  BY <1>2, <1>3, Zenon DEF Ctx
<1> HIDE DEF t
<1>5. CtxOK(t)
  BY <1>2, <1>4, Zenon DEF CtxOK
<1>6. Won(s, t)
  BY <1>2, <1>4, Zenon DEF Won, L
<1>7. Local(n, t, d, M, E)
  BY <1>2, <1>5, <1>6, SubmitStep DEF Local, Ballots
<1>8. Local(n, t, disk[n], msgs, elected) /\ t.grant = None
  BY <1>1, <1>2, <1>4, <1>7, Zenon
<1> QED
  BY <1>0, <1>b, <1>8, Handled
=============================================================================
