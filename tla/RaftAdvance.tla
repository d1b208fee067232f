---------------------------- MODULE RaftAdvance -----------------------------
(***************************************************************************)
(* raft_advance and what it releases, the completion of a record, a crash  *)
(* and the initial state: each keeps the invariant of RaftLocal.           *)
(***************************************************************************)
EXTENDS RaftHandlers

-----------------------------------------------------------------------------
(* raft_advance, the WAL worker, and a crash. *)

LEMMA ReleasedCalm ==
  ASSUME NEW s, CtxOK(s)
  PROVE  CtxOK(Released(s)) /\ Calm(s, Released(s))
<1> DEFINE a == [s.ack EXCEPT !.last = Larger(s.ack.last, AckReport(s))]
           g == IF s.grantWait THEN s.grant ELSE None
           k == IF ~s.ack.on \/ s.ack.wait THEN s.ack
                ELSE IF s.front.confirm >= s.ack.confirmed THEN NoAck ELSE a
           j == IF s.reject.wait THEN s.reject ELSE NoReject
           q == s.ask /\ (s.askWait \/ s.role # "candidate")
           t == [s EXCEPT !.grant = g, !.ack = k, !.reject = j, !.ask = q]
<1>1. /\ s \in Ctx /\ s.log \in Seq(Nat) /\ Len(s.log) \in Nat /\ s.ack \in Ack /\ s.front \in Frontier
      /\ s.reject \in Reject /\ s.grant \in Node \cup {None} /\ s.ask \in BOOLEAN
  BY Indexed, Zenon DEF CtxOK, Ctx
<1>2. a \in Ack
  <2>1. PICK x : x = Larger(s.ack.last, AckReport(s))
    BY Zenon
  <2>2. x \in Int
    BY <1>1, <2>1 DEF AckReport, Lesser, Larger, Frontier, Ack
  <2> QED
    BY <1>1, <2>1, <2>2, Zenon DEF Ack
<1> HIDE DEF a
<1>3. k \in Ack /\ j \in Reject /\ g \in Node \cup {None} /\ q \in BOOLEAN
  BY <1>1, <1>2, NothingPending, Zenon
<1>4. j.on => Usable(j)
  BY NothingPending, Zenon DEF CtxOK
<1>5. (g = s.grant \/ g = None) /\ (q => s.ask)
  BY Zenon
<1>t. Released(s) = t
  BY Zenon DEF Released, a
<1> HIDE DEF g, k, j, q
<1>6. /\ t \in Ctx /\ t.term = s.term /\ t.vote = s.vote /\ t.log = s.log /\ t.front = s.front
      /\ t.votes = s.votes /\ t.role = s.role /\ t.grant = g /\ t.grantWait = s.grantWait
      /\ t.ask = q /\ t.askWait = s.askWait /\ t.reject = j /\ t.next = s.next
  BY <1>1, <1>3, Zenon DEF Ctx
<1> HIDE DEF t
<1>7. CtxOK(t) /\ Calm(s, t)
  BY <1>4, <1>5, <1>6, Zenon DEF CtxOK, Calm
<1> QED
  BY <1>t, <1>7, Zenon

\* A caller that waits reports completions at once: none is left for k_server_drive.
LEMMA NothingToReport ==
  ASSUME NEW n \in Node, wal[n] = IdleWal
  PROVE  Completed(n) = node[n]
<1>1. PICK D : D = wal[n].done
  BY Zenon
<1>2. Len(D) = 0
  BY <1>1 DEF IdleWal
<1> DEFINE F(f) == [k \in 0 .. Len(D) |-> IF k = 0 THEN node[n] ELSE Complete(n, f[k - 1], D[k])]
           g == [k \in 0 .. Len(D) |-> node[n]]
<1>3. \A k \in 0 .. Len(D) : k = 0
  BY <1>2
<1>4. g = F(g)
  BY <1>3, Zenon
<1>5. (CHOOSE f : f = F(f)) = F(CHOOSE f : f = F(f))
  <2> HIDE DEF F, g
  <2> QED
    BY <1>4, Zenon
<1>6. 0 \in 0 .. Len(D)
  BY <1>2
<1>7. (CHOOSE f : f = F(f))[0] = node[n]
  BY <1>5, <1>6, Zenon
<1> QED
  BY <1>1, <1>2, <1>7 DEF Completed

\* The end of raft_advance: the state is c, the replies s held back and the messages out
\* leave, and the view of c is posted if anything is to be persisted.
LEMMA AdvanceKeeps ==
  ASSUME ElectionInv, NEW n \in Node, wal[n] = IdleWal, NEW c, NEW out,
         Advance(n, node[n], [ctx |-> c, out |-> out]), UNCHANGED disk,
         Local(n, c, disk[n], msgs \cup ReleasedMsgs(n, node[n]), elected),
         c.grant # None => c.term <= disk[c.grant].hard.term,
         \A m \in out : MsgOK(m) /\ m.from = n /\ ~Vote(m) /\ ~Request(m),
         \A m \in out : m.type = "append" =>
            /\ m.from # m.to /\ Led(elected, m.term, m.from)
            /\ \A i \in 1 .. Len(m.entries) : m.entries[i] >= 1 /\ m.entries[i] <= m.term
  PROVE  ElectionInv' /\ elected' = elected
<1>1. PICK s, d, E, R, M : /\ s = node[n] /\ d = disk[n] /\ E = elected /\ R = ReleasedMsgs(n, node[n])
                           /\ M = msgs \cup R
  BY Zenon
<1> DEFINE t == [c EXCEPT !.dirty = FALSE]
           v == ViewOf(c)
<1>2. Local(n, s, d, msgs, E) /\ CtxOK(s) /\ s.grant \in Node \cup {None}
      /\ (s.grant # None => s.term <= disk[s.grant].hard.term)
  BY <1>1, Zenon DEF ElectionInv, GrantsOK, Local, CtxOK, Ctx
<1>3. Local(n, c, d, M, E) /\ CtxOK(c) /\ c \in Ctx
  BY <1>1, Zenon DEF Local, CtxOK
<1>4. /\ t \in Ctx /\ t.term = c.term /\ t.vote = c.vote /\ t.log = c.log /\ t.front = c.front
      /\ t.votes = c.votes /\ t.role = c.role /\ t.grant = c.grant /\ t.grantWait = c.grantWait
      /\ t.ask = c.ask /\ t.askWait = c.askWait /\ t.reject = c.reject /\ t.next = c.next
  BY <1>3, Zenon DEF Ctx
<1>a. /\ Become(n, t, R \cup out)
      /\ wal' = [wal EXCEPT ![n] = [posted |-> IF c.dirty THEN Append(wal[n].posted, v) ELSE wal[n].posted,
                                    done |-> << >>]]
  BY <1>1, Zenon DEF Advance, ViewOf
<1> HIDE DEF t
<1>5. CtxOK(t) /\ Calm(c, t) /\ ViewOf(t) = v
  BY <1>3, <1>4, Zenon DEF CtxOK, Calm, ViewOf
<1>6. Local(n, t, d, M, E)
  BY <1>3, <1>5, CalmStep, Zenon
<1>7. Local(n, t, d, M \cup out, E)
  BY <1>6, MoreMessages, Zenon
<1>8. M \cup out = msgs \cup (R \cup out)
  BY <1>1, Zenon
<1>9. DOMAIN wal' = Node /\ WalOK(wal'[n], t) /\ \A p \in Node : p # n => wal'[p] = wal[p]
  <2>1. wal[n].posted = << >> /\ DOMAIN wal = Node
    BY DEF IdleWal, ElectionInv
  <2>2. Append(<< >>, v) = <<v>>
    OBVIOUS
  <2> HIDE DEF v
  <2>3. wal'[n] = IF c.dirty THEN [posted |-> <<v>>, done |-> << >>] ELSE IdleWal
    BY <1>a, <2>1, <2>2, Zenon DEF IdleWal
  <2> QED
    BY <1>a, <1>5, <2>1, <2>3, Zenon DEF WalOK
<1>10. \A m \in R : /\ MsgOK(m) /\ m.from = n /\ m.type # "append"
                    /\ Vote(m) => m.to = s.grant /\ m.term = s.term /\ s.grant # None
  BY <1>1, <1>2, ReleasedFacts
<1>11. \A m \in R \cup out : Vote(m) => m.term <= disk[m.to].hard.term
  BY <1>2, <1>10, Zenon
<1>12. \A m \in R \cup out : MsgOK(m) /\ m.from = n
  BY <1>10, Zenon
<1>13. \A m \in R \cup out : m.type = "append" =>
            /\ m.from # m.to /\ Led(elected, m.term, m.from)
            /\ \A i \in 1 .. Len(m.entries) : m.entries[i] >= 1 /\ m.entries[i] <= m.term
  BY <1>10, Zenon
<1>14. disk' = [disk EXCEPT ![n] = d]
  BY <1>1, Zenon DEF ElectionInv
<1>15. d.hard.term >= disk[n].hard.term
  <2>1. d.hard.term \in Nat
    BY <1>2, LocalTypes, Zenon
  <2> QED
    BY <1>1, <2>1
<1>16. t.grant # None => t.term <= disk[t.grant].hard.term
  BY <1>4, Zenon
<1>17. PICK o : o = R \cup out
  BY Zenon
<1>18. Local(n, t, d, msgs \cup o, elected)
  BY <1>1, <1>7, <1>8, <1>17, Zenon
<1>19. Become(n, t, o) /\ \A m \in o : MsgOK(m) /\ m.from = n
  BY <1>a, <1>12, <1>17, Zenon
<1>20. \A m \in o : m.type = "append" =>
            /\ m.from # m.to /\ Led(elected, m.term, m.from)
            /\ \A i \in 1 .. Len(m.entries) : m.entries[i] >= 1 /\ m.entries[i] <= m.term
  BY <1>13, <1>17, Zenon
<1>21. \A m \in o : Vote(m) => m.term <= disk[m.to].hard.term
  BY <1>11, <1>17, Zenon
<1> QED
  BY <1>9, <1>14, <1>15, <1>16, <1>18, <1>19, <1>20, <1>21, Stays

\* raft_queue_append_entries of a leader in state t.
LEMMA EntriesFacts ==
  ASSUME NEW n \in Node, NEW t, NEW d, NEW M, NEW E, Local(n, t, d, M, E), t.role = "leader",
         NEW p \in Peers(n), NEW short \in BOOLEAN
  PROVE  LET m == AppendEntries(n, p, t, short) IN
         /\ MsgOK(m) /\ m.type = "append" /\ m.from = n /\ m.from # m.to /\ Led(E, m.term, m.from)
         /\ \A i \in 1 .. Len(m.entries) : m.entries[i] >= 1 /\ m.entries[i] <= m.term
<1> DEFINE first == t.next[p]
           upTo == Lesser(Len(t.log), first + ChunkSize - 1 - ((first - 1) % ChunkSize))
           b == SubSeq(t.log, first, upTo)
           e == IF short THEN << >> ELSE b
           m == AppendEntries(n, p, t, short)
<1>1. /\ CtxOK(t) /\ t.term \in Nat /\ t.commit \in Nat /\ t.log \in Seq(Nat) /\ Len(t.log) \in Nat
      /\ p \in Node /\ p # n
  BY LocalTypes, Zenon DEF Local, CtxOK, Ctx, Peers
<1>2. first \in Nat /\ first >= 1 /\ first - 1 \in Nat
  BY <1>1 DEF CtxOK, Ctx
<1>3. TermAt(t.log, first - 1) \in Nat
  <2>1. \A i \in Int : TermAt(t.log, i) \in Nat
    BY <1>1, TermAtFacts, Zenon
  <2> QED
    BY <1>2, <2>1
<1>m. m = [type |-> "append", from |-> n, to |-> p, term |-> t.term, prev |-> first - 1,
           prevTerm |-> TermAt(t.log, first - 1), entries |-> e, commit |-> t.commit]
  BY Zenon DEF AppendEntries
<1>4. \A i \in 1 .. Len(t.log) : t.log[i] >= 1 /\ t.log[i] <= t.term
  BY Zenon DEF Local, OnDisk
<1>5. b \in Seq(Nat) /\ \A i \in 1 .. Len(b) : b[i] >= 1 /\ b[i] <= t.term
  <2>1. upTo <= Len(t.log) /\ upTo \in Int
    <3>1. ChunkSize \in Nat \ {0}
      BY RaftAssumption, Zenon
    <3>2. (first - 1) % ChunkSize \in Int
      BY <1>2, <3>1
    <3>3. PICK x, y : x = first + ChunkSize - 1 - ((first - 1) % ChunkSize) /\ y = Len(t.log)
      BY Zenon
    <3>4. x \in Int /\ y \in Int
      <4>1. PICK a, b0 : a = first /\ b0 = (first - 1) % ChunkSize
        BY Zenon
      <4>2. a \in Int /\ b0 \in Int /\ x = a + ChunkSize - 1 - b0
        BY <1>2, <3>2, <3>3, <4>1
      <4> QED
        BY <1>1, <3>1, <3>3, <4>2
    <3>5. upTo = Lesser(y, x)
      BY <3>3, Zenon
    <3> HIDE DEF upTo
    <3> QED
      BY <3>3, <3>4, <3>5 DEF Lesser
  <2> HIDE DEF upTo, first
  <2>2. CASE first <= upTo
    <3>1. upTo \in Nat /\ first <= upTo + 1
      BY <1>2, <2>1, <2>2
    <3>2. b \in Seq(Nat) /\ Len(b) = upTo - first + 1
          /\ \A x \in 1 .. upTo - first + 1 : b[x] = t.log[first + x - 1]
      BY <1>1, <1>2, <2>1, <3>1, SliceFacts, Zenon
    <3>3. \A x \in 1 .. upTo - first + 1 : first + x - 1 \in 1 .. Len(t.log)
      BY <1>1, <1>2, <2>1, <3>1
    <3> QED
      BY <1>4, <3>2, <3>3, Zenon
  <2>3. CASE ~(first <= upTo)
    <3>1. b = << >>
      BY <1>1, <1>2, <2>1, <2>3, SlicedNone
    <3> QED
      BY <3>1
  <2> QED
    BY <2>2, <2>3, Zenon
<1> HIDE DEF b
<1>6. e \in Seq(Nat) /\ \A i \in 1 .. Len(e) : e[i] >= 1 /\ e[i] <= t.term
  BY <1>5
<1> HIDE DEF e, m, first
<1>7. m \in AppendMsg
  BY <1>1, <1>2, <1>3, <1>6, <1>m, Zenon DEF AppendMsg
<1>8. m.type = "append" /\ m.from = n /\ m.to = p /\ m.term = t.term /\ m.entries = e
  BY <1>m, Zenon
<1>9. MsgOK(m)
  BY <1>7, <1>8, Zenon DEF MsgOK, Message
<1>10. Led(E, t.term, n)
  BY Zenon DEF Local, Office
<1> QED
  BY <1>1, <1>6, <1>8, <1>9, <1>10, Zenon DEF m

LEMMA DriveKeeps ==
  ASSUME WellOrdered, ElectionInv, ~Pipelined, NEW n \in Node, Drive(n)
  PROVE  ElectionInv' /\ elected' = elected
<1>1. wal[n] = IdleWal /\ UNCHANGED disk /\ Completed(n) = node[n]
  BY NothingToReport, Zenon DEF Drive, MayRun
<1>2. PICK s, r, d, E, R, M : /\ s = node[n] /\ r = Released(s) /\ d = disk[n] /\ E = elected
                              /\ R = ReleasedMsgs(n, node[n]) /\ M = msgs
  BY Zenon
<1>3. Local(n, s, d, M, E) /\ (s.grant # None => s.term <= disk[s.grant].hard.term)
      /\ (\A m \in M : MsgOK(m)) /\ E \subseteq [term : Nat, node : Node]
  BY <1>2, Zenon DEF ElectionInv, GrantsOK
<1>4. CtxOK(s)
  BY <1>3, Zenon DEF Local
<1>5. CtxOK(r) /\ Calm(s, r)
  BY <1>2, <1>4, ReleasedCalm, Zenon
<1>6. Local(n, s, d, M \cup R, E)
  BY <1>2, <1>3, ReleaseStep, Zenon
<1>7. Local(n, r, d, M \cup R, E) /\ (r.grant # None => r.term <= disk[r.grant].hard.term)
  <2>1. PICK N : N = M \cup R
    BY Zenon
  <2>2. Local(n, r, d, N, E)
    BY <1>5, <1>6, <2>1, CalmStep, Zenon
  <2> QED
    BY <1>3, <1>5, <2>1, <2>2, Zenon DEF Calm
<1>8. \A m \in M \cup R : MsgOK(m)
  BY <1>2, <1>3, <1>4, ReleasedFacts, Zenon
<1>9. r \in Ctx
  BY <1>5, Zenon DEF CtxOK
\* What is left to show of each tick.
<1>10. ASSUME NEW c, NEW out, Advance(n, node[n], [ctx |-> c, out |-> out]),
              Local(n, c, d, M \cup R, E),
              c.grant # None => c.term <= disk[c.grant].hard.term,
              \A m \in out : MsgOK(m) /\ m.from = n /\ ~Vote(m) /\ ~Request(m),
              \A m \in out : m.type = "append" =>
                /\ m.from # m.to /\ Led(E, m.term, m.from)
                /\ \A i \in 1 .. Len(m.entries) : m.entries[i] >= 1 /\ m.entries[i] <= m.term
       PROVE  ElectionInv' /\ elected' = elected
  <2>1. Local(n, c, disk[n], msgs \cup ReleasedMsgs(n, node[n]), elected)
    BY <1>2, <1>10, Zenon
  <2>2. \A m \in out : m.type = "append" =>
          /\ m.from # m.to /\ Led(elected, m.term, m.from)
          /\ \A i \in 1 .. Len(m.entries) : m.entries[i] >= 1 /\ m.entries[i] <= m.term
    BY <1>2, <1>10, Zenon
  <2> QED
    BY <1>1, <1>10, <2>1, <2>2, AdvanceKeeps
\* raft_advance_commit on the way.
<1>11. PICK a : a = AdvanceCommit(n, r)
  BY Zenon
<1>12. CtxOK(a) /\ Calm(r, a)
  BY <1>5, <1>11, AdvanceCalm, Zenon
<1>13. Local(n, a, d, M \cup R, E) /\ (a.grant # None => a.term <= disk[a.grant].hard.term)
  <2>1. PICK N : N = M \cup R
    BY Zenon
  <2>2. Local(n, a, d, N, E)
    BY <1>7, <1>12, <2>1, CalmStep, Zenon
  <2> QED
    BY <1>7, <1>12, <2>1, <2>2, Zenon DEF Calm
<1>14. CASE Advance(n, s, Quiet(n, r))
  <2>1. PICK c, out : c = (IF r.role = "leader" THEN a ELSE r) /\ out = {}
    BY Zenon
  <2>2. Advance(n, node[n], [ctx |-> c, out |-> out])
    BY <1>2, <1>11, <1>14, <2>1 DEF Quiet
  <2>3. Local(n, c, d, M \cup R, E) /\ (c.grant # None => c.term <= disk[c.grant].hard.term)
    BY <1>7, <1>13, <2>1, Zenon
  <2>4. \A m \in out : FALSE
    BY <2>1, Zenon
  <2> QED
    BY <1>10, <2>2, <2>3, <2>4, Zenon
<1>15. CASE Advance(n, s, TimedOut(n, r)) /\ r.role = "leader"
  <2>1. PICK c, out : c = StepDown(r, r.term) /\ out = {}
    BY Zenon
  <2>2. Advance(n, node[n], [ctx |-> c, out |-> out])
    BY <1>2, <1>15, <2>1, Zenon DEF TimedOut
  <2>3. CtxOK(c)
    <3>1. r.term \in Nat
      BY <1>9, Zenon DEF Ctx
    <3> QED
      BY <1>5, <2>1, <3>1, StepDownType, Zenon
  <2>4. Lapse(r, c) /\ c.grant = None
    BY <1>9, <1>15, <2>1, Zenon DEF StepDown, Lapse, Ctx
  <2>5. PICK N : N = M \cup R
    BY Zenon
  <2>6. Local(n, c, d, N, E)
    BY <1>3, <1>7, <1>8, <2>3, <2>4, <2>5, LapseStep
  <2>7. \A m \in out : FALSE
    BY <2>1, Zenon
  <2> QED
    BY <1>10, <2>2, <2>4, <2>5, <2>6, <2>7
<1>16. CASE Advance(n, s, TimedOut(n, r)) /\ r.role # "leader"
  <2> DEFINE q == VoteRequest(n, r, TRUE)
  <2>1. PICK c, out : c = StartPreVote(r) /\ out = {q}
    BY Zenon
  <2>2. Advance(n, node[n], [ctx |-> c, out |-> out])
    BY <1>2, <1>16, <2>1, Zenon DEF TimedOut
  <2>3. /\ c \in Ctx /\ c.term = r.term /\ c.vote = r.vote /\ c.log = r.log /\ c.front = r.front
        /\ c.votes = r.votes /\ c.role = r.role /\ c.grant = r.grant /\ c.grantWait = r.grantWait
        /\ c.ask = FALSE /\ c.reject = r.reject /\ c.next = r.next
    BY <1>9, <2>1, Zenon DEF StartPreVote, Ctx
  <2>4. CtxOK(c) /\ Calm(r, c)
    BY <1>5, <2>3, Zenon DEF CtxOK, Calm
  <2>5. PICK N : N = M \cup R
    BY Zenon
  <2>6. Local(n, c, d, N, E)
    BY <1>7, <2>4, <2>5, CalmStep, Zenon
  <2>7. q \in VoteMsg /\ q.from = n /\ q.type = "vote" /\ q.pre = TRUE
    <3>1. r.term \in Nat /\ Len(r.log) \in Nat /\ LastTerm(r.log) \in Nat
      BY <1>7, LocalTypes, Zenon
    <3> QED
      BY <3>1, Zenon DEF VoteRequest, VoteMsg
  <2> HIDE DEF q
  <2>8. \A m \in out : MsgOK(m) /\ m.from = n /\ ~Vote(m) /\ ~Request(m) /\ m.type # "append"
    BY <2>1, <2>7, Zenon DEF MsgOK, Message, Vote, Request
  <2> QED
    BY <1>7, <1>10, <2>2, <2>3, <2>5, <2>6, <2>8
<1>17. ASSUME NEW short \in SUBSET Peers(n), Advance(n, s, Beat(n, r, short)), r.role = "leader"
       PROVE  ElectionInv' /\ elected' = elected
  <2>1. PICK out : out = {AppendEntries(n, p, a, p \in short) : p \in Peers(n)}
    BY Zenon
  <2>2. Advance(n, node[n], [ctx |-> a, out |-> out])
    BY <1>2, <1>11, <1>17, <2>1, Zenon DEF Beat
  <2>3. a.role = "leader"
    BY <1>12, <1>17, Zenon DEF Calm
  <2>4. PICK N : N = M \cup R
    BY Zenon
  <2>5. ASSUME NEW m \in out
        PROVE  /\ MsgOK(m) /\ m.from = n /\ ~Vote(m) /\ ~Request(m)
               /\ m.from # m.to /\ Led(E, m.term, m.from)
               /\ \A i \in 1 .. Len(m.entries) : m.entries[i] >= 1 /\ m.entries[i] <= m.term
    <3>1. PICK p \in Peers(n) : m = AppendEntries(n, p, a, p \in short)
      BY <2>1, Zenon
    <3>2. PICK b \in BOOLEAN : m = AppendEntries(n, p, a, b)
      <4>1. CASE p \in short
        <5>1. m = AppendEntries(n, p, a, TRUE)
          BY <3>1, <4>1, Zenon DEF AppendEntries
        <5> QED
          BY <5>1, Zenon
      <4>2. CASE p \notin short
        <5>1. m = AppendEntries(n, p, a, FALSE)
          BY <3>1, <4>2, Zenon DEF AppendEntries
        <5> QED
          BY <5>1, Zenon
      <4> QED
        BY <4>1, <4>2, Zenon
    <3>4. /\ MsgOK(m) /\ m.type = "append" /\ m.from = n /\ m.from # m.to /\ Led(E, m.term, m.from)
          /\ \A i \in 1 .. Len(m.entries) : m.entries[i] >= 1 /\ m.entries[i] <= m.term
      BY <1>13, <2>3, <2>4, <3>2, EntriesFacts
    <3> QED
      BY <3>4, Zenon DEF Vote, Request
  <2> QED
    BY <1>10, <1>13, <2>2, <2>5, Zenon
<1> QED
  BY <1>1, <1>2, <1>14, <1>15, <1>16, <1>17 DEF Drive

\* raft_persist_complete of the one record a node that waits has posted.
LEMMA CompleteFacts ==
  ASSUME WellOrdered, NEW n \in Node, NEW s, CtxOK(s), s.front.synced <= Len(s.log),
         NEW u, u = IF s.front.synced < Len(s.log) THEN Len(s.log) ELSE 0
  PROVE  CtxOK(Complete(n, s, u)) /\ Wrote(s, Complete(n, s, u))
<1> DEFINE f == Report(s.front, u, Len(s.log))
           a == [s.ack EXCEPT !.wait = FALSE]
           j == [s.reject EXCEPT !.wait = FALSE]
           t == [s EXCEPT !.front = f, !.termWait = FALSE, !.grantWait = FALSE, !.askWait = FALSE,
                          !.ack = a, !.reject = j]
<1>1. /\ s \in Ctx /\ Len(s.log) \in Nat /\ s.front \in Frontier /\ s.front.synced \in Nat
      /\ s.ack \in Ack /\ s.reject \in Reject
  BY Indexed, Zenon DEF CtxOK, Ctx, Frontier
<1>2. u \in Nat
  BY <1>1, Zenon
<1>3. f \in Frontier /\ f.synced = IF s.front.synced < Len(s.log) THEN Len(s.log) ELSE s.front.synced
  <2>1. PICK x, y, z, k : x = s.front.index /\ y = s.front.confirm /\ z = s.front.synced /\ k = Len(s.log)
    BY Zenon
  <2>2. x \in Nat /\ y \in Nat /\ z \in Nat /\ k \in Nat /\ z <= k
    BY <1>1, <2>1, Zenon DEF Frontier
  <2>3. f = [index |-> Larger(x, u), confirm |-> Larger(y, Lesser(u, k)), synced |-> Larger(z, Lesser(u, k))]
    BY <2>1, Zenon DEF Report
  <2>4. /\ Larger(x, u) \in Nat /\ Larger(y, Lesser(u, k)) \in Nat
        /\ Larger(z, Lesser(u, k)) = IF z < k THEN k ELSE z
    BY <1>2, <2>1, <2>2 DEF Larger, Lesser
  <2> HIDE DEF f
  <2> QED
    BY <2>1, <2>2, <2>3, <2>4, Zenon DEF Frontier
<1>4. a \in Ack /\ j \in Reject /\ j.on = s.reject.on /\ j.hint = s.reject.hint
      /\ j.conflictTerm = s.reject.conflictTerm /\ j.conflictFirst = s.reject.conflictFirst
  BY <1>1, Zenon DEF Ack, Reject
<1>c. Complete(n, s, u) = IF s.role = "leader" THEN AdvanceCommit(n, t) ELSE t
  BY DEF Complete
<1> HIDE DEF f, a, j
<1>5. /\ t \in Ctx /\ t.term = s.term /\ t.vote = s.vote /\ t.log = s.log /\ t.front = f
      /\ t.votes = s.votes /\ t.role = s.role /\ t.grant = s.grant /\ t.reject = j /\ t.next = s.next
  BY <1>1, <1>3, <1>4, Zenon DEF Ctx
<1> HIDE DEF t
<1>6. CtxOK(t) /\ Wrote(s, t)
  BY <1>3, <1>4, <1>5, Zenon DEF CtxOK, Usable, Wrote
<1>7. PICK v : v = AdvanceCommit(n, t)
  BY Zenon
<1>8. CtxOK(v) /\ v.term = t.term /\ v.vote = t.vote /\ v.log = t.log /\ v.front = t.front
      /\ v.votes = t.votes /\ v.role = t.role /\ v.grant = t.grant
  <2>1. PICK c \in Nat : v = [t EXCEPT !.commit = c]
    BY <1>6, <1>7, AdvanceType, Zenon
  <2>2. CtxOK(v)
    BY <1>6, <1>7, AdvanceType, Zenon
  <2> QED
    BY <1>5, <2>1, <2>2, Zenon DEF Ctx
<1>9. Wrote(s, v)
  BY <1>6, <1>8, Zenon DEF Wrote
<1> QED
  BY <1>c, <1>6, <1>7, <1>8, <1>9, Zenon

LEMMA WalWriteKeeps ==
  ASSUME WellOrdered, ElectionInv, ~Pipelined, NEW n \in Node, WalWrite(n)
  PROVE  ElectionInv' /\ elected' = elected
<1>1. PICK s, d, M, E : s = node[n] /\ d = disk[n] /\ M = msgs /\ E = elected
  BY Zenon
<1>2. Local(n, s, d, M, E) /\ (s.grant # None => s.term <= disk[s.grant].hard.term)
      /\ (\A m \in M : MsgOK(m)) /\ E \subseteq [term : Nat, node : Node]
  BY <1>1, Zenon DEF ElectionInv, GrantsOK
<1>3. CtxOK(s) /\ s \in Ctx /\ d \in DiskImage /\ OnDisk(s, d) /\ s.front.synced <= Len(s.log)
  BY <1>2, Zenon DEF Local, CtxOK, OnDisk
<1>4. PICK v, r : v = ViewOf(s) /\ r = Recovered(d, v)
  BY Zenon
<1>5. wal[n].posted = <<v>> /\ wal[n].done = << >>
  BY <1>1, <1>4 DEF WalWrite, ElectionInv, WalOK, IdleWal
<1>6. Head(wal[n].posted) = v /\ Tail(wal[n].posted) = << >>
  BY <1>5
<1>7. PICK t : t = Complete(n, s, v.durable)
  BY Zenon
<1>8. /\ disk' = [disk EXCEPT ![n] = r]
      /\ wal' = [wal EXCEPT ![n] = IdleWal]
      /\ Become(n, t, {})
  BY <1>1, <1>4, <1>5, <1>6, <1>7, Zenon DEF WalWrite, IdleWal
<1>9. /\ r \in DiskImage /\ r.hard.term = s.term
      /\ v.durable = IF s.front.synced < Len(s.log) THEN Len(s.log) ELSE 0
  BY <1>3, <1>4, RecoveredFacts, Zenon
<1>10. CtxOK(t) /\ Wrote(s, t)
  BY <1>3, <1>7, <1>9, CompleteFacts, Zenon
<1>11. Local(n, t, r, M, E)
  BY <1>2, <1>4, <1>10, WroteStep, Zenon
<1>12. DOMAIN wal' = Node /\ WalOK(wal'[n], t) /\ \A p \in Node : p # n => wal'[p] = wal[p]
  BY <1>8, Zenon DEF ElectionInv, WalOK
<1>13. PICK out : out = {}
  BY Zenon
<1>14. Local(n, t, r, msgs \cup out, elected) /\ Become(n, t, out) /\ \A m \in out : FALSE
  BY <1>1, <1>8, <1>11, <1>13, Zenon
<1>15. t.grant # None => t.term <= disk[t.grant].hard.term
  BY <1>2, <1>10, Zenon DEF Wrote
<1>16. r.hard.term >= disk[n].hard.term
  <2>1. s.term \in Nat /\ d.hard.term \in Nat /\ d.hard.term <= s.term
    BY <1>2, LocalTypes, Zenon
  <2> QED
    BY <1>1, <1>9, <2>1, Zenon
<1>17. /\ \A m \in out : MsgOK(m) /\ m.from = n
       /\ \A m \in out : Vote(m) => m.term <= disk[m.to].hard.term
  BY <1>14, Zenon
<1>18. \A m \in out : m.type = "append" =>
            /\ m.from # m.to /\ Led(elected, m.term, m.from)
            /\ \A i \in 1 .. Len(m.entries) : m.entries[i] >= 1 /\ m.entries[i] <= m.term
  BY <1>14, Zenon
<1> QED
  BY <1>8, <1>12, <1>14, <1>15, <1>16, <1>17, <1>18, Stays

LEMMA RestartKeeps ==
  ASSUME ElectionInv, NEW n \in Node, Restart(n)
  PROVE  ElectionInv' /\ elected' = elected
<1>1. PICK s, d, M, E : s = node[n] /\ d = disk[n] /\ M = msgs /\ E = elected
  BY Zenon
<1>2. Local(n, s, d, M, E)
  BY <1>1, Zenon DEF ElectionInv
<1>3. PICK t : t = Restored(d)
  BY Zenon
<1>4. Local(n, t, d, M, E) /\ t.grant = None
  BY <1>2, <1>3, RestartStep, Zenon DEF Restored
<1>5. DOMAIN wal' = Node /\ WalOK(wal'[n], t) /\ \A p \in Node : p # n => wal'[p] = wal[p]
  BY Zenon DEF Restart, ElectionInv, WalOK
<1>6. PICK out : out = {}
  BY Zenon
<1>7. Local(n, t, d, msgs \cup out, elected) /\ Become(n, t, out) /\ \A m \in out : FALSE
  BY <1>1, <1>3, <1>4, <1>6, Zenon DEF Restart
<1>8. disk' = [disk EXCEPT ![n] = d] /\ d.hard.term >= disk[n].hard.term
  <2>1. d.hard.term \in Nat
    BY <1>2, LocalTypes, Zenon
  <2> QED
    BY <1>1, <2>1 DEF Restart, ElectionInv
<1>9. /\ \A m \in out : MsgOK(m) /\ m.from = n
      /\ \A m \in out : Vote(m) => m.term <= disk[m.to].hard.term
  BY <1>7, Zenon
<1>10. \A m \in out : m.type = "append" =>
            /\ m.from # m.to /\ Led(elected, m.term, m.from)
            /\ \A i \in 1 .. Len(m.entries) : m.entries[i] >= 1 /\ m.entries[i] <= m.term
  BY <1>7, Zenon
<1> QED
  BY <1>4, <1>5, <1>7, <1>8, <1>9, <1>10, Stays

-----------------------------------------------------------------------------
(* The theorem. *)

LEMMA InitKeeps == Init => ElectionInv
<1> SUFFICES ASSUME Init PROVE ElectionInv
  BY Zenon
<1>1. EmptyDisk \in DiskImage /\ EmptyDisk.hard.term = 0 /\ Len(EmptyDisk.log) = 0
  BY DEF EmptyDisk, DiskImage, Hard
<1>2. PICK s, d : d = EmptyDisk /\ s = Restored(d)
  BY Zenon
<1>3. /\ s.term = 0 /\ s.role = "follower" /\ s.grant = None /\ s.front.synced = 0 /\ Len(s.log) = 0
      /\ CtxOK(s) /\ d \in DiskImage /\ d.hard.term = 0 /\ Len(d.log) = 0
  BY <1>1, <1>2, RestoredType, Zenon DEF Restored, RestoredFrontier
<1>4. ASSUME NEW n \in Node PROVE Local(n, s, d, {}, {})
  <2>1. OnDisk(s, d)
    BY <1>3 DEF OnDisk
  <2>2. Standing(n, s, d) /\ Office(n, s, d, {}) /\ Ballots(n, s, d, {}, {})
    BY <1>3, Zenon DEF Standing, Office, Ballots, Led
  <2> QED
    BY <1>3, <2>1, <2>2, Zenon DEF Local
<1>5. \A n \in Node : node[n] = s /\ disk[n] = d /\ wal[n] = IdleWal
  BY <1>2, Zenon DEF Init
<1>6. msgs = {} /\ elected = {} /\ DOMAIN node = Node /\ disk \in [Node -> DiskImage] /\ DOMAIN wal = Node
  BY <1>1, Zenon DEF Init
<1>7. AppendsOK(msgs, elected) /\ VotesOK(msgs, disk) /\ GrantsOK(node, disk) /\ ElectedOK(msgs, elected)
  BY <1>3, <1>5, <1>6, Zenon DEF AppendsOK, VotesOK, GrantsOK, ElectedOK
<1> QED
  BY <1>4, <1>5, <1>6, <1>7, Zenon DEF ElectionInv, WalOK
=============================================================================
