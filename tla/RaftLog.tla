------------------------------ MODULE RaftLog ------------------------------
(***************************************************************************)
(* Log matching: what raft.h compares (one index, one term) is enough to   *)
(* know that two logs agree up to it.                                      *)
(*                                                                         *)
(* A piece is what a log in memory, a log on disk or an append message on  *)
(* its way says about some indexes.  The invariant: any two pieces agree   *)
(* below an index where they have the same term; a term that occurs was    *)
(* led; and no piece has an entry of a leader's own term above the end of  *)
(* that leader's log, so what it appends next is new everywhere.           *)
(***************************************************************************)
EXTENDS RaftAdvance

-----------------------------------------------------------------------------
(* Pieces of logs. *)

\* The entries of an append message, and the one before them when there is one.
Piece(m) ==
  [i \in {j \in 1 .. m.prev + Len(m.entries) : j > m.prev \/ (j = m.prev /\ m.prevTerm >= 1)} |->
     IF i = m.prev THEN m.prevTerm ELSE m.entries[i - m.prev]]
Pieces(S, D, M) ==
  {S[n].log : n \in Node} \cup {D[n].log : n \in Node}
    \cup {Piece(m) : m \in {x \in M : x.type = "append"}}

Agree(f, g) ==
  \A i \in DOMAIN f : i \in DOMAIN g /\ f[i] = g[i] =>
    \A j \in DOMAIN f : j \in DOMAIN g /\ j <= i => f[j] = g[j]
Restricts(f, g) == \A i \in DOMAIN f : i \in DOMAIN g /\ f[i] = g[i]
Convex(f) ==
  /\ DOMAIN f \subseteq Nat
  /\ \A a, b \in DOMAIN f : \A c \in Nat : a <= c /\ c <= b => c \in DOMAIN f

Sound(P, E) ==
  /\ \A f, g \in P : Agree(f, g)
  /\ \A f \in P : \A i \in DOMAIN f : \E e \in E : e.term = f[i]
Top(P, t, k) == \A f \in P : \A i \in DOMAIN f : f[i] = t => i <= k

LogInv ==
  /\ Sound(Pieces(node, disk, msgs), elected)
  /\ \A n \in Node : node[n].role = "leader" =>
       Top(Pieces(node, disk, msgs), node[n].term, Len(node[n].log))

-----------------------------------------------------------------------------
(* The three ways in which a piece comes about. *)

\* It is a part of another.
LEMMA Copied ==
  ASSUME NEW P, NEW Q, NEW E, NEW F, Sound(P, E), E \subseteq F,
         \A f \in Q : \E g \in P : Restricts(f, g)
  PROVE  Sound(Q, F) /\ \A t, k : Top(P, t, k) => Top(Q, t, k)
<1>1. ASSUME NEW f \in Q, NEW g \in Q PROVE Agree(f, g)
  <2>1. PICK a \in P, b \in P : Restricts(f, a) /\ Restricts(g, b)
    BY Zenon
  <2>2. Agree(a, b)
    BY Zenon DEF Sound
  <2> QED
    BY <2>1, <2>2, Zenon DEF Agree, Restricts
<1>2. \A f \in Q : \A i \in DOMAIN f : \E e \in F : e.term = f[i]
  <2>1. SUFFICES ASSUME NEW f \in Q, NEW i \in DOMAIN f PROVE \E e \in F : e.term = f[i]
    BY Zenon
  <2>2. PICK g \in P : i \in DOMAIN g /\ f[i] = g[i]
    BY Zenon DEF Restricts
  <2>3. PICK e \in E : e.term = g[i]
    BY <2>2, Zenon DEF Sound
  <2> QED
    BY <2>2, <2>3, Zenon
<1>3. \A t, k : Top(P, t, k) => Top(Q, t, k)
  BY Zenon DEF Top, Restricts
<1> QED
  BY <1>1, <1>2, <1>3, Zenon DEF Sound

\* A leader appends an entry of its own term.
LEMMA Grown ==
  ASSUME NEW P, NEW E, NEW F, Sound(P, E), E \subseteq F, \A f \in P : Convex(f),
         NEW L \in P, L \in Seq(Nat), NEW t \in Nat, Top(P, t, Len(L)), \E e \in F : e.term = t
  PROVE  LET N == Append(L, t) IN
         /\ Sound(P \cup {N}, F) /\ Top(P \cup {N}, t, Len(N))
         /\ \A x, k : x # t /\ Top(P, x, k) => Top(P \cup {N}, x, k)
<1> DEFINE N == Append(L, t)
<1>1. /\ Len(L) \in Nat /\ DOMAIN L = 1 .. Len(L) /\ Len(N) = Len(L) + 1 /\ N[Len(L) + 1] = t
      /\ \A i \in DOMAIN N : i \in DOMAIN L \/ i = Len(L) + 1
      /\ \A i \in DOMAIN L : i \in DOMAIN N /\ N[i] = L[i] /\ i <= Len(L)
  OBVIOUS
<1>2. \A i \in DOMAIN N : i \in Nat /\ i <= Len(L) + 1
  BY <1>1
<1> HIDE DEF N
<1>3. ASSUME NEW f \in P PROVE Agree(f, N) /\ Agree(N, f)
  <2>1. Agree(f, L) /\ Agree(L, f)
    BY Zenon DEF Sound
  <2>2. DOMAIN f \subseteq Nat
    BY Zenon DEF Convex
  <2>3. ASSUME NEW i \in DOMAIN f, i \in DOMAIN N, f[i] = N[i] PROVE i \in DOMAIN L /\ i <= Len(L)
    <3>1. CASE i = Len(L) + 1
      <4>1. i <= Len(L)
        BY <1>1, <2>3, <3>1, Zenon DEF Top
      <4> QED
        BY <1>1, <3>1, <4>1
    <3> QED
      BY <1>1, <2>3, <3>1, Zenon
  <2>4. \A i, j \in Nat : i <= Len(L) /\ j <= i => j # Len(L) + 1
    BY <1>1
  <2>5. \A i \in DOMAIN f : i \in Nat
    BY <2>2, Zenon
  <2>6. ASSUME NEW i \in DOMAIN f, i \in DOMAIN N, f[i] = N[i],
               NEW j \in DOMAIN f, j \in DOMAIN N, j <= i
        PROVE  f[j] = N[j]
    <3>1. i \in DOMAIN L /\ i <= Len(L) /\ f[i] = L[i]
      BY <1>1, <2>3, <2>6, Zenon
    <3>2. j \in DOMAIN L
      BY <1>1, <2>4, <2>5, <2>6, <3>1, Zenon
    <3>3. f[j] = L[j]
      BY <2>1, <2>6, <3>1, <3>2, Zenon DEF Agree
    <3> QED
      BY <1>1, <3>2, <3>3, Zenon
  <2> QED
    BY <2>6, Zenon DEF Agree
<1>4. Agree(N, N)
  BY Zenon DEF Agree
<1>5. \A f \in P \cup {N} : \A i \in DOMAIN f : \E e \in F : e.term = f[i]
  BY <1>1, Zenon DEF Sound
<1>6. Top(P \cup {N}, t, Len(N))
  <2>1. ASSUME NEW f \in P, NEW i \in DOMAIN f, f[i] = t PROVE i <= Len(L) + 1
    <3>1. i <= Len(L) /\ i \in Nat
      BY <2>1, Zenon DEF Top, Convex
    <3> QED
      BY <1>1, <3>1
  <2> QED
    BY <1>1, <1>2, <2>1, Zenon DEF Top
<1>7. ASSUME NEW x, NEW k, x # t, Top(P, x, k) PROVE Top(P \cup {N}, x, k)
  BY <1>1, <1>7, Zenon DEF Top
<1> QED
  BY <1>3, <1>4, <1>5, <1>6, <1>7, Zenon DEF Sound, N

\* N is log L up to p and message W, which has the entry of L at p, above it:
\* raft_recv_append_entries.
Splice(N, L, W, p) ==
  /\ DOMAIN N \subseteq Nat \ {0}
  /\ p > 0 => p \in DOMAIN W /\ p \in DOMAIN L /\ W[p] = L[p]
  /\ \A x \in DOMAIN N : x <= p => x \in DOMAIN L /\ N[x] = L[x]
  /\ \A x \in DOMAIN N : ~(x <= p) => x \in DOMAIN W /\ N[x] = W[x]

LEMMA Spliced ==
  ASSUME NEW P, NEW E, Sound(P, E), \A f \in P : Convex(f), NEW L \in P, NEW W \in P,
         NEW p \in Nat, NEW N, Splice(N, L, W, p)
  PROVE  Sound(P \cup {N}, E) /\ \A t, k : Top(P, t, k) => Top(P \cup {N}, t, k)
<1>0. /\ DOMAIN N \subseteq Nat \ {0}
      /\ p > 0 => p \in DOMAIN W /\ p \in DOMAIN L /\ W[p] = L[p]
      /\ \A x \in DOMAIN N : x <= p => x \in DOMAIN L /\ N[x] = L[x]
      /\ \A x \in DOMAIN N : ~(x <= p) => x \in DOMAIN W /\ N[x] = W[x]
  BY Zenon DEF Splice
<1>1. ASSUME NEW g \in P PROVE Agree(N, g) /\ Agree(g, N)
  <2>1. Agree(L, g) /\ Agree(W, g) /\ Convex(g)
    BY Zenon DEF Sound
  <2>2. ASSUME NEW i \in DOMAIN N, i \in DOMAIN g, N[i] = g[i],
               NEW j \in DOMAIN N, j \in DOMAIN g, j <= i
        PROVE  N[j] = g[j]
    <3>0. i \in Nat /\ j \in Nat /\ j >= 1
      BY <1>0
    <3>1. CASE i <= p
      <4>1. j <= p
        BY <2>2, <3>0, <3>1
      <4> QED
        BY <1>0, <2>1, <2>2, <3>1, <4>1, Zenon DEF Agree
    <3>2. CASE ~(i <= p) /\ ~(j <= p)
      BY <1>0, <2>1, <2>2, <3>2, Zenon DEF Agree
    <3>3. CASE ~(i <= p) /\ j <= p
      <4>1. p > 0 /\ p <= i /\ p <= p
        BY <3>0, <3>3
      <4>2. p \in DOMAIN g
        BY <1>0, <2>1, <2>2, <3>3, <4>1, Zenon DEF Convex
      <4>3. W[p] = g[p]
        BY <1>0, <2>1, <2>2, <3>3, <4>1, <4>2, Zenon DEF Agree
      <4>4. L[j] = g[j]
        BY <1>0, <2>1, <2>2, <3>3, <4>1, <4>2, <4>3, Zenon DEF Agree
      <4> QED
        BY <1>0, <3>3, <4>4, Zenon
    <3> QED
      BY <3>1, <3>2, <3>3, Zenon
  <2> QED
    BY <2>2, Zenon DEF Agree
<1>2. Agree(N, N)
  BY Zenon DEF Agree
<1>3. \A x \in DOMAIN N : \E f \in P : x \in DOMAIN f /\ N[x] = f[x]
  BY <1>0, Zenon
<1>4. ASSUME NEW x \in DOMAIN N PROVE \E e \in E : e.term = N[x]
  <2>1. PICK f \in P : x \in DOMAIN f /\ N[x] = f[x]
    BY <1>3, Zenon
  <2>2. PICK e \in E : e.term = f[x]
    BY <2>1, Zenon DEF Sound
  <2> QED
    BY <1>0, <2>1, <2>2, Zenon
<1>5. \A t, k : Top(P, t, k) => Top(P \cup {N}, t, k)
  BY <1>3, Zenon DEF Top
<1> QED
  BY <1>1, <1>2, <1>4, <1>5, Zenon DEF Sound

-----------------------------------------------------------------------------
(* The pieces before and after a step of node n. *)

LEMMA PiecesHeld ==
  /\ \A n \in Node : /\ node[n].log \in Pieces(node, disk, msgs)
                     /\ disk[n].log \in Pieces(node, disk, msgs)
  /\ \A m \in msgs : m.type = "append" => Piece(m) \in Pieces(node, disk, msgs)
BY Zenon DEF Pieces

LEMMA PiecesConvex ==
  ASSUME ElectionInv, NEW f \in Pieces(node, disk, msgs)
  PROVE  Convex(f)
<1>1. ASSUME NEW L \in Seq(Nat), f = L PROVE Convex(f)
  BY <1>1 DEF Convex
<1>2. CASE \E n \in Node : f = node[n].log \/ f = disk[n].log
  <2>1. \A n \in Node : node[n].log \in Seq(Nat) /\ disk[n].log \in Seq(Nat)
    BY Zenon DEF ElectionInv, Local, CtxOK, Ctx, DiskImage
  <2> QED
    BY <1>1, <1>2, <2>1, Zenon
<1>3. CASE \E m \in msgs : m.type = "append" /\ f = Piece(m)
  <2>1. PICK m \in msgs : m.type = "append" /\ f = Piece(m)
    BY <1>3, Zenon
  <2>2. m.prev \in Nat /\ m.entries \in Seq(Nat)
    BY <2>1, Zenon DEF ElectionInv, MsgOK, Message, VoteMsg, VotedMsg, AppendMsg, AppendedMsg
  <2>3. PICK p, q, k : p = m.prev /\ q = m.prevTerm /\ k = Len(m.entries)
    BY Zenon
  <2>4. p \in Nat /\ k \in Nat
    BY <2>2, <2>3, Indexed, Zenon
  <2>5. DOMAIN f = {j \in 1 .. p + k : j > p \/ (j = p /\ q >= 1)}
    BY <2>1, <2>3, Zenon DEF Piece
  <2> QED
    BY <2>4, <2>5 DEF Convex
<1> QED
  BY <1>2, <1>3, Zenon DEF Pieces

\* What a step of n that leaves log L and, on disk, K, and sends out may leave behind.
From(f, L, K, out) ==
  \/ f \in Pieces(node, disk, msgs) \/ f = L \/ f = K
  \/ \E m \in out : m.type = "append" /\ f = Piece(m)

LEMMA PiecesAfter ==
  ASSUME ElectionInv, NEW n \in Node, NEW t, NEW d, NEW out, Become(n, t, out),
         disk' = [disk EXCEPT ![n] = d]
  PROVE  \A f \in Pieces(node, disk, msgs)' : From(f, t.log, d.log, out)
<1>0. SUFFICES ASSUME NEW f \in Pieces(node, disk, msgs)' PROVE From(f, t.log, d.log, out)
  BY Zenon
<1>1. \A p \in Node : /\ node'[p] = node[p] \/ node'[p] = t
                      /\ disk'[p] = disk[p] \/ disk'[p] = d
  BY Zenon DEF ElectionInv, Become
<1>2. \A m \in msgs' : m \in msgs \/ m \in out
  BY Zenon DEF Become
<1>3. CASE \E p \in Node : f = node'[p].log \/ f = disk'[p].log
  BY <1>1, <1>3, PiecesHeld, Zenon DEF From
<1>4. CASE \E m \in msgs' : m.type = "append" /\ f = Piece(m)
  BY <1>2, <1>4, PiecesHeld, Zenon DEF From
<1> QED
  BY <1>3, <1>4, Zenon DEF Pieces

\* A step that writes, sends or recovers only what was there.
LEMMA LogsKept ==
  ASSUME ElectionInv, LogInv, NEW n \in Node, NEW t, NEW d, NEW out, Become(n, t, out),
         disk' = [disk EXCEPT ![n] = d],
         t.log = node[n].log \/ t.log = disk[n].log, d.log = node[n].log \/ d.log = disk[n].log,
         t.role = "leader" => node[n].role = "leader" /\ t.term = node[n].term /\ t.log = node[n].log,
         \A m \in out : m.type = "append" => Restricts(Piece(m), node[n].log)
  PROVE  LogInv'
<1>1. PICK P, Q, E, F : /\ P = Pieces(node, disk, msgs) /\ Q = Pieces(node, disk, msgs)'
                        /\ E = elected /\ F = elected'
  BY Zenon
<1>2. Sound(P, E) /\ \A p \in Node : node[p].role = "leader" => Top(P, node[p].term, Len(node[p].log))
  BY <1>1, Zenon DEF LogInv
<1>3. E \subseteq F
  BY <1>1, Zenon DEF Become
<1>4. \A f : Restricts(f, f)
  BY Zenon DEF Restricts
<1>5. node[n].log \in P /\ disk[n].log \in P
  BY <1>1, PiecesHeld, Zenon
<1>6. ASSUME NEW f \in Q PROVE \E g \in P : Restricts(f, g)
  <2>1. \/ f \in P \/ f = t.log \/ f = d.log
        \/ \E m \in out : m.type = "append" /\ f = Piece(m)
    <3>1. From(f, t.log, d.log, out)
      BY <1>1, PiecesAfter, Zenon
    <3> QED
      BY <1>1, <3>1, Zenon DEF From
  <2> QED
    BY <1>4, <1>5, <2>1, Zenon
<1>7. Sound(Q, F) /\ \A x, k : Top(P, x, k) => Top(Q, x, k)
  BY <1>2, <1>3, <1>6, Copied, Zenon
<1>8. \A p \in Node : node'[p].role = "leader" =>
        node[p].role = "leader" /\ node'[p].term = node[p].term /\ node'[p].log = node[p].log
  BY Zenon DEF ElectionInv, Become
<1>9. \A p \in Node : node'[p].role = "leader" => Top(Q, node'[p].term, Len(node'[p].log))
  BY <1>2, <1>7, <1>8, Zenon
<1> QED
  BY <1>1, <1>7, <1>9, Zenon DEF LogInv

\* A step by which a leader, perhaps a new one, appends an entry.
LEMMA LogsGrow ==
  ASSUME ElectionInv, LogInv, ElectionSafety', NEW n \in Node, NEW t, Become(n, t, {}), UNCHANGED disk,
         t.role = "leader", t.term = node[n].term, t.log = Append(node[n].log, t.term),
         Top(Pieces(node, disk, msgs), t.term, Len(node[n].log))
  PROVE  LogInv'
<1>1. PICK P, Q, E, F, L, x, N :
         /\ P = Pieces(node, disk, msgs) /\ Q = Pieces(node, disk, msgs)'
         /\ E = elected /\ F = elected' /\ L = node[n].log /\ x = t.term /\ N = Append(L, x)
  BY Zenon
<1>2. Sound(P, E) /\ \A p \in Node : node[p].role = "leader" => Top(P, node[p].term, Len(node[p].log))
  BY <1>1, Zenon DEF LogInv
<1>3. E \subseteq F /\ [term |-> x, node |-> n] \in F
  BY <1>1, Zenon DEF Become
<1>4. L \in P /\ L \in Seq(Nat) /\ x \in Nat /\ \A f \in P : Convex(f)
  BY <1>1, PiecesHeld, PiecesConvex, Zenon DEF ElectionInv, Local, CtxOK, Ctx
<1>5. \E e \in F : e.term = x
  BY <1>3, Zenon
<1>6. Top(P, x, Len(L))
  BY <1>1, Zenon
<1>7. /\ Sound(P \cup {N}, F) /\ Top(P \cup {N}, x, Len(N))
      /\ \A y, k : y # x /\ Top(P, y, k) => Top(P \cup {N}, y, k)
  BY <1>1, <1>2, <1>3, <1>4, <1>5, <1>6, Grown, Zenon
<1>8. PICK d, out : d = disk[n] /\ out = {}
  BY Zenon
<1>9. Become(n, t, out) /\ disk' = [disk EXCEPT ![n] = d] /\ d.log \in P /\ \A m \in out : FALSE
  BY <1>1, <1>8, PiecesHeld, Zenon DEF ElectionInv
<1>10. ASSUME NEW f \in Q PROVE \E g \in P \cup {N} : Restricts(f, g)
  <2>1. f \in P \/ f = t.log \/ f = d.log
    <3>1. From(f, t.log, d.log, out)
      BY <1>1, <1>9, PiecesAfter, Zenon
    <3> QED
      BY <1>1, <1>9, <3>1, Zenon DEF From
  <2>2. f \in P \cup {N}
    BY <1>1, <1>9, <2>1, Zenon
  <2> QED
    BY <2>2, Zenon DEF Restricts
<1>11. Sound(Q, F) /\ \A y, k : Top(P \cup {N}, y, k) => Top(Q, y, k)
  <2>1. PICK A : A = P \cup {N}
    BY Zenon
  <2>2. Sound(A, F) /\ F \subseteq F /\ \A f \in Q : \E g \in A : Restricts(f, g)
    BY <1>7, <1>10, <2>1, Zenon
  <2>3. Sound(Q, F) /\ \A y, k : Top(A, y, k) => Top(Q, y, k)
    BY <2>2, Copied, Zenon
  <2> QED
    BY <2>1, <2>3, Zenon
<1>12. ASSUME NEW p \in Node, node'[p].role = "leader" PROVE Top(Q, node'[p].term, Len(node'[p].log))
  <2>1. CASE p = n
    <3>1. node'[p].term = x /\ node'[p].log = N
      BY <1>1, <2>1, Zenon DEF ElectionInv, Become
    <3> QED
      BY <1>7, <1>11, <3>1, Zenon
  <2>2. CASE p # n
    <3>1. node'[p] = node[p]
      BY <2>2, Zenon DEF ElectionInv, Become
    <3>2. \E e \in F : e.term = node[p].term /\ e.node = p
      BY <1>1, <1>3, <1>12, <3>1, Zenon DEF ElectionInv, Local, Office, Led
    <3>3. node[p].term # x
      BY <1>1, <1>3, <2>2, <3>2, Zenon DEF ElectionSafety
    <3>4. Top(P, node[p].term, Len(node[p].log))
      BY <1>2, <1>12, <3>1, Zenon
    <3> QED
      BY <1>7, <1>11, <3>1, <3>3, <3>4, Zenon
  <2> QED
    BY <2>1, <2>2, Zenon
<1> QED
  BY <1>1, <1>11, <1>12, Zenon DEF LogInv

\* A step that neither writes nor sends entries, and leaves the log alone.
LEMMA LogsSame ==
  ASSUME ElectionInv, LogInv, NEW n \in Node, NEW t, NEW out, Become(n, t, out), UNCHANGED disk,
         t.log = node[n].log, t.role = "leader" => node[n].role = "leader" /\ t.term = node[n].term,
         \A m \in out : m.type # "append"
  PROVE  LogInv'
<1>1. PICK d : d = disk[n]
  BY Zenon
<1>2. disk' = [disk EXCEPT ![n] = d]
  BY <1>1, Zenon DEF ElectionInv
<1>3. /\ t.log = node[n].log \/ t.log = disk[n].log
      /\ d.log = node[n].log \/ d.log = disk[n].log
  BY <1>1, Zenon
<1>4. /\ t.role = "leader" => node[n].role = "leader" /\ t.term = node[n].term /\ t.log = node[n].log
      /\ \A m \in out : m.type = "append" => Restricts(Piece(m), node[n].log)
  BY Zenon
<1> QED
  BY <1>2, <1>3, <1>4, LogsKept

\* A follower takes the entries of a message its log matches.
LEMMA LogsMerge ==
  ASSUME ElectionInv, LogInv, NEW n \in Node, NEW m \in msgs, m.type = "append",
         NEW s, Local(n, s, disk[n], msgs, elected), s.log = node[n].log, Matches(s, m),
         NEW upTo \in Nat, upTo <= Len(m.entries), NEW c, Merged(s, m, upTo, c),
         NEW t, NEW out, Become(n, t, out), UNCHANGED disk, t.log = c.log, t.role = "follower",
         \A x \in out : x.type # "append"
  PROVE  LogInv'
<1>1. PICK P, Q, E, F, L, W, N, p, q, e :
         /\ P = Pieces(node, disk, msgs) /\ Q = Pieces(node, disk, msgs)'
         /\ E = elected /\ F = elected' /\ L = node[n].log /\ W = Piece(m) /\ N = t.log
         /\ p = m.prev /\ q = m.prevTerm /\ e = m.entries
  BY Zenon
<1>2. Sound(P, E) /\ \A x \in Node : node[x].role = "leader" => Top(P, node[x].term, Len(node[x].log))
  BY <1>1, Zenon DEF LogInv
<1>3. L \in P /\ W \in P /\ \A f \in P : Convex(f)
  BY <1>1, PiecesHeld, PiecesConvex, Zenon
<1>4. p \in Nat /\ q \in Nat /\ e \in Seq(Nat) /\ Len(e) \in Nat
  <2>1. m.prev \in Nat /\ m.prevTerm \in Nat /\ m.entries \in Seq(Nat)
    BY Zenon DEF ElectionInv, MsgOK, Message, VoteMsg, VotedMsg, AppendMsg, AppendedMsg
  <2> QED
    BY <1>1, <2>1, Indexed, Zenon
<1>5. L \in Seq(Nat) /\ Len(L) \in Nat /\ DOMAIN L = 1 .. Len(L) /\ \A i \in 1 .. Len(L) : L[i] >= 1
  BY <1>1, LocalTypes, Indexed, Zenon DEF Local, OnDisk
<1>6. p <= Len(L) /\ (p > 0 => L[p] = q)
  BY <1>1, Zenon DEF Merged, Matches
<1>7. N \in Seq(Nat) /\ Len(N) = p + upTo /\ DOMAIN N = 1 .. Len(N)
      /\ \A x \in 1 .. Len(N) : N[x] = IF x <= p THEN L[x] ELSE e[x - p]
  <2>1. N \in Seq(Nat)
    BY <1>1, Zenon DEF Merged, CtxOK, Ctx
  <2>2. DOMAIN N = 1 .. Len(N)
    BY <2>1, Indexed, Zenon
  <2>3. Len(c.log) = m.prev + upTo
        /\ \A x \in 1 .. Len(c.log) : c.log[x] = IF x <= m.prev THEN s.log[x] ELSE m.entries[x - m.prev]
    BY Zenon DEF Merged
  <2>4. c.log = N /\ s.log = L /\ m.prev = p /\ m.entries = e
    BY <1>1, Zenon
  <2> QED
    BY <2>1, <2>2, <2>3, <2>4
<1>8. W = [i \in {j \in 1 .. p + Len(e) : j > p \/ (j = p /\ q >= 1)} |-> IF i = p THEN q ELSE e[i - p]]
  BY <1>1, Zenon DEF Piece
<1>9. DOMAIN N \subseteq Nat \ {0}
  BY <1>4, <1>7
<1>10. p > 0 => p \in DOMAIN W /\ p \in DOMAIN L /\ W[p] = L[p]
  BY <1>4, <1>5, <1>6, <1>8
<1>11. \A x \in DOMAIN N : x <= p => x \in DOMAIN L /\ N[x] = L[x]
  BY <1>4, <1>5, <1>6, <1>7
<1>12. ASSUME NEW x \in DOMAIN N, ~(x <= p) PROVE x \in DOMAIN W /\ N[x] = W[x]
  <2>1. x \in 1 .. p + Len(e) /\ x > p /\ x # p
    BY <1>1, <1>4, <1>7, <1>12
  <2> QED
    BY <1>7, <1>8, <1>12, <2>1, Zenon
<1>13. Sound(P \cup {N}, E) /\ \A x, k : Top(P, x, k) => Top(P \cup {N}, x, k)
  <2>1. \A x \in DOMAIN N : ~(x <= p) => x \in DOMAIN W /\ N[x] = W[x]
    BY <1>12, Zenon
  <2>2. Sound(P, E) /\ L \in P /\ W \in P /\ (\A f \in P : Convex(f)) /\ p \in Nat
    BY <1>2, <1>3, <1>4, Zenon
  <2>3. Splice(N, L, W, p)
    BY <1>9, <1>10, <1>11, <2>1, Zenon DEF Splice
  <2> QED
    BY <2>2, <2>3, Spliced, Zenon
<1>14. PICK d : d = disk[n]
  BY Zenon
<1>15. disk' = [disk EXCEPT ![n] = d] /\ d.log \in P /\ E \subseteq F
  BY <1>1, <1>14, PiecesHeld, Zenon DEF ElectionInv, Become
<1>16. ASSUME NEW f \in Q PROVE \E g \in P \cup {N} : Restricts(f, g)
  <2>1. From(f, t.log, d.log, out)
    BY <1>1, <1>15, PiecesAfter, Zenon
  <2>2. f \in P \cup {N}
    BY <1>1, <1>15, <2>1, Zenon DEF From
  <2> QED
    BY <2>2, Zenon DEF Restricts
<1>17. Sound(Q, F) /\ \A x, k : Top(P \cup {N}, x, k) => Top(Q, x, k)
  <2>1. PICK A : A = P \cup {N}
    BY Zenon
  <2>2. Sound(A, E) /\ \A f \in Q : \E g \in A : Restricts(f, g)
    BY <1>13, <1>16, <2>1, Zenon
  <2>3. Sound(Q, F) /\ \A x, k : Top(A, x, k) => Top(Q, x, k)
    BY <1>15, <2>2, Copied, Zenon
  <2> QED
    BY <2>1, <2>3, Zenon
<1>18. \A x \in Node : node'[x].role = "leader" => node'[x] = node[x]
  BY Zenon DEF ElectionInv, Become
<1>19. \A x \in Node : node'[x].role = "leader" => Top(Q, node'[x].term, Len(node'[x].log))
  BY <1>2, <1>13, <1>17, <1>18, Zenon
<1> QED
  BY <1>1, <1>17, <1>19, Zenon DEF LogInv

\* raft_queue_append_entries sends a slice of the leader's log.
LEMMA SentPiece ==
  ASSUME NEW L \in Seq(Nat), NEW m, NEW f \in Nat, f >= 1, m.prev = f - 1,
         m.prevTerm = TermAt(L, f - 1), NEW u \in Int, u <= Len(L),
         m.entries = << >> \/ m.entries = SubSeq(L, f, u)
  PROVE  Restricts(Piece(m), L)
<1>1. PICK p, q, e : p = m.prev /\ q = m.prevTerm /\ e = m.entries
  BY Zenon
<1>2. Piece(m) = [i \in {j \in 1 .. p + Len(e) : j > p \/ (j = p /\ q >= 1)} |->
                    IF i = p THEN q ELSE e[i - p]]
  BY <1>1, Zenon DEF Piece
<1>3. p = f - 1 /\ p \in Nat /\ Len(L) \in Nat /\ DOMAIN L = 1 .. Len(L)
  BY <1>1, Indexed
<1>4. q >= 1 => p \in DOMAIN L /\ L[p] = q
  BY <1>1, <1>3 DEF TermAt
<1>5. Len(e) \in Nat /\ \A i \in 1 .. Len(e) : p + i \in DOMAIN L /\ e[i] = L[p + i]
  <2>1. CASE e = << >>
    BY <2>1
  <2>2. CASE e = SubSeq(L, f, u)
    <3>1. /\ Len(e) = IF f <= u THEN u - f + 1 ELSE 0
          /\ \A i \in 1 .. u - f + 1 : e[i] = L[f + i - 1]
      BY <2>2, Sliced
    <3>2. \A i \in 1 .. Len(e) : i \in 1 .. u - f + 1 /\ p + i = f + i - 1 /\ p + i \in DOMAIN L
      BY <1>3, <3>1
    <3>3. Len(e) \in Nat
      BY <3>1
    <3> QED
      BY <3>1, <3>2, <3>3, Zenon
  <2> QED
    BY <1>1, <2>1, <2>2, Zenon
<1>6. \A j \in 1 .. p + Len(e) : j > p => j - p \in 1 .. Len(e) /\ p + (j - p) = j /\ j # p
  BY <1>3, <1>5
<1>7. ASSUME NEW i \in DOMAIN Piece(m) PROVE i \in DOMAIN L /\ Piece(m)[i] = L[i]
  <2>1. CASE i = p /\ q >= 1
    BY <1>2, <1>4, <2>1, Zenon
  <2>2. CASE i \in 1 .. p + Len(e) /\ i > p
    BY <1>2, <1>5, <1>6, <2>2, Zenon
  <2> QED
    BY <1>2, <2>1, <2>2, Zenon
<1> QED
  BY <1>7, Zenon DEF Restricts

-----------------------------------------------------------------------------
(* The steps. *)

LEMMA StepDownLog ==
  ASSUME NEW s, s \in Ctx, NEW x
  PROVE  StepDown(s, x).log = s.log /\ StepDown(s, x).role = "follower" /\ StepDown(s, x).term = x
BY Zenon DEF StepDown, Ctx

LEMMA NodeCtx ==
  ASSUME ElectionInv, NEW n \in Node
  PROVE  node[n] \in Ctx /\ CtxOK(node[n]) /\ Local(n, node[n], disk[n], msgs, elected)
BY Zenon DEF ElectionInv, Local, CtxOK

LEMMA RequestVoteLogs ==
  ASSUME ElectionInv, LogInv, NEW n \in Node, NEW m \in msgs, RecvRequestVote(n, m)
  PROVE  LogInv'
<1> DEFINE s == IF m.term > node[n].term THEN StepDown(node[n], m.term) ELSE node[n]
           t == [s EXCEPT !.vote = m.from, !.dirty = TRUE, !.grant = m.from, !.grantWait = TRUE]
           r == VoteResult(n, m.from, s, TRUE)
<1>1. UNCHANGED disk /\ (Become(n, s, {}) \/ Become(n, s, {r}) \/ Become(n, t, {}))
  BY Zenon DEF RecvRequestVote
<1>2. s \in Ctx
  <2>1. m.term \in Nat
    BY Zenon DEF ElectionInv, MsgOK, Message, VoteMsg, VotedMsg, AppendMsg, AppendedMsg
  <2> QED
    BY <2>1, NodeCtx, StepDownType, Zenon DEF CtxOK
<1>3. s.log = node[n].log /\ (s.role = "leader" => node[n].role = "leader" /\ s.term = node[n].term)
  BY NodeCtx, StepDownLog, Zenon
<1>4. t.log = s.log /\ t.role = s.role /\ t.term = s.term
  BY <1>2, Zenon DEF Ctx
<1>5. r.type # "append"
  BY Zenon DEF VoteResult
<1> HIDE DEF s, t, r
<1>6. PICK o, a : o = {} /\ a = {r}
  BY Zenon
<1>7. (\A x \in o : x.type # "append") /\ (\A x \in a : x.type # "append")
  BY <1>5, <1>6, Zenon
<1>8. t.log = node[n].log /\ (t.role = "leader" => node[n].role = "leader" /\ t.term = node[n].term)
  BY <1>3, <1>4, Zenon
<1>9. Become(n, s, o) \/ Become(n, s, a) \/ Become(n, t, o)
  BY <1>1, <1>6, Zenon
<1> QED
  BY <1>1, <1>3, <1>7, <1>8, <1>9, LogsSame

LEMMA VoteResultLogs ==
  ASSUME ElectionInv, LogInv, ElectionSafety', NEW n \in Node, NEW m \in msgs, RecvVoteResult(n, m)
  PROVE  LogInv'
<1>0. UNCHANGED disk
  BY Zenon DEF RecvVoteResult
<1>o. PICK o : o = {}
  BY Zenon
<1>e. \A x \in o : x.type # "append"
  BY <1>o, Zenon
<1>c. node[n] \in Ctx
  BY NodeCtx, Zenon
<1>1. ASSUME NEW t, Become(n, t, {}), t.log = node[n].log, t.role # "leader" PROVE LogInv'
  <2>1. Become(n, t, o)
    BY <1>1, <1>o, Zenon
  <2> QED
    BY <1>0, <1>e, <1>1, <2>1, LogsSame, Zenon
<1>2. CASE Become(n, StepDown(node[n], m.term), {})
  <2>1. PICK t : t = StepDown(node[n], m.term)
    BY Zenon
  <2>2. t.log = node[n].log /\ t.role # "leader" /\ Become(n, t, {})
    BY <1>2, <1>c, <2>1, StepDownLog, Zenon
  <2> QED
    BY <1>1, <2>2, Zenon
<1> DEFINE v == [node[n] EXCEPT !.preVotes = @ \cup {m.from}]
<1>3. CASE node[n].preVote /\ Become(n, IF IsQuorum({n} \cup v.preVotes) THEN BecomeCandidate(n, v) ELSE v, {})
  <2>1. PICK t : t = IF IsQuorum({n} \cup v.preVotes) THEN BecomeCandidate(n, v) ELSE v
    BY Zenon
  <2>2. v.log = node[n].log /\ v.role = node[n].role /\ v.term = node[n].term
    BY <1>c, Zenon DEF Ctx
  <2>3. BecomeCandidate(n, v).log = v.log
        /\ (BecomeCandidate(n, v).role = "leader" => v.role = "leader" /\ BecomeCandidate(n, v).term = v.term)
    BY <1>c, Zenon DEF BecomeCandidate, Ctx
  <2> HIDE DEF v
  <2>4. t.log = node[n].log /\ (t.role = "leader" => node[n].role = "leader" /\ t.term = node[n].term)
    BY <2>1, <2>2, <2>3, Zenon
  <2>5. Become(n, t, o)
    BY <1>3, <1>o, <2>1, Zenon
  <2> QED
    BY <1>0, <1>e, <2>4, <2>5, LogsSame, Zenon
<1> DEFINE s == [node[n] EXCEPT !.votes = @ \cup {m.from}]
<1>s. s.log = node[n].log /\ s.role = node[n].role /\ s.term = node[n].term
  BY <1>c, Zenon DEF Ctx
<1>4. CASE node[n].role = "candidate" /\ Become(n, s, {})
  <2> HIDE DEF s
  <2>1. s.role # "leader"
    BY <1>4, <1>s, Zenon
  <2> QED
    BY <1>1, <1>4, <1>s, <2>1, Zenon
<1>5. CASE Become(n, RevertToFollower(s), {})
  <2>1. PICK t : t = RevertToFollower(s)
    BY Zenon
  <2>2. t.log = node[n].log /\ t.role # "leader" /\ Become(n, t, {})
    BY <1>5, <1>c, <2>1, Zenon DEF RevertToFollower, Ctx
  <2> QED
    BY <1>1, <2>2, Zenon
\* The winner's NOOP is the first entry of its term: had there been another, someone
\* would have led the term, and only this node can have, but a candidate has not.
<1>6. CASE node[n].role = "candidate" /\ Become(n, BecomeLeader(s), {})
  <2>1. PICK t : t = BecomeLeader(s)
    BY Zenon
  <2>2. t.log = Append(node[n].log, node[n].term) /\ t.role = "leader" /\ t.term = node[n].term
    BY <1>c, <1>s, <2>1, Zenon DEF BecomeLeader, Ctx
  <2>3. Become(n, t, {})
    BY <1>6, <2>1, Zenon
  <2> HIDE DEF s
  <2>4. [term |-> t.term, node |-> n] \in elected' /\ elected \subseteq elected'
    BY <2>2, <2>3, Zenon DEF Become
  <2>5. ~Led(elected, t.term, n)
    BY <1>6, <2>2, NodeCtx, Zenon DEF Local, Office
  <2>6. \A e \in elected : e.term # t.term
    BY <2>4, <2>5, Zenon DEF ElectionSafety, Led
  <2>7. \A f \in Pieces(node, disk, msgs) : \A i \in DOMAIN f : f[i] # t.term
    BY <2>6, Zenon DEF LogInv, Sound
  <2>8. Top(Pieces(node, disk, msgs), t.term, Len(node[n].log))
    BY <2>7, Zenon DEF Top
  <2>9. t.log = Append(node[n].log, t.term)
    BY <2>2, Zenon
  <2> QED
    BY <1>0, <2>2, <2>3, <2>8, <2>9, LogsGrow
<1> QED
  BY <1>2, <1>3, <1>4, <1>5, <1>6, Zenon DEF RecvVoteResult

LEMMA SubmitLogs ==
  ASSUME ElectionInv, LogInv, ElectionSafety', NEW n \in Node, Submit(n)
  PROVE  LogInv'
<1>1. PICK u, N, t : u = node[n] /\ N = Append(u.log, u.term) /\ t = [u EXCEPT !.log = N, !.dirty = TRUE]
  BY Zenon
<1>2. Become(n, t, {}) /\ UNCHANGED disk /\ node[n].role = "leader"
  BY <1>1, Zenon DEF Submit
<1>3. t.role = "leader" /\ t.term = node[n].term /\ t.log = Append(node[n].log, node[n].term)
  <2>1. u \in Ctx
    BY <1>1, NodeCtx, Zenon
  <2>2. t.role = u.role /\ t.term = u.term /\ t.log = N
    BY <1>1, <2>1, Zenon DEF Ctx
  <2> QED
    BY <1>1, <1>2, <2>2, Zenon
<1>4. t.log = Append(node[n].log, t.term) /\ Top(Pieces(node, disk, msgs), t.term, Len(node[n].log))
  BY <1>2, <1>3, Zenon DEF LogInv
<1> QED
  BY <1>2, <1>3, <1>4, LogsGrow

LEMMA AcceptLogs ==
  ASSUME WellOrdered, ElectionInv, LogInv, NEW n \in Node, NEW m \in msgs, m.type = "append",
         NEW s, Local(n, s, disk[n], msgs, elected), s.log = node[n].log, s.role = "follower",
         Matches(s, m), UNCHANGED disk, AcceptAppend(n, s, m)
  PROVE  LogInv'
<1> DEFINE c == Merge(s, m, Len(m.entries))
           f == FollowCommit(c, m)
           t == [f EXCEPT !.dirty = s.dirty \/ m.entries # << >>]
           l == LatchAck(t, m)
           r == AppendResult(n, m.from, t, TRUE, Lesser(t.front.confirm, m.prev), 0, 0, 0)
<1>1. Become(n, t, {r}) \/ Become(n, l, {}) \/ Become(n, t, {})
  BY Zenon DEF AcceptAppend
<1>2. r.type # "append"
  BY Zenon DEF AppendResult
<1> HIDE DEF r
<1>3. m.prev \in Nat /\ m.entries \in Seq(Nat) /\ Len(m.entries) \in Nat
  <2>1. m.prev \in Nat /\ m.entries \in Seq(Nat)
    BY Zenon DEF ElectionInv, MsgOK, Message, VoteMsg, VotedMsg, AppendMsg, AppendedMsg
  <2> QED
    BY <2>1, Indexed, Zenon
<1>4. CtxOK(s) /\ s \in Ctx /\ s.front.synced <= Len(s.log)
  BY Zenon DEF Local, CtxOK, OnDisk
<1>5. c = s \/ Merged(s, m, Len(m.entries), c)
  <2>1. CASE Missing(s, m) = {}
    BY <2>1, Zenon DEF Merge
  <2>2. CASE Missing(s, m) # {}
    <3>1. Missing(s, m) \subseteq Nat /\ \A x \in Missing(s, m) : x <= Len(m.entries)
      BY <1>3 DEF Missing
    <3>2. Min(Missing(s, m)) \in Missing(s, m)
      BY <2>2, <3>1, MinFacts, Zenon
    <3>3. Min(Missing(s, m)) - 1 <= Len(m.entries) /\ Len(m.entries) <= Len(m.entries)
      BY <1>3, <3>1, <3>2
    <3>4. PICK u : u = Len(m.entries)
      BY Zenon
    <3>5. u \in Nat /\ Min(Missing(s, m)) - 1 <= u /\ u <= Len(m.entries)
      BY <1>3, <3>3, <3>4, Zenon
    <3>6. Merged(s, m, u, Merge(s, m, u))
      BY <1>3, <1>4, <2>2, <3>5, MergeFacts, Zenon
    <3> QED
      BY <3>4, <3>6, Zenon
  <2> QED
    BY <2>1, <2>2, Zenon
<1> HIDE DEF c
<1>6. c \in Ctx /\ c.role = "follower"
  BY <1>4, <1>5, Zenon DEF Merged, CtxOK
<1>7. PICK k : f = [c EXCEPT !.commit = k]
  BY Zenon DEF FollowCommit
<1>8. PICK b : t = [[c EXCEPT !.commit = k] EXCEPT !.dirty = b]
  BY <1>7, Zenon
<1>9. PICK a : l = [t EXCEPT !.ack = a]
  BY Zenon DEF LatchAck
<1> HIDE DEF t, l
<1>10. t.log = c.log /\ t.role = "follower" /\ l.log = c.log /\ l.role = "follower"
  BY <1>6, <1>8, <1>9, Zenon DEF Ctx
\* Both outcomes, with what is sent.
<1>11. ASSUME NEW x, NEW out, Become(n, x, out), x.log = c.log, x.role = "follower",
              \A y \in out : y.type # "append"
       PROVE  LogInv'
  <2>1. CASE c = s
    <3>1. x.log = node[n].log /\ x.role # "leader"
      BY <1>11, <2>1, Zenon
    <3> QED
      BY <1>11, <3>1, LogsSame, Zenon
  <2>2. CASE Merged(s, m, Len(m.entries), c)
    <3>1. PICK u : u = Len(m.entries)
      BY Zenon
    <3>2. u \in Nat /\ u <= Len(m.entries) /\ Merged(s, m, u, c)
      BY <1>3, <2>2, <3>1
    <3> QED
      BY <1>11, <3>2, LogsMerge
  <2> QED
    BY <1>5, <2>1, <2>2, Zenon
<1>12. PICK o, q : o = {} /\ q = {r}
  BY Zenon
<1>13. (\A y \in o : y.type # "append") /\ (\A y \in q : y.type # "append")
  BY <1>2, <1>12, Zenon
<1>14. Become(n, t, q) \/ Become(n, l, o) \/ Become(n, t, o)
  BY <1>1, <1>12, Zenon
<1> QED
  BY <1>10, <1>11, <1>13, <1>14, Zenon

LEMMA RejectLogs ==
  ASSUME ElectionInv, LogInv, NEW n \in Node, NEW m, NEW s, s \in Ctx, s.log = node[n].log,
         s.role = "follower", UNCHANGED disk, RejectAppend(n, s, m)
  PROVE  LogInv'
<1>1. PICK j, a, b, e : \/ Become(n, [s EXCEPT !.reject = j], {})
                        \/ Become(n, s, {AppendResult(n, m.from, s, FALSE, Len(s.log), a, b, e)})
  BY Zenon DEF RejectAppend
<1>2. PICK t, r : t = [s EXCEPT !.reject = j] /\ r = AppendResult(n, m.from, s, FALSE, Len(s.log), a, b, e)
  BY Zenon
<1>3. t.log = s.log /\ t.role = s.role /\ r.type # "append"
  BY <1>2, Zenon DEF AppendResult, Ctx
<1>4. PICK o, q : o = {} /\ q = {r}
  BY Zenon
<1>5. (\A y \in o : y.type # "append") /\ (\A y \in q : y.type # "append")
  BY <1>3, <1>4, Zenon
<1>6. Become(n, t, o) \/ Become(n, s, q)
  BY <1>1, <1>2, <1>4, Zenon
<1>7. t.log = node[n].log /\ t.role # "leader" /\ s.role # "leader"
  BY <1>3, Zenon
<1> QED
  BY <1>5, <1>6, <1>7, LogsSame

LEMMA AppendEntriesLogs ==
  ASSUME WellOrdered, ElectionInv, ElectionSafety, LogInv, NEW n \in Node, NEW m \in msgs,
         RecvAppendEntries(n, m)
  PROVE  LogInv'
<1>0. /\ m.type = "append" /\ m.to = n /\ UNCHANGED disk
      /\ m.term >= node[n].term /\ (m.term = node[n].term => node[n].role # "leader")
  BY Zenon DEF RecvAppendEntries
<1>1. PICK s : s = Follow(node[n], m)
  BY Zenon
<1>2. Local(n, s, disk[n], msgs, elected) /\ s.role = "follower" /\ s.log = node[n].log
  BY <1>0, <1>1, FollowFacts, Zenon
<1>3. CASE Matches(s, m) /\ AcceptAppend(n, s, m)
  BY <1>0, <1>2, <1>3, AcceptLogs, Zenon
<1>4. CASE ~Matches(s, m) /\ RejectAppend(n, s, m)
  <2>1. s \in Ctx
    BY <1>2, Zenon DEF Local, CtxOK
  <2> QED
    BY <1>0, <1>2, <1>4, <2>1, RejectLogs, Zenon
<1>5. CASE /\ Matches(s, m) /\ Missing(s, m) # {}
           /\ \E upTo \in Min(Missing(s, m)) - 1 .. Len(m.entries) - 1 :
                Become(n, Merge(s, m, upTo), {})
  <2>1. PICK upTo \in Min(Missing(s, m)) - 1 .. Len(m.entries) - 1 : Become(n, Merge(s, m, upTo), {})
    BY <1>5, Zenon
  <2>2. Len(m.entries) \in Nat /\ m.prev \in Nat /\ m.entries \in Seq(Nat)
    BY <1>0, AppendFrom, Indexed, Zenon
  <2>3. Min(Missing(s, m)) \in Nat /\ Min(Missing(s, m)) >= 1
    <3>1. Missing(s, m) \subseteq Nat /\ \A x \in Missing(s, m) : x >= 1
      BY <2>2 DEF Missing
    <3> QED
      BY <1>5, <3>1, MinFacts, Zenon
  <2>4. upTo \in Nat /\ Min(Missing(s, m)) - 1 <= upTo /\ upTo <= Len(m.entries)
    BY <2>2, <2>3
  <2>5. CtxOK(s) /\ s.front.synced <= Len(s.log)
    BY <1>2, Zenon DEF Local, OnDisk
  <2>6. PICK c, o : c = Merge(s, m, upTo) /\ o = {}
    BY Zenon
  <2>7. Merged(s, m, upTo, c)
    BY <1>5, <2>2, <2>4, <2>5, <2>6, MergeFacts, Zenon
  <2>8. c.role = "follower" /\ Become(n, c, o) /\ \A y \in o : y.type # "append"
    BY <1>2, <2>1, <2>6, <2>7, Zenon DEF Merged
  <2> QED
    BY <1>0, <1>2, <1>5, <2>4, <2>7, <2>8, LogsMerge
<1> QED
  BY <1>1, <1>3, <1>4, <1>5, Zenon DEF RecvAppendEntries

LEMMA AdvancedLog ==
  ASSUME NEW n, NEW s, s \in Ctx
  PROVE  /\ AdvanceCommit(n, s).log = s.log /\ AdvanceCommit(n, s).role = s.role
         /\ AdvanceCommit(n, s).term = s.term /\ AdvanceCommit(n, s).next = s.next
<1>1. PICK k : AdvanceCommit(n, s) = [s EXCEPT !.commit = k]
  BY Zenon DEF AdvanceCommit
<1> QED
  BY <1>1, Zenon DEF Ctx

LEMMA AppendResultLogs ==
  ASSUME ElectionInv, LogInv, NEW n \in Node, NEW m \in msgs, RecvAppendResult(n, m)
  PROVE  LogInv'
<1>0. UNCHANGED disk /\ node[n].role = "leader"
  BY Zenon DEF RecvAppendResult
<1>1. PICK s, o : s = node[n] /\ o = {}
  BY Zenon
<1>2. s \in Ctx /\ \A x \in o : x.type # "append"
  BY <1>1, NodeCtx, Zenon
<1>3. CASE Become(n, StepDown(node[n], m.term), {})
  <2>1. PICK t : t = StepDown(node[n], m.term)
    BY Zenon
  <2>2. t.log = node[n].log /\ t.role # "leader" /\ Become(n, t, o)
    BY <1>1, <1>2, <1>3, <2>1, StepDownLog, Zenon
  <2> QED
    BY <1>0, <1>2, <2>2, LogsSame, Zenon
<1> DEFINE x == Lesser(m.last, Len(s.log))
           t == IF ~m.ok THEN [s EXCEPT !.next[m.from] = ResumeAt(s, m)]
                ELSE IF x < s.match[m.from] THEN s
                ELSE [s EXCEPT !.match[m.from] = x, !.next[m.from] = x + 1]
<1>4. CASE Become(n, AdvanceCommit(n, t), {})
  <2>1. PICK k, a : a = [t EXCEPT !.commit = k] /\ a = AdvanceCommit(n, t)
    BY Zenon DEF AdvanceCommit
  <2>2. Become(n, a, o)
    BY <1>1, <1>4, <2>1, Zenon
  <2>3. /\ t.log = s.log /\ t.role = s.role /\ t.term = s.term
        /\ DOMAIN t = DOMAIN s
    <3>1. CASE ~m.ok
      <4>1. PICK y : y = ResumeAt(s, m)
        BY Zenon
      <4>2. t = [s EXCEPT !.next[m.from] = y]
        BY <3>1, <4>1, Zenon
      <4> HIDE DEF t
      <4> QED
        BY <1>2, <4>2, Zenon DEF Ctx
    <3>2. CASE m.ok /\ x < s.match[m.from]
      <4>1. t = s
        BY <3>2, Zenon
      <4> HIDE DEF t
      <4> QED
        BY <4>1, Zenon
    <3>3. CASE m.ok /\ ~(x < s.match[m.from])
      <4>1. PICK y, z : y = x /\ z = x + 1
        BY Zenon
      <4>2. t = [s EXCEPT !.match[m.from] = y, !.next[m.from] = z]
        BY <3>3, <4>1, Zenon
      <4> HIDE DEF t
      <4> QED
        BY <1>2, <4>2, Zenon DEF Ctx
    <3> QED
      BY <3>1, <3>2, <3>3, Zenon
  <2> HIDE DEF t
  <2>4. a.log = s.log /\ a.role = s.role /\ a.term = s.term
    <3>1. "log" \in DOMAIN s /\ "role" \in DOMAIN s /\ "term" \in DOMAIN s
      BY <1>2, Zenon DEF Ctx
    <3> QED
      BY <2>1, <2>3, <3>1, Zenon
  <2>5. a.log = node[n].log /\ (a.role = "leader" => node[n].role = "leader" /\ a.term = node[n].term)
    BY <1>1, <2>4, Zenon
  <2> QED
    BY <1>0, <1>2, <2>2, <2>5, LogsSame, Zenon
<1> QED
  BY <1>1, <1>3, <1>4, Zenon DEF RecvAppendResult

LEMMA DriveLogs ==
  ASSUME WellOrdered, ElectionInv, LogInv, ~Pipelined, NEW n \in Node, Drive(n)
  PROVE  LogInv'
<1>1. wal[n] = IdleWal /\ UNCHANGED disk /\ Completed(n) = node[n]
  BY NothingToReport, Zenon DEF Drive, MayRun
<1>2. PICK s, r, R, d : s = node[n] /\ r = Released(s) /\ R = ReleasedMsgs(n, s) /\ d = disk[n]
  BY Zenon
<1>3. s \in Ctx /\ CtxOK(s)
  BY <1>2, NodeCtx, Zenon
<1>4. r \in Ctx /\ CtxOK(r) /\ r.log = s.log /\ r.term = s.term /\ (r.role = "leader" => s.role = "leader")
  <2>1. CtxOK(r) /\ Calm(s, r)
    BY <1>2, <1>3, ReleasedCalm, Zenon
  <2>2. r \in Ctx
    BY <2>1, Zenon DEF CtxOK
  <2> QED
    BY <2>1, <2>2, Zenon DEF Calm
<1>5. \A m \in R : m.type # "append"
  BY <1>2, <1>3, ReleasedFacts
<1>6. disk' = [disk EXCEPT ![n] = d] /\ d.log = disk[n].log
  BY <1>1, <1>2, Zenon DEF ElectionInv
\* What is left to show of each tick.
<1>7. ASSUME NEW c, NEW out, c \in Ctx, Advance(n, s, [ctx |-> c, out |-> out]), c.log = s.log,
             c.role = "leader" => s.role = "leader" /\ c.term = s.term,
             \A m \in out : m.type = "append" => Restricts(Piece(m), s.log)
      PROVE  LogInv'
  <2>1. PICK t, o : t = [c EXCEPT !.dirty = FALSE] /\ o = R \cup out
    BY Zenon
  <2>2. Become(n, t, o)
    BY <1>2, <1>7, <2>1, Zenon DEF Advance
  <2>3. t.log = c.log /\ t.role = c.role /\ t.term = c.term
    BY <1>7, <2>1, Zenon DEF Ctx
  <2>4. \A m \in o : m.type = "append" => Restricts(Piece(m), node[n].log)
    BY <1>2, <1>5, <1>7, <2>1, Zenon
  <2>5. /\ t.log = node[n].log \/ t.log = disk[n].log
        /\ d.log = node[n].log \/ d.log = disk[n].log
    BY <1>2, <1>6, <1>7, <2>3, Zenon
  <2>6. t.role = "leader" => node[n].role = "leader" /\ t.term = node[n].term /\ t.log = node[n].log
    BY <1>2, <1>7, <2>3, Zenon
  <2> QED
    BY <1>6, <2>2, <2>4, <2>5, <2>6, LogsKept
<1>8. PICK a : a = AdvanceCommit(n, r)
  BY Zenon
<1>9. a \in Ctx /\ CtxOK(a) /\ a.log = s.log /\ a.term = s.term /\ a.role = r.role
  <2>1. CtxOK(a)
    BY <1>4, <1>8, AdvanceType, Zenon
  <2>2. a \in Ctx
    BY <2>1, Zenon DEF CtxOK
  <2> QED
    BY <1>4, <1>8, <2>1, <2>2, AdvancedLog, Zenon
<1>10. CASE Advance(n, s, Quiet(n, r))
  <2>1. PICK c, out : c = (IF r.role = "leader" THEN a ELSE r) /\ out = {}
    BY Zenon
  <2>2. Advance(n, s, [ctx |-> c, out |-> out])
    BY <1>8, <1>10, <2>1 DEF Quiet
  <2>3. c \in Ctx /\ c.log = s.log /\ (c.role = "leader" => s.role = "leader" /\ c.term = s.term)
    BY <1>4, <1>9, <2>1, Zenon
  <2>4. \A m \in out : m.type = "append" => Restricts(Piece(m), s.log)
    BY <2>1, Zenon
  <2> QED
    BY <1>7, <2>2, <2>3, <2>4, Zenon
<1>11. CASE Advance(n, s, TimedOut(n, r)) /\ r.role = "leader"
  <2>1. PICK c, out : c = StepDown(r, r.term) /\ out = {}
    BY Zenon
  <2>2. Advance(n, s, [ctx |-> c, out |-> out])
    BY <1>11, <2>1, Zenon DEF TimedOut
  <2>3. c \in Ctx
    <3>1. r.term \in Nat
      BY <1>4, Zenon DEF Ctx
    <3>2. CtxOK(c)
      BY <1>4, <2>1, <3>1, StepDownType, Zenon
    <3> QED
      BY <3>2, Zenon DEF CtxOK
  <2>4. c.log = s.log /\ c.role # "leader"
    BY <1>4, <2>1, StepDownLog, Zenon
  <2>5. \A m \in out : m.type = "append" => Restricts(Piece(m), s.log)
    BY <2>1, Zenon
  <2> QED
    BY <1>7, <2>2, <2>3, <2>4, <2>5, Zenon
<1>12. CASE Advance(n, s, TimedOut(n, r)) /\ r.role # "leader"
  <2>1. PICK q, c, out : q = VoteRequest(n, r, TRUE) /\ c = StartPreVote(r) /\ out = {q}
    BY Zenon
  <2>2. Advance(n, s, [ctx |-> c, out |-> out])
    BY <1>12, <2>1, Zenon DEF TimedOut
  <2>3. c \in Ctx /\ c.log = s.log /\ c.role # "leader"
    BY <1>4, <1>12, <2>1, Zenon DEF StartPreVote, Ctx
  <2>4. q.type # "append"
    BY <2>1, Zenon DEF VoteRequest
  <2>5. \A m \in out : m.type = "append" => Restricts(Piece(m), s.log)
    BY <2>1, <2>4, Zenon
  <2> QED
    BY <1>7, <2>2, <2>3, <2>5, Zenon
<1>13. ASSUME NEW short \in SUBSET Peers(n), Advance(n, s, Beat(n, r, short)), r.role = "leader"
       PROVE  LogInv'
  <2>1. PICK out : out = {AppendEntries(n, p, a, p \in short) : p \in Peers(n)}
    BY Zenon
  <2>2. Advance(n, s, [ctx |-> a, out |-> out])
    BY <1>8, <1>13, <2>1, Zenon DEF Beat
  <2>3. ASSUME NEW m \in out PROVE Restricts(Piece(m), s.log)
    <3>1. PICK p \in Peers(n) : m = AppendEntries(n, p, a, p \in short)
      BY <2>1, Zenon
    <3>2. PICK f, u : f = a.next[p] /\ u = Lesser(Len(a.log), f + ChunkSize - 1 - ((f - 1) % ChunkSize))
      BY Zenon
    <3>3. /\ m.prev = f - 1 /\ m.prevTerm = TermAt(a.log, f - 1)
          /\ m.entries = << >> \/ m.entries = SubSeq(a.log, f, u)
      BY <3>1, <3>2, Zenon DEF AppendEntries
    <3>4. f \in Nat /\ f >= 1 /\ a.log \in Seq(Nat) /\ Len(a.log) \in Nat
      BY <1>9, <1>13, <3>2, Indexed, Zenon DEF CtxOK, Ctx, Peers
    <3>5. u \in Int /\ u <= Len(a.log)
      <4>1. PICK y, z : y = (f - 1) % ChunkSize /\ z = Len(a.log)
        BY Zenon
      <4>2. ChunkSize \in Nat \ {0}
        BY RaftAssumption, Zenon
      <4>3. y \in Int
        BY <3>4, <4>1, <4>2
      <4> QED
        BY <3>2, <3>4, <4>1, <4>2, <4>3 DEF Lesser
    <3>6. PICK L : L = a.log
      BY Zenon
    <3>7. Restricts(Piece(m), L)
      BY <3>3, <3>4, <3>5, <3>6, SentPiece
    <3> QED
      BY <1>9, <3>6, <3>7, Zenon
  <2> QED
    BY <1>4, <1>7, <1>9, <1>13, <2>2, <2>3, Zenon
<1> QED
  BY <1>1, <1>2, <1>10, <1>11, <1>12, <1>13 DEF Drive

LEMMA WalWriteLogs ==
  ASSUME WellOrdered, ElectionInv, LogInv, ~Pipelined, NEW n \in Node, WalWrite(n)
  PROVE  LogInv'
<1>1. PICK s, d : s = node[n] /\ d = disk[n]
  BY Zenon
<1>2. CtxOK(s) /\ s \in Ctx /\ d \in DiskImage /\ OnDisk(s, d) /\ s.front.synced <= Len(s.log)
  BY <1>1, Zenon DEF ElectionInv, Local, CtxOK, OnDisk
<1>3. PICK v, r, t, o : v = ViewOf(s) /\ r = Recovered(d, v) /\ t = Complete(n, s, v.durable) /\ o = {}
  BY Zenon
<1>4. wal[n].posted = <<v>>
  BY <1>1, <1>3 DEF WalWrite, ElectionInv, WalOK, IdleWal
<1>5. Head(wal[n].posted) = v
  BY <1>4
<1>6. disk' = [disk EXCEPT ![n] = r] /\ Become(n, t, o)
  BY <1>1, <1>3, <1>5, Zenon DEF WalWrite
<1>7. /\ r.log = IF s.front.synced < Len(s.log) THEN s.log ELSE d.log
      /\ v.durable = IF s.front.synced < Len(s.log) THEN Len(s.log) ELSE 0
  BY <1>2, <1>3, RecoveredFacts, Zenon
<1>8. Wrote(s, t)
  BY <1>2, <1>3, <1>7, CompleteFacts, Zenon
<1>9. /\ t.log = node[n].log \/ t.log = disk[n].log
      /\ r.log = node[n].log \/ r.log = disk[n].log
  BY <1>1, <1>7, <1>8, Zenon DEF Wrote
<1>10. t.role = "leader" => node[n].role = "leader" /\ t.term = node[n].term /\ t.log = node[n].log
  BY <1>1, <1>8, Zenon DEF Wrote
<1>11. \A m \in o : m.type = "append" => Restricts(Piece(m), node[n].log)
  BY <1>3, Zenon
<1> QED
  BY <1>6, <1>9, <1>10, <1>11, LogsKept

LEMMA RestartLogs ==
  ASSUME ElectionInv, LogInv, NEW n \in Node, Restart(n)
  PROVE  LogInv'
<1>1. PICK d, t, o : d = disk[n] /\ t = Restored(d) /\ o = {}
  BY Zenon
<1>2. Become(n, t, o) /\ disk' = [disk EXCEPT ![n] = d]
  BY <1>1, Zenon DEF Restart, ElectionInv
<1>3. t.log = d.log /\ t.role = "follower"
  BY <1>1, Zenon DEF Restored
<1>4. /\ t.log = node[n].log \/ t.log = disk[n].log
      /\ d.log = node[n].log \/ d.log = disk[n].log
  BY <1>1, <1>3, Zenon
<1>5. /\ t.role = "leader" => node[n].role = "leader" /\ t.term = node[n].term /\ t.log = node[n].log
      /\ \A m \in o : m.type = "append" => Restricts(Piece(m), node[n].log)
  BY <1>1, <1>3, Zenon
<1> QED
  BY <1>2, <1>4, <1>5, LogsKept

LEMMA InitLogs == Init => LogInv
<1> SUFFICES ASSUME Init PROVE LogInv
  BY Zenon
<1>1. msgs = {} /\ \A n \in Node : node[n].log = << >> /\ disk[n].log = << >> /\ node[n].role = "follower"
  BY Zenon DEF Init, Restored, EmptyDisk
<1>2. \A f \in Pieces(node, disk, msgs) : f = << >>
  BY <1>1, Zenon DEF Pieces
<1>3. \A f \in Pieces(node, disk, msgs) : \A i \in DOMAIN f : FALSE
  BY <1>2
<1> QED
  BY <1>1, <1>3, Zenon DEF LogInv, Sound, Agree

\* Two nodes' logs agree below an index where they have the same term.
LEMMA LogsAgree == ElectionInv /\ LogInv => LogMatching
<1> SUFFICES ASSUME ElectionInv, LogInv PROVE LogMatching
  BY Zenon
<1>1. \A a, b \in Node : Agree(node[a].log, node[b].log)
  BY PiecesHeld, Zenon DEF LogInv, Sound
<1>2. \A a \in Node : node[a].log \in Seq(Nat)
  BY NodeCtx, Zenon DEF Ctx
<1>3. ASSUME NEW a \in Node, NEW b \in Node,
             NEW i \in 1 .. Lesser(Len(node[a].log), Len(node[b].log)), node[a].log[i] = node[b].log[i],
             NEW j \in 1 .. i
      PROVE  node[a].log[j] = node[b].log[j]
  <2>1. PICK f, g : f = node[a].log /\ g = node[b].log
    BY Zenon
  <2>2. f \in Seq(Nat) /\ g \in Seq(Nat) /\ f[i] = g[i] /\ Agree(f, g) /\ i \in 1 .. Lesser(Len(f), Len(g))
    BY <1>1, <1>2, <1>3, <2>1, Zenon
  <2>3. /\ i \in DOMAIN f /\ i \in DOMAIN g /\ j \in DOMAIN f /\ j \in DOMAIN g /\ j <= i
    BY <2>2 DEF Lesser
  <2>4. f[j] = g[j]
    BY <2>2, <2>3, Zenon DEF Agree
  <2> QED
    BY <2>1, <2>4, Zenon
<1> QED
  BY <1>3, Zenon DEF LogMatching
=============================================================================
