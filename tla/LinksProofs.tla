---------------------------- MODULE LinksProofs ----------------------------
(***************************************************************************)
(* Proofs about the peer links, for any number of connections, faults and  *)
(* membership changes: a socket in the table is live, a server has one     *)
(* connection to its peer, and no Raft message is read before the greeting *)
(* of its sender.                                                          *)
(***************************************************************************)
EXTENDS Links, SequenceTheorems, TLAPS

Frames == {"hello", "raft", "eof"}
Ends == [st : {"closed", "dialing", "backlog", "open"}, outbound : BOOLEAN,
         greeted : BOOLEAN, in : Seq(Frames)]

(***************************************************************************)
(* What the stream to an end a may hold.  Either a greeting or the end of  *)
(* the stream comes before any Raft message that a server which has not    *)
(* been greeted will read; and once the other side is open, one of the two *)
(* is on its way.                                                          *)
(***************************************************************************)
Heralded(a) == \E j \in 1 .. Len(a.in) : a.in[j] \in {"hello", "eof"}

HelloBeforeRaft(a) ==
  a.st # "closed" /\ ~a.greeted =>
    \A i \in 1 .. Len(a.in) : a.in[i] = "raft" => \E j \in 1 .. i - 1 : a.in[j] \in {"hello", "eof"}

HelloSent(a, b) == a.st = "open" /\ b.st # "closed" /\ ~b.greeted => Heralded(b)

Streams(e) ==
  /\ e \in [Conns -> [Servers -> Ends]]
  /\ \A c \in Conns, n \in Servers :
       /\ HelloBeforeRaft(e[c][n])
       /\ HelloSent(e[c][n], e[c][Other(n)])

(***************************************************************************)
(* The table of a server: k is the connection it keeps, s whether Raft     *)
(* messages are sent on it, a its end of connection c.                     *)
(***************************************************************************)
Tabled(a, c, k, s) ==
  /\ a.st # "closed" /\ (a.greeted \/ a.outbound) => k = c
  /\ k = c => a.st # "closed"
  /\ k = c /\ s => a.st = "open" /\ a.greeted

LinkInv ==
  /\ Streams(end)
  /\ conn \in [Servers -> Conns \cup {0}]
  /\ sock \in [Servers -> BOOLEAN]
  /\ \A n \in Servers : sock[n] => conn[n] # 0
  /\ \A c \in Conns, n \in Servers : Tabled(end[c][n], c, conn[n], sock[n])

-----------------------------------------------------------------------------
(* The parts of the handlers. *)

LEMMA OtherFacts ==
  \A n \in Servers : /\ Other(n) \in Servers /\ Other(n) # n /\ Other(Other(n)) = n
                     /\ \A m \in Servers : m = n \/ m = Other(n)
  BY DEF Servers, Other

\* A frame at the end of a stream.
LEMMA AppendFrame ==
  ASSUME NEW a \in Ends, NEW f \in Frames,
         f = "raft" => a.greeted \/ Heralded(a),
         HelloBeforeRaft(a)
  PROVE  LET b == [a EXCEPT !.in = Append(a.in, f)]
         IN  /\ b \in Ends /\ b.st = a.st /\ b.greeted = a.greeted /\ b.outbound = a.outbound
             /\ HelloBeforeRaft(b)
             /\ Heralded(a) \/ f # "raft" => Heralded(b)
<1> DEFINE b == [a EXCEPT !.in = Append(a.in, f)]
<1>1. a.in \in Seq(Frames)
  BY Zenon DEF Ends
<1>2. /\ Append(a.in, f) \in Seq(Frames) /\ Len(Append(a.in, f)) = Len(a.in) + 1
      /\ \A i \in 1 .. Len(a.in) : Append(a.in, f)[i] = a.in[i]
      /\ Append(a.in, f)[Len(a.in) + 1] = f
      /\ Len(a.in) \in Nat
  BY <1>1, AppendProperties, LenProperties
<1>3. b \in Ends /\ b.st = a.st /\ b.greeted = a.greeted /\ b.outbound = a.outbound /\ b.in = Append(a.in, f)
  BY <1>2, Zenon DEF Ends
<1>4. Heralded(a) \/ f # "raft" => Heralded(b)
  BY <1>2, <1>3 DEF Heralded, Frames
<1>5. HelloBeforeRaft(b)
  <2> SUFFICES ASSUME b.st # "closed", ~b.greeted, NEW i \in 1 .. Len(b.in), b.in[i] = "raft"
               PROVE  \E j \in 1 .. i - 1 : b.in[j] \in {"hello", "eof"}
    BY Zenon DEF HelloBeforeRaft
  <2>1. CASE i \in 1 .. Len(a.in)
    <3>1. PICK j \in 1 .. i - 1 : a.in[j] \in {"hello", "eof"}
      BY <1>2, <1>3, <2>1, Zenon DEF HelloBeforeRaft
    <3> QED
      BY <1>2, <1>3, <2>1, <3>1
  <2>2. CASE i = Len(a.in) + 1
    <3>1. PICK j \in 1 .. Len(a.in) : a.in[j] \in {"hello", "eof"}
      BY <1>2, <1>3, <2>2, Zenon DEF Heralded
    <3> QED
      BY <1>2, <1>3, <2>2, <3>1
  <2> QED
    BY <1>2, <1>3, <2>1, <2>2
<1> QED
  BY <1>3, <1>4, <1>5, Zenon

\* What can be said of an end without its stream.
Alike(a, b) == a.st = b.st /\ a.greeted = b.greeted /\ a.outbound = b.outbound

LEMMA TabledAlike ==
  ASSUME NEW a, NEW b, NEW c, NEW k, NEW s, Tabled(a, c, k, s), Alike(b, a)
  PROVE  Tabled(b, c, k, s)
  BY Zenon DEF Tabled, Alike

\* A frame is sent: nothing changes but the stream of one end.
LEMMA SentFacts ==
  ASSUME NEW e, Streams(e), NEW c \in Conns, NEW n \in Servers, NEW f \in Frames,
         f = "raft" => e[c][n].greeted \/ Heralded(e[c][n])
  PROVE  /\ Streams(Sent(e, c, n, f))
         /\ \A d \in Conns, m \in Servers : Alike(Sent(e, c, n, f)[d][m], e[d][m])
         /\ e[c][n].st # "closed" /\ f # "raft" => Heralded(Sent(e, c, n, f)[c][n])
<1>1. CASE e[c][n].st = "closed"
  BY <1>1, Zenon DEF Sent, Alike
<1>2. CASE e[c][n].st # "closed"
  <2> DEFINE b == [e[c][n] EXCEPT !.in = Append(e[c][n].in, f)]
             g == Sent(e, c, n, f)
  <2>1. e \in [Conns -> [Servers -> Ends]] /\ e[c][n] \in Ends
    BY Zenon DEF Streams
  <2>2. /\ b \in Ends /\ Alike(b, e[c][n]) /\ HelloBeforeRaft(b)
        /\ Heralded(e[c][n]) \/ f # "raft" => Heralded(b)
    BY <2>1, AppendFrame, Zenon DEF Streams, Alike
  <2>3. g = [e EXCEPT ![c][n] = b]
    BY <1>2, <2>1, Zenon DEF Sent
  <2> HIDE DEF b, g
  <2>4. g \in [Conns -> [Servers -> Ends]]
    BY <2>1, <2>2, <2>3, Zenon
  <2>5. \A d \in Conns, m \in Servers : g[d][m] = IF d = c /\ m = n THEN b ELSE e[d][m]
    BY <2>1, <2>3, Zenon
  <2>6. \A d \in Conns, m \in Servers :
          HelloBeforeRaft(g[d][m]) /\ HelloSent(g[d][m], g[d][Other(m)])
    BY <2>2, <2>5, OtherFacts DEF Streams, HelloSent, Alike
  <2> QED
    BY <2>2, <2>4, <2>5, <2>6, Zenon DEF Streams, Alike, g
<1> QED
  BY <1>1, <1>2, Zenon

\* An end that is not open yet, or is greeted, can take the place of any other.
LEMMA PutEnd ==
  ASSUME NEW e, Streams(e), NEW c \in Conns, NEW n \in Servers, NEW b \in Ends,
         HelloBeforeRaft(b),
         b.st = "open" => e[c][Other(n)].st = "closed" \/ e[c][Other(n)].greeted
                            \/ Heralded(e[c][Other(n)]),
         e[c][Other(n)].st = "open" => b.st = "closed" \/ b.greeted \/ Heralded(b)
  PROVE  /\ Streams([e EXCEPT ![c][n] = b])
         /\ \A d \in Conns, m \in Servers :
              [e EXCEPT ![c][n] = b][d][m] = IF d = c /\ m = n THEN b ELSE e[d][m]
<1> DEFINE g == [e EXCEPT ![c][n] = b]
<1>1. e \in [Conns -> [Servers -> Ends]]
  BY Zenon DEF Streams
<1>2. g \in [Conns -> [Servers -> Ends]]
  BY <1>1, Zenon
<1>3. \A d \in Conns, m \in Servers : g[d][m] = IF d = c /\ m = n THEN b ELSE e[d][m]
  BY <1>1, Zenon
<1> HIDE DEF g
<1>4. \A d \in Conns, m \in Servers :
        HelloBeforeRaft(g[d][m]) /\ HelloSent(g[d][m], g[d][Other(m)])
  BY <1>3, OtherFacts DEF Streams, HelloSent
<1> QED
  BY <1>2, <1>3, <1>4, Zenon DEF Streams, g

LEMMA NoEndFacts ==
  /\ NoEnd \in Ends /\ NoEnd.st = "closed" /\ HelloBeforeRaft(NoEnd)
  /\ NoEnd.in = << >>
  BY EmptySeq, Zenon DEF NoEnd, Ends, HelloBeforeRaft

\* A connection is closed at one end: the other reads the end of the stream.
LEMMA ClosedFacts ==
  ASSUME NEW e, Streams(e), NEW c \in Conns, NEW n \in Servers
  PROVE  /\ Streams(Closed(e, c, n))
         /\ Closed(e, c, n)[c][n].st = "closed"
         /\ \A d \in Conns, m \in Servers :
              ~(d = c /\ m = n) => Alike(Closed(e, c, n)[d][m], e[d][m])
         /\ \A d \in Conns \ {c} : Closed(e, c, n)[d] = e[d]
<1> DEFINE g == [e EXCEPT ![c][n] = NoEnd]
<1>1. /\ Streams(g)
      /\ \A d \in Conns, m \in Servers : g[d][m] = IF d = c /\ m = n THEN NoEnd ELSE e[d][m]
  BY NoEndFacts, PutEnd
<1>2. Closed(e, c, n) = Sent(g, c, Other(n), "eof")
  BY Zenon DEF Closed
<1>3. e \in [Conns -> [Servers -> Ends]] /\ g \in [Conns -> [Servers -> Ends]]
  BY <1>1, Zenon DEF Streams
<1>4. \A d \in Conns \ {c} : g[d] = e[d]
  BY <1>3, Zenon
<1>5. \A d \in Conns \ {c} : Sent(g, c, Other(n), "eof")[d] = g[d]
  BY <1>3, Zenon DEF Sent
<1> DEFINE h == Sent(g, c, Other(n), "eof")
<1> HIDE DEF g
<1>6. Streams(h) /\ \A d \in Conns, m \in Servers : Alike(h[d][m], g[d][m])
  BY <1>1, SentFacts, OtherFacts, Zenon DEF Frames
<1> HIDE DEF h
<1>7. h[c][n].st = "closed"
  BY <1>1, <1>6, NoEndFacts DEF Alike
<1>8. \A d \in Conns, m \in Servers : ~(d = c /\ m = n) => Alike(h[d][m], e[d][m])
  BY <1>1, <1>6, Zenon
<1> QED
  BY <1>2, <1>4, <1>5, <1>6, <1>7, <1>8, Zenon DEF h

\* Both ends of a connection are replaced.
LEMMA PutConn ==
  ASSUME NEW e, Streams(e), NEW c \in Conns, NEW f \in [Servers -> Ends],
         \A n \in Servers : HelloBeforeRaft(f[n]) /\ HelloSent(f[n], f[Other(n)])
  PROVE  Streams([e EXCEPT ![c] = f])
<1> DEFINE g == [e EXCEPT ![c] = f]
<1>1. e \in [Conns -> [Servers -> Ends]]
  BY Zenon DEF Streams
<1>2. g \in [Conns -> [Servers -> Ends]] /\ \A d \in Conns : g[d] = IF d = c THEN f ELSE e[d]
  BY <1>1, Zenon
<1> HIDE DEF g
<1>3. \A d \in Conns, m \in Servers :
        HelloBeforeRaft(g[d][m]) /\ HelloSent(g[d][m], g[d][Other(m)])
  BY <1>2, OtherFacts, Zenon DEF Streams
<1> QED
  BY <1>2, <1>3, Zenon DEF Streams, g

\* The two updates of an end.
Opened(e, c, n) == [e EXCEPT ![c][n].st = "open"]
Put(e, c, n, b) == [e EXCEPT ![c][n] = b]

\* An end that opens greets the other one.
LEMMA OpenedFacts ==
  ASSUME NEW e, Streams(e), NEW c \in Conns, NEW n \in Servers,
         e[c][n].st # "closed",
         NEW g, g = Sent(Opened(e, c, n), c, Other(n), "hello")
  PROVE  /\ Streams(g)
         /\ g[c][n].st = "open" /\ g[c][n].greeted = e[c][n].greeted
         /\ g[c][n].outbound = e[c][n].outbound
         /\ \A d \in Conns, m \in Servers : ~(d = c /\ m = n) => Alike(g[d][m], e[d][m])
<1> DEFINE h == Sent(e, c, Other(n), "hello")
           b == [e[c][n] EXCEPT !.st = "open"]
<1>1. /\ Streams(h)
      /\ \A d \in Conns, m \in Servers : Alike(h[d][m], e[d][m])
      /\ e[c][Other(n)].st # "closed" => Heralded(h[c][Other(n)])
  BY SentFacts, OtherFacts, Zenon DEF Frames
<1>2. e \in [Conns -> [Servers -> Ends]] /\ e[c][n] \in Ends
  BY Zenon DEF Streams
<1>3. h[c][n] = e[c][n]
  BY <1>2, OtherFacts, Zenon DEF Sent
<1>4. b \in Ends /\ b.st = "open" /\ b.greeted = e[c][n].greeted /\ b.in = e[c][n].in
      /\ b.outbound = e[c][n].outbound
  BY <1>2, Zenon DEF Ends
<1>5. HelloBeforeRaft(b)
  BY <1>4 DEF Streams, HelloBeforeRaft
<1>6. h[c][Other(n)].st = "open" => b.greeted \/ Heralded(b)
  <2>1. HelloSent(h[c][Other(n)], h[c][n])
    BY <1>1, OtherFacts, Zenon DEF Streams
  <2> QED
    BY <2>1, <1>3, <1>4, Zenon DEF HelloSent, Heralded
<1>7. h[c][Other(n)].st = "closed" \/ Heralded(h[c][Other(n)])
  BY <1>1, OtherFacts, Zenon DEF Alike
<1>8. /\ Streams([h EXCEPT ![c][n] = b])
      /\ \A d \in Conns, m \in Servers :
           [h EXCEPT ![c][n] = b][d][m] = IF d = c /\ m = n THEN b ELSE h[d][m]
  <2> HIDE DEF h, b
  <2> QED
    BY <1>1, <1>4, <1>5, <1>6, <1>7, PutEnd
<1>9. g = [h EXCEPT ![c][n] = b]
  <2> DEFINE e1 == Opened(e, c, n)
             o == Other(n)
             B == [e[c][o] EXCEPT !.in = Append(e[c][o].in, "hello")]
  <2>1. o \in Servers /\ o # n
    BY OtherFacts, Zenon
  <2>2. e1 = [e EXCEPT ![c][n] = b] /\ e1[c][o] = e[c][o]
    BY <1>2, <2>1, Zenon DEF Opened
  <2>3. CASE e[c][o].st = "closed"
    BY <2>2, <2>3, Zenon DEF Sent
  <2>4. CASE e[c][o].st # "closed"
    <3>1. g = [e1 EXCEPT ![c][o] = B] /\ h = [e EXCEPT ![c][o] = B]
      BY <1>2, <2>1, <2>2, <2>4, Zenon DEF Sent
    <3> HIDE DEF e1, o, B, b, h
    <3>2. [[e EXCEPT ![c][n] = b] EXCEPT ![c][o] = B] = [[e EXCEPT ![c][o] = B] EXCEPT ![c][n] = b]
      <4> DEFINE x == [[e EXCEPT ![c][n] = b] EXCEPT ![c][o] = B]
                 y == [[e EXCEPT ![c][o] = B] EXCEPT ![c][n] = b]
      <4>1. x = [d \in Conns |-> x[d]] /\ y = [d \in Conns |-> y[d]]
        BY <1>2, Zenon
      <4>2. \A d \in Conns : d # c => x[d] = y[d]
        BY <1>2, Zenon
      <4>3. x[c] = [m \in Servers |-> x[c][m]] /\ y[c] = [m \in Servers |-> y[c][m]]
        BY <1>2, Zenon
      <4>4. \A m \in Servers : x[c][m] = y[c][m]
        BY <1>2, <2>1
      <4> HIDE DEF x, y
      <4>5. x[c] = y[c]
        BY <4>3, <4>4, Zenon
      <4>6. x = y
        BY <4>1, <4>2, <4>5, Zenon
      <4> QED
        BY <4>6, Zenon DEF x, y
    <3> QED
      BY <2>2, <3>1, <3>2, Zenon
  <2> QED
    BY <2>3, <2>4, Zenon
<1> HIDE DEF h, b
<1>10. g[c][n] = b
  BY <1>8, <1>9, Zenon
<1>11. \A d \in Conns, m \in Servers : ~(d = c /\ m = n) => Alike(g[d][m], e[d][m])
  BY <1>1, <1>8, <1>9, Zenon
<1> QED
  BY <1>4, <1>8, <1>9, <1>10, <1>11, Zenon

\* A frame was read by a server that has been greeted, or is by it.
LEMMA ReadFacts ==
  ASSUME NEW e, Streams(e), NEW c \in Conns, NEW n \in Servers, NEW b \in Ends,
         e[c][n].st = "open", b.st = "open", b.greeted
  PROVE  /\ Streams(Put(e, c, n, b))
         /\ \A d \in Conns, m \in Servers :
              Put(e, c, n, b)[d][m] = IF d = c /\ m = n THEN b ELSE e[d][m]
<1>1. HelloBeforeRaft(b)
  BY Zenon DEF HelloBeforeRaft
<1>2. HelloSent(e[c][n], e[c][Other(n)])
  BY Zenon DEF Streams
<1> QED
  BY <1>1, <1>2, PutEnd DEF HelloSent, Put

-----------------------------------------------------------------------------
(* The steps. *)

LEMMA LinkInvInit == ASSUME LinkInit PROVE LinkInv
<1>1. end \in [Conns -> [Servers -> Ends]] /\ \A c \in Conns, n \in Servers : end[c][n] = NoEnd
  BY NoEndFacts, Zenon DEF LinkInit
<1>2. Streams(end)
  BY <1>1, NoEndFacts, OtherFacts, Zenon DEF Streams, HelloSent
<1>3. \A c \in Conns : c # 0
  BY LinksAssumption DEF Conns
<1> QED
  BY <1>1, <1>2, <1>3, NoEndFacts, Zenon DEF LinkInit, LinkInv, Tabled

LEMMA DropKeeps ==
  ASSUME LinkInv, NEW c \in Conns, NEW n \in Servers, Drop(c, n)
  PROVE  LinkInv'
<1>1. /\ Streams(end') /\ end'[c][n].st = "closed"
      /\ \A d \in Conns, m \in Servers : ~(d = c /\ m = n) => Alike(end'[d][m], end[d][m])
  BY ClosedFacts DEF Drop, LinkInv
<1>2. \A d \in Conns : d # 0
  BY LinksAssumption DEF Conns
<1>3. /\ conn' \in [Servers -> Conns \cup {0}] /\ sock' \in [Servers -> BOOLEAN]
      /\ \A m \in Servers : conn'[m] = IF m = n /\ conn[m] = c THEN 0 ELSE conn[m]
      /\ \A m \in Servers : sock'[m] <=> sock[m] /\ (m = n => conn[n] # c)
  BY Zenon DEF Drop, Forget, LinkInv
<1>4. \A m \in Servers : sock'[m] => conn'[m] # 0
  BY <1>3, Zenon DEF LinkInv
<1>5. ASSUME NEW d \in Conns, NEW m \in Servers
      PROVE  Tabled(end'[d][m], d, conn'[m], sock'[m])
  <2>1. Tabled(end[d][m], d, conn[m], sock[m])
    BY Zenon DEF LinkInv
  <2> QED
    BY <1>1, <1>2, <1>3, <2>1 DEF Tabled, Alike
<1> QED
  BY <1>1, <1>3, <1>4, <1>5, Zenon DEF LinkInv

LEMMA ReconnectKeeps ==
  ASSUME LinkInv, NEW n \in Servers, Reconnect(n)
  PROVE  LinkInv'
<1>1. CASE view[n] = "stranger" /\ conn[n] # 0 /\ Drop(conn[n], n)
  BY <1>1, DropKeeps, Zenon DEF LinkInv
<1>2. CASE ~(view[n] = "stranger" /\ conn[n] # 0 /\ Drop(conn[n], n))
  <2> DEFINE c == CHOOSE x \in Reusable : TRUE
             k == conn[n]
             cleared == IF k = 0 THEN end ELSE Closed(end, k, n)
             A == [NoEnd EXCEPT !.st = "dialing", !.outbound = TRUE]
             B == [NoEnd EXCEPT !.st = "backlog"]
             f == [m \in Servers |-> IF m = n THEN A ELSE B]
  <2>1. /\ Reusable # {}
        /\ end' = [cleared EXCEPT ![c][n] = A, ![c][Other(n)] = B]
        /\ conn' = [conn EXCEPT ![n] = c]
        /\ sock' = [sock EXCEPT ![n] = FALSE]
    BY <1>2, Zenon DEF Reconnect
  <2>2. Reusable \subseteq Conns /\ \A d \in Conns : d # 0
    BY LinksAssumption DEF Reusable, Conns
  <2>3. c \in Reusable /\ c \in Conns
    BY <2>1, <2>2, Zenon
  <2> HIDE DEF c
  <2>4. c # k
    BY <2>3, Zenon DEF Reusable, Leaked, LinkInv, Tabled
  <2>5. /\ Streams(cleared)
        /\ k # 0 => cleared[k][n].st = "closed"
        /\ \A d \in Conns, m \in Servers : ~(d = k /\ m = n) => Alike(cleared[d][m], end[d][m])
    <3>1. CASE k = 0
      BY <3>1, <2>2, Zenon DEF LinkInv, Alike
    <3>2. CASE k # 0
      BY <3>2, ClosedFacts DEF LinkInv
    <3> QED
      BY <3>1, <3>2, Zenon
  <2> HIDE DEF cleared
  <2>6. /\ A \in Ends /\ A.st = "dialing" /\ A.outbound /\ ~A.greeted /\ A.in = << >>
        /\ B \in Ends /\ B.st = "backlog" /\ ~B.outbound /\ ~B.greeted /\ B.in = << >>
    BY EmptySeq, Zenon DEF NoEnd, Ends
  <2> HIDE DEF A, B
  <2>7. f \in [Servers -> Ends] /\ f[n] = A /\ f[Other(n)] = B
    BY <2>6, OtherFacts, Zenon
  <2>8. end' = [cleared EXCEPT ![c] = f]
    <3> DEFINE o == Other(n)
               x == [cleared EXCEPT ![c][n] = A, ![c][o] = B]
    <3>1. o \in Servers /\ o # n /\ \A m \in Servers : m = n \/ m = o
      BY OtherFacts, Zenon
    <3>2. cleared \in [Conns -> [Servers -> Ends]]
      BY <2>5, Zenon DEF Streams
    <3> HIDE DEF o
    <3>3. x = [d \in Conns |-> x[d]] /\ \A d \in Conns : d # c => x[d] = cleared[d]
      BY <3>2, Zenon
    <3>4. x[c] = [m \in Servers |-> x[c][m]] /\ x[c][n] = A /\ x[c][o] = B
      BY <3>1, <3>2, <2>3, Zenon
    <3>5. x[c] = f
      BY <3>1, <3>4, <2>7, Zenon DEF o
    <3> HIDE DEF x, f
    <3>6. x = [cleared EXCEPT ![c] = f]
      BY <3>2, <3>3, <3>5, Zenon
    <3> QED
      BY <2>1, <3>6, Zenon DEF x, o
  <2> HIDE DEF f
  <2>9. \A m \in Servers : HelloBeforeRaft(f[m]) /\ HelloSent(f[m], f[Other(m)])
    BY <2>6, <2>7, OtherFacts DEF HelloBeforeRaft, HelloSent
  <2>10. Streams(end')
    BY <2>3, <2>5, <2>7, <2>8, <2>9, PutConn, Zenon
  <2>11. \A d \in Conns : end'[d] = IF d = c THEN f ELSE cleared[d]
    BY <2>5, <2>8, Zenon DEF Streams
  <2>12. /\ conn' \in [Servers -> Conns \cup {0}] /\ sock' \in [Servers -> BOOLEAN]
         /\ \A m \in Servers : conn'[m] = IF m = n THEN c ELSE conn[m]
         /\ \A m \in Servers : sock'[m] = IF m = n THEN FALSE ELSE sock[m]
    BY <2>1, <2>3, Zenon DEF LinkInv
  <2>13. ASSUME NEW d \in Conns, NEW m \in Servers
         PROVE  Tabled(end'[d][m], d, conn'[m], sock'[m])
    <3>1. Tabled(end[d][m], d, conn[m], sock[m])
      BY Zenon DEF LinkInv
    <3>2. CASE d = c /\ m = n
      BY <3>2, <2>6, <2>7, <2>11, <2>12, Zenon DEF Tabled
    <3>3. CASE d = c /\ m = Other(n)
      <4>1. conn[m] # c
        BY <3>1, <3>3, <2>3, Zenon DEF Reusable, Leaked, Tabled
      <4> QED
        BY <3>3, <4>1, <2>6, <2>7, <2>11, <2>12, OtherFacts, Zenon DEF Tabled
    <3>4. CASE d # c /\ m = n
      BY <3>4, <3>1, <2>2, <2>5, <2>11, <2>12 DEF Tabled, Alike
    <3>5. CASE d # c /\ m = Other(n)
      <4>1. m # n
        BY <3>5, OtherFacts, Zenon
      <4>2. Alike(end'[d][m], end[d][m])
        BY <3>5, <4>1, <2>5, <2>11, Zenon
      <4>3. conn'[m] = conn[m] /\ sock'[m] = sock[m]
        BY <4>1, <2>12, Zenon
      <4> QED
        BY <3>1, <4>2, <4>3, TabledAlike, Zenon
    <3> QED
      BY <3>2, <3>3, <3>4, <3>5, OtherFacts, Zenon
  <2> QED
    BY <2>2, <2>3, <2>10, <2>12, <2>13, Zenon DEF LinkInv
<1> QED
  BY <1>1, <1>2, Zenon

\* A step that changes no more than the stream of an end, or opens one.
LEMMA EndKeeps ==
  ASSUME LinkInv, NEW c \in Conns, NEW n \in Servers,
         Streams(end'), UNCHANGED <<conn, sock>>,
         end'[c][n].st # "closed" <=> end[c][n].st # "closed",
         end[c][n].st = "open" => end'[c][n].st = "open",
         end'[c][n].greeted = end[c][n].greeted, end'[c][n].outbound = end[c][n].outbound,
         \A d \in Conns, m \in Servers : ~(d = c /\ m = n) => Alike(end'[d][m], end[d][m])
  PROVE  LinkInv'
<1>1. ASSUME NEW d \in Conns, NEW m \in Servers
      PROVE  Tabled(end'[d][m], d, conn'[m], sock'[m])
  <2>1. Tabled(end[d][m], d, conn[m], sock[m])
    BY Zenon DEF LinkInv
  <2>2. CASE d = c /\ m = n
    BY <2>1, <2>2, Zenon DEF Tabled
  <2>3. CASE ~(d = c /\ m = n)
    BY <2>1, <2>3, Zenon DEF Tabled, Alike
  <2> QED
    BY <2>2, <2>3, Zenon
<1> QED
  BY <1>1, Zenon DEF LinkInv

LEMMA ConnectKeeps ==
  ASSUME LinkInv, NEW c \in Conns, NEW n \in Servers, Connect(c, n)
  PROVE  LinkInv'
<1>1. end[c][n].st = "dialing" /\ end[c][n] \in Ends /\ UNCHANGED <<conn, sock>>
  BY Zenon DEF Connect, LinkInv, Streams
<1>2. /\ Streams(end')
      /\ end'[c][n].st = "open" /\ end'[c][n].greeted = end[c][n].greeted
      /\ end'[c][n].outbound = end[c][n].outbound
      /\ \A d \in Conns, m \in Servers : ~(d = c /\ m = n) => Alike(end'[d][m], end[d][m])
  <2>1. Streams(end) /\ end[c][n].st # "closed"
        /\ end' = Sent(Opened(end, c, n), c, Other(n), "hello")
    BY <1>1, Zenon DEF Connect, LinkInv, Opened
  <2> QED
    BY <2>1, OpenedFacts
<1> QED
  BY <1>1, <1>2, EndKeeps, Zenon

LEMMA AcceptKeeps ==
  ASSUME LinkInv, NEW c \in Conns, NEW n \in Servers, Accept(c, n)
  PROVE  LinkInv'
<1> DEFINE opened == [end EXCEPT ![c][n].st = "open"]
           gone == end[c][Other(n)].st = "closed" /\ end[c][n].in = << >>
<1>1. end[c][n].st = "backlog" /\ end[c][n] \in Ends /\ UNCHANGED <<conn, sock>>
  BY Zenon DEF Accept, LinkInv, Streams
<1>2. CASE ~gone
  <2>1. /\ Streams(end')
        /\ end'[c][n].st = "open" /\ end'[c][n].greeted = end[c][n].greeted
        /\ end'[c][n].outbound = end[c][n].outbound
        /\ \A d \in Conns, m \in Servers : ~(d = c /\ m = n) => Alike(end'[d][m], end[d][m])
    <3>1. Streams(end) /\ end[c][n].st # "closed"
          /\ end' = Sent(Opened(end, c, n), c, Other(n), "hello")
      BY <1>1, <1>2, Zenon DEF Accept, LinkInv, Opened
    <3> QED
      BY <3>1, OpenedFacts
  <2> QED
    BY <1>1, <2>1, EndKeeps, Zenon
<1>3. CASE gone
  <2> DEFINE b == [end[c][n] EXCEPT !.st = "open", !.in = Append(<< >>, "eof")]
  <2>1. end \in [Conns -> [Servers -> Ends]]
    BY Zenon DEF LinkInv, Streams
  <2>2. end' = [end EXCEPT ![c][n] = b]
    <3>1. end' = Sent(opened, c, n, "eof")
      BY <1>3, Zenon DEF Accept
    <3>2. opened[c][n].st = "open" /\ opened[c][n] = [end[c][n] EXCEPT !.st = "open"]
      BY <1>1, <2>1, Zenon DEF Ends
    <3>3. end' = [opened EXCEPT ![c][n].in = Append(@, "eof")]
      BY <3>1, <3>2, Zenon DEF Sent
    <3> QED
      BY <3>3, <1>1, <1>3, <2>1, Zenon DEF Ends
  <2>3. /\ Append(<< >>, "eof") \in Seq(Frames) /\ Len(Append(<< >>, "eof")) = 1
        /\ Append(<< >>, "eof")[1] = "eof"
    BY EmptySeq, AppendProperties DEF Frames
  <2>4. b \in Ends /\ b.st = "open" /\ b.greeted = end[c][n].greeted
          /\ b.outbound = end[c][n].outbound /\ b.in = Append(<< >>, "eof")
    BY <1>1, <2>3, Zenon DEF Ends
  <2> HIDE DEF b
  <2>5. HelloBeforeRaft(b) /\ Heralded(b)
    BY <2>3, <2>4 DEF HelloBeforeRaft, Heralded
  <2>6. Streams([end EXCEPT ![c][n] = b])
        /\ \A d \in Conns, m \in Servers :
              [end EXCEPT ![c][n] = b][d][m] = IF d = c /\ m = n THEN b ELSE end[d][m]
    BY <1>3, <2>4, <2>5, PutEnd DEF LinkInv
  <2>7. \A d \in Conns, m \in Servers : ~(d = c /\ m = n) => Alike(end'[d][m], end[d][m])
    BY <2>2, <2>6 DEF Alike
  <2>8. Streams(end') /\ end'[c][n] = b
    BY <2>2, <2>6, Zenon
  <2> QED
    BY <1>1, <2>4, <2>7, <2>8, EndKeeps
<1> QED
  BY <1>2, <1>3, Zenon

LEMMA HelloKeeps ==
  ASSUME LinkInv, NEW c \in Conns, NEW n \in Servers, IsOpen(c, n), end[c][n].in # << >>, Hello(c, n)
  PROVE  LinkInv'
<1> DEFINE b == [end[c][n] EXCEPT !.in = Tail(@), !.greeted = TRUE]
           k == conn[n]
           rest == Rest(c, n)
<1>1. end \in [Conns -> [Servers -> Ends]] /\ end[c][n] \in Ends /\ end[c][n].st = "open"
  BY Zenon DEF LinkInv, Streams, IsOpen
<1>2. b \in Ends /\ b.st = "open" /\ b.greeted
  <2>1. Tail(end[c][n].in) \in Seq(Frames)
    BY <1>1, HeadTailProperties, Zenon DEF Ends
  <2> QED
    BY <1>1, <2>1, Zenon DEF Ends
<1>3. rest = Put(end, c, n, b)
  BY <1>1, Zenon DEF Rest, Put
<1> HIDE DEF b, rest
<1>4. /\ Streams(rest)
      /\ \A d \in Conns, m \in Servers : rest[d][m] = IF d = c /\ m = n THEN b ELSE end[d][m]
  BY <1>1, <1>2, <1>3, ReadFacts DEF LinkInv
<1>5. \A d \in Conns : d # 0
  BY LinksAssumption DEF Conns
<1>6. \A d \in Conns, m \in Servers : Tabled(end[d][m], d, conn[m], sock[m])
  BY Zenon DEF LinkInv
<1>7. ASSUME Keep(c, n), Streams(end'), end'[c][n].st = "open", end'[c][n].greeted,
             \A d \in Conns, m \in Servers :
               ~(m = n /\ d \in {c, k}) => Alike(end'[d][m], end[d][m]),
             k \notin {0, c} => end'[k][n].st = "closed"
      PROVE  LinkInv'
  <2>1. /\ conn' \in [Servers -> Conns \cup {0}] /\ sock' \in [Servers -> BOOLEAN]
        /\ \A m \in Servers : conn'[m] = IF m = n THEN c ELSE conn[m]
        /\ \A m \in Servers : sock'[m] = IF m = n THEN TRUE ELSE sock[m]
    BY <1>7, Zenon DEF LinkInv, Keep
  <2>2. ASSUME NEW d \in Conns, NEW m \in Servers
        PROVE  Tabled(end'[d][m], d, conn'[m], sock'[m])
    <3>1. CASE m # n
      <4>1. Alike(end'[d][m], end[d][m]) /\ conn'[m] = conn[m] /\ sock'[m] = sock[m]
        BY <3>1, <1>7, <2>1, Zenon
      <4> QED
        BY <4>1, <1>6, TabledAlike, Zenon
    <3>2. CASE m = n /\ d = c
      BY <3>2, <1>7, <2>1, Zenon DEF Tabled
    <3>3. CASE m = n /\ d # c /\ d = k
      BY <3>3, <1>5, <1>7, <2>1, Zenon DEF Tabled
    <3>4. CASE m = n /\ d # c /\ d # k
      BY <3>4, <1>6, <1>7, <2>1 DEF Tabled, Alike
    <3> QED
      BY <3>1, <3>2, <3>3, <3>4, Zenon
  <2> QED
    BY <1>5, <1>7, <2>1, <2>2, Zenon DEF LinkInv
<1>8. CASE Drop(c, n)
  BY <1>8, DropKeeps, Zenon
<1>9. CASE /\ ~end[c][n].greeted
           /\ Outbound(n, c) \/ k \in {0, c}
           /\ end' = rest /\ Keep(c, n)
  <2>1. k \in {0, c}
    BY <1>1, <1>6, <1>9, Zenon DEF Tabled, Outbound
  <2> QED
    BY <1>2, <1>4, <1>5, <1>7, <1>9, <2>1 DEF Alike
<1>10. CASE /\ k \notin {0, c}
            /\ end' = Closed(rest, k, n) /\ Keep(c, n)
  <2>1. k \in Conns
    BY <1>10, Zenon DEF LinkInv
  <2>2. /\ Streams(end') /\ end'[k][n].st = "closed"
        /\ \A d \in Conns, m \in Servers : ~(d = k /\ m = n) => Alike(end'[d][m], rest[d][m])
    <3>1. Streams(rest) /\ end' = Closed(rest, k, n)
      BY <1>4, <1>10, Zenon
    <3>2. PICK r, q : r = rest /\ q = k
      BY Zenon
    <3>3. Streams(r) /\ q \in Conns
      BY <2>1, <3>1, <3>2, Zenon
    <3>4. /\ Streams(Closed(r, q, n)) /\ Closed(r, q, n)[q][n].st = "closed"
          /\ \A d \in Conns, m \in Servers :
               ~(d = q /\ m = n) => Alike(Closed(r, q, n)[d][m], r[d][m])
      BY <3>3, ClosedFacts
    <3>5. end' = Closed(r, q, n)
      BY <3>1, <3>2, Zenon
    <3> QED
      BY <3>2, <3>4, <3>5, Zenon
  <2>3. end'[c][n].st = "open" /\ end'[c][n].greeted
    BY <1>2, <1>4, <1>10, <2>2 DEF Alike
  <2>4. \A d \in Conns, m \in Servers :
               ~(m = n /\ d \in {c, k}) => Alike(end'[d][m], end[d][m])
    BY <1>4, <2>2, Zenon
  <2> QED
    BY <1>7, <1>10, <2>2, <2>3, <2>4, Zenon
<1> QED
  BY <1>8, <1>9, <1>10, Zenon DEF Hello, rest

LEMMA ReceiveKeeps ==
  ASSUME LinkInv, NEW c \in Conns, NEW n \in Servers, Receive(c, n)
  PROVE  LinkInv'
<1>1. end \in [Conns -> [Servers -> Ends]] /\ end[c][n] \in Ends /\ end[c][n].in # << >>
  BY Zenon DEF LinkInv, Streams, Receive
<1>2. CASE IsOpen(c, n) /\ Hello(c, n)
  BY <1>1, <1>2, HelloKeeps, Zenon
<1>3. CASE IsOpen(c, n) /\ RaftFrame(c, n)
  <2>1. CASE ~end[c][n].greeted
    BY <1>3, <2>1, DropKeeps, Zenon DEF RaftFrame
  <2>2. CASE end[c][n].greeted
    <3> DEFINE b == [end[c][n] EXCEPT !.in = Tail(@)]
    <3>1. end' = Put(end, c, n, b) /\ UNCHANGED <<conn, sock>>
      BY <1>1, <1>3, <2>2, Zenon DEF RaftFrame, Put
    <3>2. Tail(end[c][n].in) \in Seq(Frames)
      BY <1>1, HeadTailProperties, Zenon DEF Ends
    <3>3. b \in Ends /\ Alike(b, end[c][n])
      BY <1>1, <3>2, Zenon DEF Ends, Alike
    <3> HIDE DEF b
    <3>4. /\ Streams(end')
          /\ \A d \in Conns, m \in Servers : end'[d][m] = IF d = c /\ m = n THEN b ELSE end[d][m]
      <4>1. Streams(end) /\ end[c][n].st = "open" /\ b.st = "open" /\ b.greeted
        BY <1>3, <2>2, <3>3, Zenon DEF LinkInv, Alike, IsOpen
      <4> QED
        BY <4>1, <3>1, <3>3, ReadFacts
    <3>5. \A d \in Conns, m \in Servers : Alike(end'[d][m], end[d][m])
      BY <3>3, <3>4, Zenon DEF Alike
    <3> QED
      <4>1. /\ Streams(end') /\ UNCHANGED <<conn, sock>>
            /\ end'[c][n].st = end[c][n].st /\ end'[c][n].greeted = end[c][n].greeted
            /\ end'[c][n].outbound = end[c][n].outbound
        BY <3>1, <3>4, <3>5, Zenon DEF Alike
      <4> QED
        BY <4>1, <3>5, EndKeeps, Zenon
  <2> QED
    BY <2>1, <2>2, Zenon
<1>4. CASE Drop(c, n)
  BY <1>4, DropKeeps, Zenon
<1> QED
  BY <1>2, <1>3, <1>4, Zenon DEF Receive

LEMMA SendKeeps ==
  ASSUME LinkInv, NEW n \in Servers, Send(n)
  PROVE  LinkInv'
<1> DEFINE c == conn[n]
<1>1. sock[n] /\ UNCHANGED <<conn, sock>>
  BY Zenon DEF Send, MaySend
<1>2. c \in Conns /\ Streams(end)
  BY <1>1, Zenon DEF LinkInv
<1>3. end[c][n].st = "open" /\ HelloSent(end[c][n], end[c][Other(n)])
  BY <1>1, <1>2 DEF LinkInv, Tabled, Streams
<1>4. ASSUME NEW m \in Servers, NEW f \in Frames, end' = Sent(end, c, m, f),
             f = "raft" => end[c][m].greeted \/ Heralded(end[c][m])
      PROVE  LinkInv'
  <2>1. /\ Streams(end')
        /\ \A d \in Conns, l \in Servers : Alike(end'[d][l], end[d][l])
    BY <1>2, <1>4, SentFacts, Zenon
  <2> QED
    BY <1>1, <1>2, <2>1, EndKeeps DEF Alike
<1>5. CASE end[c][Other(n)].st # "closed" /\ end' = Sent(end, c, Other(n), "raft")
  BY <1>3, <1>4, <1>5, OtherFacts, Zenon DEF Frames, HelloSent
<1>6. CASE end' = Sent(end, c, n, "eof")
  BY <1>4, <1>6, Zenon DEF Frames
<1> QED
  BY <1>5, <1>6, Zenon DEF Send

LEMMA ResetKeeps ==
  ASSUME LinkInv, NEW c \in Conns, Reset(c)
  PROVE  LinkInv'
<1> DEFINE f == [n \in Servers |-> IF end[c][n].st = "closed" THEN end[c][n]
                                   ELSE [end[c][n] EXCEPT !.in = <<"eof">>]]
<1>1. end \in [Conns -> [Servers -> Ends]] /\ end' = [end EXCEPT ![c] = f] /\ UNCHANGED <<conn, sock>>
  BY Zenon DEF LinkInv, Streams, Reset
<1>2. <<"eof">> \in Seq(Frames) /\ Len(<<"eof">>) = 1 /\ <<"eof">>[1] = "eof"
  BY DEF Frames
<1>3. \A n \in Servers : /\ f[n] \in Ends /\ Alike(f[n], end[c][n])
                         /\ f[n].st # "closed" => f[n].in = <<"eof">>
  <2> SUFFICES ASSUME NEW n \in Servers
               PROVE  /\ f[n] \in Ends /\ Alike(f[n], end[c][n])
                      /\ f[n].st # "closed" => f[n].in = <<"eof">>
    BY Zenon
  <2> DEFINE q == <<"eof">>
  <2>1. q \in Seq(Frames) /\ end[c][n] \in Ends
    BY <1>1, <1>2, Zenon
  <2> HIDE DEF q
  <2>2. CASE end[c][n].st = "closed"
    BY <2>1, <2>2, Zenon DEF Alike
  <2>3. CASE end[c][n].st # "closed"
    <3> DEFINE b == [end[c][n] EXCEPT !.in = q]
    <3>1. f[n] = b
      BY <2>3, Zenon DEF q
    <3>2. b \in Ends /\ Alike(b, end[c][n]) /\ b.in = q
      BY <2>1, Zenon DEF Ends, Alike
    <3> QED
      BY <3>1, <3>2, Zenon DEF q
  <2> QED
    BY <2>2, <2>3, Zenon
<1>4. f \in [Servers -> Ends]
  BY <1>3, Zenon
<1> HIDE DEF f
<1>5. \A n \in Servers : HelloBeforeRaft(f[n]) /\ (f[n].st # "closed" => Heralded(f[n]))
  BY <1>2, <1>3 DEF HelloBeforeRaft, Heralded
<1>6. \A n \in Servers : HelloSent(f[n], f[Other(n)])
  BY <1>5, OtherFacts, Zenon DEF HelloSent
<1>7. Streams(end')
  BY <1>1, <1>4, <1>5, <1>6, PutConn, Zenon DEF LinkInv
<1>8. \A d \in Conns : end'[d] = IF d = c THEN f ELSE end[d]
  BY <1>1, Zenon
<1>9. \A d \in Conns, m \in Servers : Alike(end'[d][m], end[d][m])
  BY <1>3, <1>8, Zenon DEF Alike
<1>10. 1 \in Servers
  BY Zenon DEF Servers
<1> QED
  <2>1. /\ UNCHANGED <<conn, sock>> /\ end'[c][1].st = end[c][1].st
        /\ end'[c][1].greeted = end[c][1].greeted /\ end'[c][1].outbound = end[c][1].outbound
    BY <1>1, <1>9, <1>10, Zenon DEF Alike
  <2> QED
    BY <1>7, <1>9, <1>10, <2>1, EndKeeps, Zenon

LEMMA RestartKeeps ==
  ASSUME LinkInv, NEW n \in Servers, Restart(n)
  PROVE  LinkInv'
<1>1. PICK told \in BOOLEAN :
         end' = [c \in Conns |->
                   [m \in Servers |->
                      IF m = n THEN NoEnd
                      ELSE IF told /\ end[c][n].st # "closed" /\ end[c][m].st # "closed"
                             THEN [end[c][m] EXCEPT !.in = Append(@, "eof")]
                             ELSE end[c][m]]]
  BY Zenon DEF Restart
<1>2. \A c \in Conns, m \in Servers : end[c][m] \in Ends /\ HelloBeforeRaft(end[c][m])
  BY Zenon DEF LinkInv, Streams
<1>3. ASSUME NEW c \in Conns, NEW m \in Servers
      PROVE  /\ end'[c][m] \in Ends /\ HelloBeforeRaft(end'[c][m])
             /\ m = n => end'[c][m] = NoEnd
             /\ m # n => Alike(end'[c][m], end[c][m])
  <2> DEFINE b == [end[c][m] EXCEPT !.in = Append(end[c][m].in, "eof")]
  <2>1. b \in Ends /\ HelloBeforeRaft(b) /\ Alike(b, end[c][m])
    BY <1>2, AppendFrame, Zenon DEF Frames, Alike
  <2>2. end'[c][m] = IF m = n THEN NoEnd
                     ELSE IF told /\ end[c][n].st # "closed" /\ end[c][m].st # "closed"
                            THEN b ELSE end[c][m]
    BY <1>1, Zenon
  <2> HIDE DEF b
  <2> QED
    BY <1>2, <2>1, <2>2, NoEndFacts, Zenon DEF Alike
<1>4. end' \in [Conns -> [Servers -> Ends]]
  <2>1. \A c \in Conns : end'[c] \in [Servers -> Ends]
    <3> SUFFICES ASSUME NEW c \in Conns PROVE end'[c] \in [Servers -> Ends]
      BY Zenon
    <3>1. \A m \in Servers : end'[c][m] \in Ends
      BY <1>3, Zenon
    <3>2. end'[c] = [m \in Servers |-> end'[c][m]]
      BY <1>1, Zenon
    <3> QED
      BY <3>1, <3>2, Zenon
  <2>2. end' = [c \in Conns |-> end'[c]]
    BY <1>1, Zenon
  <2> QED
    BY <2>1, <2>2, Zenon
<1>5. Streams(end')
  BY <1>3, <1>4, OtherFacts, NoEndFacts DEF Streams, HelloSent
<1>6. /\ conn' \in [Servers -> Conns \cup {0}] /\ sock' \in [Servers -> BOOLEAN]
      /\ \A m \in Servers : conn'[m] = IF m = n THEN 0 ELSE conn[m]
      /\ \A m \in Servers : sock'[m] = IF m = n THEN FALSE ELSE sock[m]
  BY Zenon DEF LinkInv, Restart
<1>7. \A c \in Conns : c # 0
  BY LinksAssumption DEF Conns
<1>8. ASSUME NEW d \in Conns, NEW m \in Servers
      PROVE  Tabled(end'[d][m], d, conn'[m], sock'[m])
  <2>1. CASE m = n
    BY <2>1, <1>3, <1>6, <1>7, NoEndFacts, Zenon DEF Tabled
  <2>2. CASE m # n
    <3>1. Alike(end'[d][m], end[d][m]) /\ conn'[m] = conn[m] /\ sock'[m] = sock[m]
      BY <2>2, <1>3, <1>6, Zenon
    <3>2. Tabled(end[d][m], d, conn[m], sock[m])
      BY Zenon DEF LinkInv
    <3> QED
      BY <3>1, <3>2, TabledAlike, Zenon
  <2> QED
    BY <2>1, <2>2, Zenon
<1> QED
  BY <1>5, <1>6, <1>8, Zenon DEF LinkInv

-----------------------------------------------------------------------------
(* The theorems. *)

LEMMA LinkInvNext == LinkInv /\ [LinkNext]_lvars => LinkInv'
<1> SUFFICES ASSUME LinkInv, [LinkNext]_lvars PROVE LinkInv'
  BY Zenon
<1>1. CASE \E n \in Servers : ReconnectInTime(n) \/ ReconnectEarly(n)
  BY <1>1, ReconnectKeeps, Zenon DEF ReconnectInTime, ReconnectEarly
<1>2. CASE \E n \in Servers : Send(n)
  BY <1>2, SendKeeps, Zenon
<1>3. CASE \E n \in Servers : Restart(n)
  BY <1>3, RestartKeeps, Zenon
<1>4. CASE UNCHANGED <<end, conn, sock>>
  BY <1>4, Zenon DEF LinkInv
<1>5. CASE \E c \in Conns : Reset(c)
  BY <1>5, ResetKeeps, Zenon
<1>6. CASE \E c \in Conns, n \in Servers : Connect(c, n)
  BY <1>6, ConnectKeeps, Zenon
<1>7. CASE \E c \in Conns, n \in Servers : Accept(c, n)
  BY <1>7, AcceptKeeps, Zenon
<1>8. CASE \E c \in Conns, n \in Servers : Receive(c, n)
  BY <1>8, ReceiveKeeps, Zenon
<1> QED
  BY <1>1, <1>2, <1>3, <1>4, <1>5, <1>6, <1>7, <1>8, Zenon DEF LinkNext, lvars, ChangeView

LEMMA LinkInvAlways == LinkSpec => []LinkInv
  BY LinkInvInit, LinkInvNext, PTL DEF LinkSpec

\* k_server_peer_frame and k_server_reconnect keep one connection per peer, and k_conn_closed leaves no
\* socket in peer_socks that is not the open, greeted connection of the table, whatever dials cross and
\* whatever is lost.
THEOREM LinkSound == LinkSpec => []OneLiveLink
<1>1. LinkInv => OneLiveLink
  BY DEF LinkInv, OneLiveLink, SockIsLive, OneLink, Tabled, IsOpen, Outbound
<1> QED
  BY <1>1, LinkInvAlways, PTL

\* No server reads a Raft message on a connection whose peer has not greeted it (k_server_peer_frame
\* would close it).
THEOREM HelloFirst == LinkSpec => []GreetedFirst
<1>1. LinkInv => GreetedFirst
  <2> SUFFICES ASSUME LinkInv, NEW c \in Conns, NEW n \in Servers, IsOpen(c, n),
                      end[c][n].in # << >>, Head(end[c][n].in) = "raft", ~end[c][n].greeted
               PROVE  FALSE
    BY Zenon DEF GreetedFirst
  <2>1. end[c][n].in \in Seq(Frames) /\ HelloBeforeRaft(end[c][n])
    BY Zenon DEF LinkInv, Streams, Ends
  <2>2. 1 \in 1 .. Len(end[c][n].in) /\ end[c][n].in[1] = "raft"
    BY <2>1
  <2> QED
    BY <2>1, <2>2 DEF HelloBeforeRaft, IsOpen
<1> QED
  BY <1>1, LinkInvAlways, PTL
=============================================================================
