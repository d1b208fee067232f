------------------------------- MODULE Links -------------------------------
(***************************************************************************)
(* The peer links of kserver.h: how two servers come to hold the two ends  *)
(* of one TCP connection.  A server dials its peer from a timer            *)
(* (k_server_reconnect), both ends greet each other with a HELLO frame, and *)
(* only a greeted connection carries Raft messages.  Either server may     *)
(* dial: the one with the lower id always does, the other one while its    *)
(* peer is a target it still has to catch up.  Two dials can cross, a dial *)
(* can hang half open, and each side learns of a lost connection in its    *)
(* own time.                                                               *)
(*                                                                         *)
(* The address book has one slot per peer and the slots do not interact,   *)
(* so the module has two servers, 1 and 2, and one slot in each.           *)
(***************************************************************************)
EXTENDS Naturals, Sequences, FiniteSets

CONSTANTS
    MaxConns,   \* TCP connections that exist at one time
    MaxFaults,  \* lost connections, crashes, and timers that fire early
    MaxViews    \* membership changes the servers see

ASSUME LinksAssumption ==
    MaxConns \in Nat \ {0} /\ MaxFaults \in Nat /\ MaxViews \in Nat

Servers == {1, 2}
Other(n) == 3 - n
Conns == 1..MaxConns

VARIABLES
    end,     \* the two ends of each connection: a k_conn, and what is on its way to it
    conn,    \* peer_conns[peer]: the connection a server keeps for its peer, or 0
    sock,    \* peer_socks[peer] is set: Raft messages are sent on that connection
    view,    \* what a server's membership says of its peer
    faults,  \* how many faults have happened
    views    \* how many membership changes have happened

lvars == <<end, conn, sock, view, faults, views>>

(***************************************************************************)
(* A server's view of its peer:                                            *)
(*   "alone"     it is bootstrapping: it has no member but itself           *)
(*   "pending"   the peer is a catch-up target, or was named by an ADDR     *)
(*               entry whose configuration has not been applied yet         *)
(*   "member"    the peer is a voter or a learner                          *)
(*   "stranger"  it has other members, and the peer is none of them         *)
(*   "standby"   the server itself was removed (k_server_silent_standby)    *)
(***************************************************************************)
Views == {"alone", "pending", "member", "stranger", "standby"}

NoEnd == [st |-> "closed", outbound |-> FALSE, greeted |-> FALSE, in |-> <<>>]

Linked == /\ \A n \in Servers : sock[n]
          /\ conn[1] = conn[2]

Outbound(n, c) == end[c][n].outbound

\* Two members of a cluster, or a leader that adds a server with an id lower than its own.
LinkInit ==
    /\ end = [c \in Conns |-> [n \in Servers |-> NoEnd]]
    /\ conn = [n \in Servers |-> 0]
    /\ sock = [n \in Servers |-> FALSE]
    /\ view \in {<<"member", "member">>, <<"alone", "pending">>}
    /\ faults = 0
    /\ views = 0

(***************************************************************************)
(* The transport.                                                          *)
(***************************************************************************)
IsOpen(c, n) == end[c][n].st = "open"

\* A frame (or the end of the stream) on its way to n: nothing reaches an end that is closed.
Sent(e, c, n, frame) ==
    IF e[c][n].st = "closed" THEN e ELSE [e EXCEPT ![c][n].in = Append(@, frame)]

\* transport->close: the end is gone at once, and the peer reads the end of the stream later.
Closed(e, c, n) == Sent([e EXCEPT ![c][n] = NoEnd], c, Other(n), "eof")

\* The close events are delivered inside close: k_conn_closed takes the connection out of the table.
Forget(n, c) ==
    /\ conn' = [conn EXCEPT ![n] = IF @ = c THEN 0 ELSE @]
    /\ sock' = [sock EXCEPT ![n] = @ /\ conn[n] # c]

\* A handler that fails, and the end of the stream: the connection is closed and forgotten.
Drop(c, n) ==
    /\ end' = Closed(end, c, n)
    /\ Forget(n, c)

(***************************************************************************)
(* The dial timer.                                                         *)
(***************************************************************************)
\* Up the id order, or towards a catch-up target whatever its id.
Dials(n) == view[n] = "pending" \/ (view[n] = "member" /\ Other(n) > n)

\* An accepted connection whose dialer lost power before greeting: no event will ever come on it, it is
\* in no table, and no timer closes it.
Leaked(c, n) == /\ IsOpen(c, n) /\ ~end[c][n].greeted /\ end[c][n].in = <<>>
                /\ end[c][Other(n)].st = "closed" /\ conn[n] # c

\* The names a new connection may take: those of connections nothing can happen to any more.
Reusable == {c \in Conns : \A n \in Servers : end[c][n].st = "closed" \/ Leaked(c, n)}

\* Mutant: a dial whose HELLO never arrived is taken for a link.
RedialsIfNone(n) == Dials(n) /\ ~sock[n] /\ conn[n] = 0

Redials(n) == Dials(n) /\ ~sock[n]

\* k_server_reconnect: a connection to a stranger is dropped; a peer without a greeted connection is
\* dialed, and a half-open connection is closed first.
Reconnect(n) ==
    \/ /\ view[n] = "stranger"
       /\ conn[n] # 0
       /\ Drop(conn[n], n)
    \/ /\ Redials(n)
       /\ Reusable # {}
       /\ LET c == CHOOSE x \in Reusable : TRUE
              cleared == IF conn[n] = 0 THEN end ELSE Closed(end, conn[n], n)
          IN /\ end' = [cleared EXCEPT ![c][n] = [NoEnd EXCEPT !.st = "dialing", !.outbound = TRUE],
                                       ![c][Other(n)] = [NoEnd EXCEPT !.st = "backlog"]]
             /\ conn' = [conn EXCEPT ![n] = c]
             /\ sock' = [sock EXCEPT ![n] = FALSE]

\* Something is still on its way to an end of the connection, or it has not been accepted yet.
Busy(c) == \E m \in Servers : end[c][m].st \in {"dialing", "backlog"} \/ end[c][m].in # <<>>

\* The timer (100 ms) leaves a handshake the time it needs ...
ReconnectInTime(n) ==
    /\ conn[n] # 0 /\ view[n] # "stranger" => ~Busy(conn[n])
    /\ Reconnect(n)
    /\ UNCHANGED <<view, faults, views>>

\* ... except when the network or a server is slow.
ReconnectEarly(n) ==
    /\ conn[n] # 0 /\ view[n] # "stranger" /\ Busy(conn[n])
    /\ faults < MaxFaults
    /\ faults' = faults + 1
    /\ Reconnect(n)
    /\ UNCHANGED <<view, views>>

(***************************************************************************)
(* The handshake.                                                          *)
(***************************************************************************)
\* k_server_peer_dialed (the CONNECT event): the dialer greets first.
Connect(c, n) ==
    /\ end[c][n].st = "dialing"
    /\ end[c][n].in # <<"eof">>
    /\ end' = Sent([end EXCEPT ![c][n].st = "open"], c, Other(n), "hello")
    /\ UNCHANGED <<conn, sock, view, faults, views>>

\* k_server_peer_accepted: the acceptor greets too; greeting a dialer that is gone reports it.
Accept(c, n) ==
    /\ end[c][n].st = "backlog"
    /\ LET opened == [end EXCEPT ![c][n].st = "open"]
           gone == end[c][Other(n)].st = "closed" /\ end[c][n].in = <<>>
       IN end' = IF gone THEN Sent(opened, c, n, "eof") ELSE Sent(opened, c, Other(n), "hello")
    /\ UNCHANGED <<conn, sock, view, faults, views>>

\* The peer was greeted: this is its connection now, and Raft messages go out on it.
Keep(c, n) ==
    /\ conn' = [conn EXCEPT ![n] = c]
    /\ sock' = [sock EXCEPT ![n] = TRUE]

Rest(c, n) == [end EXCEPT ![c][n].in = Tail(@), ![c][n].greeted = TRUE]

\* "Lower id's up-dial wins": an inbound connection loses only to this server's own dial of a higher id.
Loses(c, n) == conn[n] \notin {0, c} /\ Outbound(n, conn[n]) /\ Other(n) >= n

\* Mutant: the connection that is given up is not closed.
HelloKeepsOld(c, n) ==
    \/ /\ end[c][n].greeted \/ (~Outbound(n, c) /\ Loses(c, n))
       /\ Drop(c, n)
    \/ /\ ~end[c][n].greeted
       /\ Outbound(n, c) \/ ~Loses(c, n)
       /\ end' = Rest(c, n)
       /\ Keep(c, n)

\* k_server_peer_frame, HELLO.
Hello(c, n) ==
    \/ /\ end[c][n].greeted \/ (~Outbound(n, c) /\ Loses(c, n))
       /\ Drop(c, n)
    \/ /\ ~end[c][n].greeted
       /\ Outbound(n, c) \/ conn[n] \in {0, c}
       /\ end' = Rest(c, n)
       /\ Keep(c, n)
    \/ /\ ~end[c][n].greeted
       /\ ~Outbound(n, c) /\ conn[n] \notin {0, c} /\ ~Loses(c, n)
       /\ end' = Closed(Rest(c, n), conn[n], n)
       /\ Keep(c, n)

\* k_server_peer_frame, RAFT: only from a peer that has been greeted.
RaftFrame(c, n) ==
    IF end[c][n].greeted
      THEN /\ end' = [end EXCEPT ![c][n].in = Tail(@)]
           /\ UNCHANGED <<conn, sock>>
      ELSE Drop(c, n)

\* k_server_peer_io: a frame, the end of the stream, or a dial that failed.
Receive(c, n) ==
    /\ end[c][n].in # <<>>
    /\ LET head == Head(end[c][n].in)
       IN \/ IsOpen(c, n) /\ head = "hello" /\ Hello(c, n)
          \/ IsOpen(c, n) /\ head = "raft" /\ RaftFrame(c, n)
          \/ end[c][n].st \in {"open", "dialing"} /\ head = "eof" /\ Drop(c, n)
    /\ UNCHANGED <<view, faults, views>>

HasFrame(c, n, frame) == \E i \in DOMAIN end[c][n].in : end[c][n].in[i] = frame

\* Mutant: a message is sent as soon as there is a connection.
MaySendOnConn(n) == conn[n] # 0

MaySend(n) == sock[n]

\* k_server_send_ready_message: a Raft message, or the report that the peer's host no longer knows the
\* connection.  At most one message is on its way.
Send(n) ==
    LET c == conn[n]
    IN /\ MaySend(n)
       /\ end[c][n].st # "closed"
       /\ \/ /\ end[c][Other(n)].st # "closed"
             /\ ~HasFrame(c, Other(n), "raft") /\ ~HasFrame(c, Other(n), "eof")
             /\ end' = Sent(end, c, Other(n), "raft")
          \/ /\ end[c][Other(n)].st = "closed"
             /\ ~HasFrame(c, n, "eof")
             /\ end' = Sent(end, c, n, "eof")
       /\ UNCHANGED <<conn, sock, view, faults, views>>

(***************************************************************************)
(* What goes wrong, and what changes.                                      *)
(***************************************************************************)
\* The network resets a connection; what was on its way is lost, and each side learns it later.
Reset(c) ==
    /\ faults < MaxFaults
    /\ c \notin Reusable
    /\ end' = [end EXCEPT ![c] = [n \in Servers |->
                 IF @[n].st = "closed" THEN @[n] ELSE [@[n] EXCEPT !.in = <<"eof">>]]]
    /\ faults' = faults + 1
    /\ UNCHANGED <<conn, sock, view, views>>

\* A server stops and starts again with an empty table.  When its process dies the peer reads the end
\* of every stream; when its host loses power the peer is told nothing.  A catch-up target is pending
\* again only if the ADDR entry is replayed.
Restart(n) ==
    /\ faults < MaxFaults
    /\ \E told \in BOOLEAN :
         end' = [c \in Conns |->
                   [m \in Servers |->
                      IF m = n THEN NoEnd
                      ELSE IF told /\ end[c][n].st # "closed" /\ end[c][m].st # "closed"
                             THEN [end[c][m] EXCEPT !.in = Append(@, "eof")]
                             ELSE end[c][m]]]
    /\ conn' = [conn EXCEPT ![n] = 0]
    /\ sock' = [sock EXCEPT ![n] = FALSE]
    /\ view' \in {view} \cup {[view EXCEPT ![n] = "stranger"] : m \in {k \in {n} : view[k] = "pending"}}
    /\ faults' = faults + 1
    /\ UNCHANGED <<views>>

\* What the apply path and the result of a change make of the view: an ADDR entry, a configuration
\* that takes the peer in or leaves it out, a catch-up that failed, the removal of the server itself.
\* A server that knows nobody is taken in only once it has caught up, over its link.
Sees(n, new) ==
    CASE view[n] = "alone" -> new \in {"pending", "member"}
      [] view[n] = "pending" -> \/ new = "member" /\ (view[Other(n)] = "alone" => Linked)
                                \/ new = "stranger"
      [] view[n] = "member" -> \/ new = "stranger"
                               \/ new = "standby" /\ view[Other(n)] # "pending"
      [] view[n] = "stranger" -> new = "pending"
      [] view[n] = "standby" -> new = "member"

ChangeView(n) ==
    /\ views < MaxViews
    /\ \E new \in Views : Sees(n, new) /\ view' = [view EXCEPT ![n] = new]
    /\ views' = views + 1
    /\ UNCHANGED <<end, conn, sock, faults>>

LinkNext ==
    \/ \E n \in Servers : \/ ReconnectInTime(n) \/ ReconnectEarly(n) \/ Send(n)
                          \/ Restart(n) \/ ChangeView(n)
    \/ \E c \in Conns : Reset(c)
    \/ \E c \in Conns, n \in Servers : Connect(c, n) \/ Accept(c, n) \/ Receive(c, n)

\* The timer keeps firing, the transport delivers, and the Raft of a server that has a configuration
\* keeps sending (the heartbeats of a leader, the pre-votes of a server that hears none).
LinkFair ==
    /\ \A n \in Servers :
         /\ WF_lvars(ReconnectInTime(n))
         /\ WF_lvars(view[n] \in {"pending", "member"} /\ Send(n))
    /\ \A c \in Conns, n \in Servers :
         WF_lvars(Connect(c, n)) /\ WF_lvars(Accept(c, n)) /\ WF_lvars(Receive(c, n))

LinkSpec == LinkInit /\ [][LinkNext]_lvars /\ LinkFair

(***************************************************************************)
(* Properties.                                                             *)
(***************************************************************************)
\* A socket Raft messages are sent on belongs to the connection in the table, which is open and was
\* greeted: "a stale handle is a hard crash, not an error code" (k_conn_closed).
SockIsLive == \A n \in Servers : sock[n] =>
    conn[n] # 0 /\ IsOpen(conn[n], n) /\ end[conn[n]][n].greeted

\* Dials that cross, dials that are repeated and inbound connections never leave a server with a
\* second connection: whatever it has dialed and whatever greeted it is the one in the table, so no
\* connection escapes the timer that prunes and re-dials (k_server_peer_frame, k_server_reconnect).
OneLink == \A c \in Conns, n \in Servers :
    end[c][n].st # "closed" /\ (end[c][n].greeted \/ Outbound(n, c))
        => conn[n] = c

\* The table of connections is sound: one connection to the peer, and a live socket on it.
OneLiveLink == SockIsLive /\ OneLink

\* Whatever the two sides know of the handshake, a Raft message is never read before the HELLO of its
\* sender, which would close the connection (k_server_peer_frame).
GreetedFirst == \A c \in Conns, n \in Servers :
    IsOpen(c, n) /\ end[c][n].in # <<>> /\ Head(end[c][n].in) = "raft" => end[c][n].greeted

Wanted == /\ \E n \in Servers : Dials(n)
          /\ \A n \in Servers : view[n] \notin {"stranger", "standby"}

\* As long as one of the servers dials and neither is a stranger or out of service, they end up with the
\* two ends of one connection and keep it: no order of crossing dials, lost connections, crashes and
\* early timers strands a peer half connected (the comments of k_server_peer_frame and
\* k_server_reconnect).
LinkUp == <>[](Wanted => Linked)

\* A server that was removed "must stop dialing former peers [...] but keep listening", and "re-adding
\* re-enters" service (k_server_silent_standby): the one that adds it again reaches it.
StandbyReached == <>[](view = <<"standby", "pending">> => Linked)

\* "the leader contacts the added server; a static 'lower dials higher' rule would orphan a lower-id new
\* node" (k_server_reconnect): a server that has been added is reached, before and after it graduates.
AddedReached == <>[](view[1] = "alone" /\ view[2] \in {"pending", "member"} => Linked)
=============================================================================
