------------------------------- MODULE Client -------------------------------
(***************************************************************************)
(* The client state machine (kclient.h): requests in flight, redirects,    *)
(* retries, timeouts, failover between endpoints, discovery of members.    *)
(*                                                                         *)
(* The cluster is external: a host that leads executes what reaches it,    *)
(* another one names the leader if there is one.  Hosts crash and come     *)
(* back, the leader moves, connections break and answers get lost.  Time   *)
(* passes in ticks of one retry delay (K_CLIENT_RETRY_MS).                 *)
(***************************************************************************)
EXTENDS Integers, Sequences, FiniteSets, SequencesExt

CONSTANTS Hosts, NoHost,
          Seeds,         \* the endpoints the client is given, in order
          Members,       \* the endpoints a MEMBERS answer names, in order
          MaxRequests,   \* bound: commands the user enters
          Limit,         \* inflight_limit
          RetryMax,      \* K_CLIENT_RETRY_MAX
          Timeout,       \* K_CLIENT_REQUEST_TIMEOUT_MS, in ticks
          MaxFaults      \* bound: crashes, leader changes, broken connections, lost or failed answers

ASSUME ClientAssumption ==
  /\ NoHost \notin Hosts /\ Range(Seeds) \subseteq Hosts /\ Range(Members) \subseteq Hosts
  /\ MaxRequests \in Nat /\ Limit \in Nat \ {0} /\ RetryMax \in Nat /\ Timeout \in Nat \ {0} /\ MaxFaults \in Nat

VARIABLES app,       \* the client and its connection
          up, leader, runs,   \* the cluster: hosts that run, who leads, how often a request ran
          faults

cvars == <<app, up, leader, runs, faults>>

Ids == 1 .. MaxRequests
Discovery == 0       \* the id of the MEMBERS query a connection starts with

ClientInit ==
  /\ app = [sock |-> "connecting", connected |-> FALSE, hosts |-> Seeds, at |-> 1,
            pend |-> <<>>, next |-> 1, discovering |-> FALSE, flush |-> FALSE,
            reconnect |-> FALSE, preserve |-> FALSE, retry |-> FALSE, delay |-> 0, count |-> 0,
            sent |-> <<>>, answers |-> <<>>, result |-> [i \in Ids |-> "none"], cut |-> FALSE]
  /\ up = Hosts /\ leader \in Hosts /\ runs = [i \in Ids |-> 0] /\ faults = 0

Fault == faults < MaxFaults /\ faults' = faults + 1

(***************************************************************************)
(* The parts of the client.                                                *)
(***************************************************************************)
Waiting(s) == {s.pend[k].id : k \in DOMAIN s.pend}

\* Requests leave the list with a result; the end of a discovery clears its flag.
Finish(s, ids, status) ==
  [s EXCEPT !.pend = SelectSeq(@, LAMBDA p : p.id \notin ids),
            !.result = [i \in Ids |-> IF i \in ids THEN status ELSE @[i]],
            !.discovering = @ /\ Discovery \notin ids]

MarkAllUnsent(s) == [s EXCEPT !.pend = [k \in DOMAIN @ |-> [@[k] EXCEPT !.sent = FALSE]]]

MayRetry(s) == s.count < RetryMax
RetryArm(s) == [s EXCEPT !.count = @ + 1, !.delay = 1, !.retry = TRUE]

\* k_client_send_pending
SendPending(s) ==
  IF s.sock = "none" \/ ~s.connected THEN s
  ELSE LET new == SelectSeq(s.pend, LAMBDA p : ~p.sent)
       IN  [s EXCEPT !.sent = @ \o [k \in DOMAIN new |-> new[k].id],
                     !.pend = [k \in DOMAIN @ |-> [@[k] EXCEPT !.sent = TRUE]]]

\* k_client_queue and k_client_append_pending.  cut is history: a retry that was to connect is gone.
AppendPending(s, id) ==
  [s EXCEPT !.pend = Append(@, [id |-> id, sent |-> FALSE, left |-> Timeout]),
            !.cut = @ \/ (s.retry /\ s.sock = "none"), !.count = 0, !.retry = FALSE,
            !.flush = @ \/ s.connected]

Discover(s) ==
  IF s.pend # <<>> \/ s.discovering THEN s
  ELSE [AppendPending(s, Discovery) EXCEPT !.discovering = TRUE]

OnConnected(s) ==
  Discover([MarkAllUnsent(s) EXCEPT !.sock = "open", !.connected = TRUE, !.preserve = FALSE, !.flush = TRUE])

\* k_client_on_closed: what was in flight fails, unless a redirect keeps it; the next endpoint is tried.
OnClosed(s) ==
  LET t == IF s.preserve \/ s.pend = <<>> THEN s
           ELSE [Finish(s, Waiting(s), "failed") EXCEPT !.retry = FALSE, !.count = 0]
  IN  [t EXCEPT !.sock = "none", !.connected = FALSE, !.sent = <<>>, !.answers = <<>>, !.preserve = FALSE,
                !.at = IF s.reconnect THEN @ ELSE (@ % Len(s.hosts)) + 1, !.reconnect = TRUE]

\* Both give-up branches of k_client_poll.
GiveUp(s) == [s EXCEPT !.pend = <<>>, !.cut = TRUE,
                       !.result = [i \in Ids |-> IF i \in Waiting(s) THEN "given up" ELSE @[i]]]

\* k_client_connect, which fails at once or does not, and what follows a failure.
Connect(s, ok) ==
  IF ok THEN [s EXCEPT !.sock = "connecting"] ELSE IF MayRetry(s) THEN RetryArm(s) ELSE GiveUp(s)

\* k_client_apply_members: the seeds, then the members that are not among them.
ApplyMembers(s) == [s EXCEPT !.hosts = Seeds \o SelectSeq(Members, LAMBDA h : h \notin Range(Seeds))]

\* An answer is taken for the first request in the list.
ResponseInOrder(s, m) ==
  IF s.pend = <<>> \/ m.status = "redirect" THEN s ELSE Finish(s, {s.pend[1].id}, m.status)

\* k_client_response_frame
ResponseFrame(s, m) ==
  LET i == IF m.leader \in Range(s.hosts) THEN CHOOSE k \in DOMAIN s.hosts : s.hosts[k] = m.leader ELSE 0
  IN  IF m.id \notin Waiting(s) THEN s
      ELSE IF m.status = "redirect" /\ m.leader # NoHost
      THEN [MarkAllUnsent(s) EXCEPT !.hosts = IF i = 0 THEN Append(@, m.leader) ELSE @,
                                    !.at = IF i = 0 THEN Len(s.hosts) + 1 ELSE i,
                                    !.preserve = TRUE, !.reconnect = TRUE]
      ELSE IF m.status = "redirect" /\ MayRetry(s)
      THEN [RetryArm(s) EXCEPT !.pend = [k \in DOMAIN @ |-> IF @[k].id = m.id THEN [@[k] EXCEPT !.sent = FALSE] ELSE @[k]]]
      ELSE Finish(IF m.status = "ok" /\ m.id = Discovery THEN ApplyMembers(s) ELSE s, {m.id}, m.status)

(***************************************************************************)
(* The steps of the client.                                                *)
(***************************************************************************)
\* k_client_queue from the command line: refused while the list is full.
Queue ==
  /\ app.next <= MaxRequests /\ Len(app.pend) < Limit
  /\ app' = AppendPending([app EXCEPT !.next = @ + 1], app.next)
  /\ UNCHANGED <<up, leader, runs, faults>>

\* The sweep of expired requests looks only at what was sent.
SweepSent(s) == Finish(s, {s.pend[k].id : k \in {k \in DOMAIN s.pend : s.pend[k].left = 0 /\ s.pend[k].sent}}, "timeout")

Sweep(s) == Finish(s, {s.pend[k].id : k \in {k \in DOMAIN s.pend : s.pend[k].left = 0}}, "timeout")

\* k_client_poll, with the outcome of a connect.
Polled(s, ok) ==
  LET a == IF ~s.reconnect THEN s
           ELSE IF s.sock # "none" THEN OnClosed(s)
           ELSE Connect([s EXCEPT !.reconnect = FALSE], ok)
      b == Sweep(a)
      c == IF ~b.retry \/ b.delay > 0 THEN b
           ELSE IF b.sock # "none" THEN SendPending([b EXCEPT !.retry = FALSE])
           ELSE Connect([b EXCEPT !.retry = FALSE], ok)
  IN  IF c.flush THEN SendPending([c EXCEPT !.flush = FALSE]) ELSE c

Poll ==
  /\ \E ok \in BOOLEAN : (app.hosts[app.at] \in up => ok) /\ app' = Polled(app, ok)
  /\ UNCHANGED <<up, leader, runs, faults>>

Tick ==
  /\ app' = [app EXCEPT !.delay = IF @ > 0 THEN @ - 1 ELSE 0,
                        !.pend = [k \in DOMAIN @ |-> [@[k] EXCEPT !.left = IF @ > 0 THEN @ - 1 ELSE 0]]]
  /\ UNCHANGED <<up, leader, runs, faults>>

\* CEMON_CONNECT, or CEMON_CLOSED for a connection that could not be made.
Connected ==
  /\ app.sock = "connecting"
  /\ app' = IF app.hosts[app.at] \in up THEN OnConnected(app) ELSE OnClosed(app)
  /\ UNCHANGED <<up, leader, runs, faults>>

Receive ==
  /\ app.answers # <<>>
  /\ app' = ResponseFrame([app EXCEPT !.answers = Tail(@)], Head(app.answers))
  /\ UNCHANGED <<up, leader, runs, faults>>

\* The connection breaks.
Broken ==
  /\ app.sock = "open" /\ app' = OnClosed(app)
  /\ Fault /\ UNCHANGED <<up, leader, runs>>

(***************************************************************************)
(* The cluster.                                                            *)
(***************************************************************************)
Answered(status, to) == [app EXCEPT !.sent = Tail(@),
                                    !.answers = Append(@, [id |-> Head(app.sent), status |-> status, leader |-> to])]
Executed == runs' = [i \in Ids |-> IF i = Head(app.sent) THEN runs[i] + 1 ELSE runs[i]]

Serve ==
  LET here == app.hosts[app.at]
  IN  /\ app.sock = "open" /\ app.sent # <<>> /\ here \in up
      /\ IF here = leader THEN app' = Answered("ok", NoHost) /\ Executed
         ELSE app' = Answered("redirect", leader) /\ UNCHANGED runs
      /\ UNCHANGED <<up, leader, faults>>

\* A request runs and its answer is lost, or it is refused.
ServeBadly ==
  /\ app.sock = "open" /\ app.sent # <<>> /\ app.hosts[app.at] = leader
  /\ \/ app' = [app EXCEPT !.sent = Tail(@)] /\ Executed
     \/ app' = Answered("error", NoHost) /\ UNCHANGED runs
  /\ Fault /\ UNCHANGED <<up, leader>>

Crash(h) ==
  /\ h \in up /\ up' = up \ {h}
  /\ leader' = IF leader = h THEN NoHost ELSE leader
  /\ app' = IF app.sock = "open" /\ app.hosts[app.at] = h THEN OnClosed(app) ELSE app
  /\ Fault /\ UNCHANGED runs

Revive == /\ up # Hosts /\ up' = Hosts /\ UNCHANGED <<app, leader, runs, faults>>
Elect == /\ leader = NoHost /\ leader' \in up /\ UNCHANGED <<app, up, runs, faults>>

ClientNext ==
  \/ Queue \/ Poll \/ Tick \/ Connected \/ Receive \/ Broken
  \/ Serve \/ ServeBadly \/ (\E h \in Hosts : Crash(h)) \/ Revive \/ Elect

\* The loop turns, time passes, sockets answer, and the cluster recovers.
ClientFair ==
  /\ WF_cvars(Poll) /\ WF_cvars(Tick) /\ WF_cvars(Connected) /\ WF_cvars(Receive)
  /\ WF_cvars(Serve) /\ WF_cvars(Revive) /\ WF_cvars(Elect)
ClientSpec == ClientInit /\ [][ClientNext]_cvars /\ ClientFair

(***************************************************************************)
(* Properties                                                              *)
(***************************************************************************)
\* An ok that k_client_response_frame reports for a command means that this command ran, whatever
\* timed out, was sent again or was answered late.
OkMeansRan == \A i \in Ids : app.result[i] = "ok" => runs[i] > 0

\* k_client_discover would never ask again if the flag outlived its query: it does not, unless the
\* retries were used up.
DiscoveryInFlight == app.discovering => Discovery \in Waiting(app) \/ app.cut

\* k_client_response_frame: "A MEMBERS discovery that terminated for ANY reason (success or failure) must
\* clear the in-flight flag".
FlagCleared == app.discovering => Discovery \in Waiting(app)

\* No command waits for ever, whatever becomes of the servers (K_CLIENT_REQUEST_TIMEOUT_MS); the
\* commands entered are finitely many.
EveryCommandEnds == <>[](app.pend = <<>>)

\* k_client_on_closed: "spontaneous close (server died / connect failed): fail over and reconnect".  The
\* client gets back to a host, unless its retries were used up or a command displaced the retry.
GetsBack == <>[](app.connected \/ app.cut)

\* The client always gets on with it: with its commands, and back to a host.
ClientGoesOn == EveryCommandEnds /\ GetsBack

\* k_client_retry_arm: "keep the request (do not drop it) and resend it after a short delay": a request
\* that waits has a connection, or one is about to be tried.
WaitingIsTried == app.pend # <<>> => app.sock # "none" \/ app.reconnect \/ app.retry
=============================================================================
