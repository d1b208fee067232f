------------------------------- MODULE Host --------------------------------
(***************************************************************************)
(* One server process (kdbsvr.c, kserver.h, runtime.h, cemon.h): the main  *)
(* thread that polls the event loop and drives the server, the WAL worker  *)
(* that posts its results and wakes the loop, the snapshot worker that     *)
(* does not, and the shutdown that must bring all three to rest.  Of the   *)
(* loop it keeps what module EventLoop establishes: a post is admitted     *)
(* until a stop is requested, the tasks posted are run by the next poll,   *)
(* and a destroy waits for a thread that is inside a post.                 *)
(*                                                                         *)
(* A worker runtime is two queues, each under its own lock, and a stop     *)
(* flag.  The main thread's round is one action: it meets the workers only *)
(* in those queues, and a result posted while it runs is as good as one    *)
(* posted after it.  Raft is what the shutdown sees of it: its phase, what *)
(* it has to hand out, and the two snapshots it may have under way.        *)
(***************************************************************************)
EXTENDS Naturals, Sequences, TLC

CONSTANTS InflightMax,  \* wal_inflight_max
          MaxInputs     \* bound: frames and snapshots that give the server something to do

Pools == {"wal", "snap"}
ASSUME HostAssumption == InflightMax \in Nat \ {0} /\ MaxInputs \in Nat

VARIABLES tasks,    \* task queue of each runtime
          results,  \* result queue of each runtime
          rtStop,   \* runtime_ctx.stop of each runtime
          worker,   \* where each worker thread is, and the task it holds
          loop,     \* the loop: "open", "stop" requested, "closing", "abandoned" or "freed"
          main,     \* where the main thread is
          server,   \* the k_server fields the shutdown reads
          raft,     \* what the shutdown sees of the raft_ctx
          signal,   \* g_stop
          inputs    \* bound: inputs so far

hostVars == <<tasks, results, rtStop, worker, loop, main, server, raft, signal, inputs>>

NoTask == [kind |-> "none"]
Bundle(snap, install, live) == [kind |-> "bundle", snap |-> snap, install |-> install, deferred |-> live]

HostInit ==
  /\ loop = "open"
  /\ tasks = [p \in Pools |-> <<>>] /\ results = [p \in Pools |-> <<>>]
  /\ rtStop = [p \in Pools |-> FALSE]
  /\ worker = [p \in Pools |-> [at |-> "check", task |-> NoTask, ok |-> TRUE]]
  /\ main = "poll"
  /\ server = [stopping |-> FALSE, stopped |-> FALSE, fatal |-> FALSE, raftStopped |-> FALSE,
               inflight |-> 0, save |-> FALSE, saving |-> FALSE, cleanup |-> 0]
  /\ raft \in [phase : {"RUNNING"}, persist : {FALSE}, live : {FALSE}, dirty : {FALSE},
               ready : {FALSE}, install : {"none"}, alone : BOOLEAN]
  /\ signal = FALSE /\ inputs = 0

(***************************************************************************)
(* The runtime's queues and the worker threads.                            *)
(***************************************************************************)
\* queue_post: refused once the runtime is stopped.
QueuePost(q, p, item) == IF rtStop[p] THEN q ELSE [q EXCEPT ![p] = Append(@, item)]

\* The loop head of k_wal_worker_entry and k_snapshot_worker_entry.
WorkerCheck(p) ==
  /\ worker[p].at = "check"
  /\ worker' = [worker EXCEPT ![p].at = IF rtStop[p] THEN "exited" ELSE "poll"]
  /\ UNCHANGED <<tasks, results, rtStop, main, server, raft, signal, inputs, loop>>

\* runtime_task_poll: the head of the queue, even after the stop; -1 when stopped and empty.
WorkerPoll(p) ==
  /\ worker[p].at = "poll"
  /\ IF tasks[p] # <<>>
     THEN \E ok \in BOOLEAN :
            /\ worker' = [worker EXCEPT ![p] = [at |-> "post", task |-> Head(tasks[p]), ok |-> ok]]
            /\ tasks' = [tasks EXCEPT ![p] = Tail(@)]
     ELSE /\ rtStop[p]
          /\ worker' = [worker EXCEPT ![p].at = "exited"] /\ UNCHANGED tasks
  /\ UNCHANGED <<results, rtStop, main, server, raft, signal, inputs, loop>>

\* runtime_result_post after the write; a refused post is fatal unless the server is stopping.
WorkerPost(p) ==
  /\ worker[p].at = "post"
  /\ results' = QueuePost(results, p, worker[p].task @@ [ok |-> worker[p].ok])
  /\ LET lost == rtStop[p] /\ p = "wal" /\ ~server.stopping IN
     /\ server' = [server EXCEPT !.fatal = @ \/ lost]
     /\ worker' = [worker EXCEPT ![p].task = NoTask,
                   ![p].at = IF p = "wal" /\ (~rtStop[p] \/ lost) THEN "tell" ELSE "check"]
  /\ UNCHANGED <<tasks, rtStop, main, raft, signal, inputs, loop>>

\* on_wal_result: cemon_post on the loop, refused once a stop is requested.
Tell ==
  /\ worker["wal"].at = "tell"
  /\ worker' = [worker EXCEPT !["wal"].at = IF loop = "open" THEN "telling" ELSE "check"]
  /\ UNCHANGED <<tasks, results, rtStop, loop, main, server, raft, signal, inputs>>

\* Pushed, and the ingress section left: the task itself does nothing (k_server_wal_wake_cb).
Telling ==
  /\ worker["wal"].at = "telling"
  /\ worker' = [worker EXCEPT !["wal"].at = "check"]
  /\ UNCHANGED <<tasks, results, rtStop, loop, main, server, raft, signal, inputs>>

WorkerStep(p) == WorkerCheck(p) \/ WorkerPoll(p) \/ WorkerPost(p)

(***************************************************************************)
(* The parts of one round, as functions of the state x of the main thread: *)
(* x.s the server, x.r Raft, x.wal and x.snap the results to take, x.out   *)
(* the tasks to post, x.err a failed call.                                 *)
(***************************************************************************)
\* k_server_begin_stop and raft_stop.
BeginStop(x) ==
  [x EXCEPT !.s.stopping = TRUE,
            !.r.phase = IF @ = "RUNNING" THEN "STOPPING" ELSE @]

\* k_server_maybe_finish_stop: on_stop is cemon_stop.
MaybeFinishStop(x) ==
  [x EXCEPT !.s.stopped = @ \/ (x.s.raftStopped /\ x.s.inflight = 0 /\ ~x.s.save /\ ~x.s.saving
                                  /\ x.s.cleanup = 0)]

\* k_server_poll_snapshot, one result.
SnapshotResult(x, t) ==
  IF t.kind = "cleanup" THEN [x EXCEPT !.s.cleanup = @ - 1]
  ELSE IF x.s.stopping \/ x.s.raftStopped THEN [x EXCEPT !.s.save = FALSE, !.s.saving = FALSE]
  ELSE IF t.ok /\ x.r.phase = "RUNNING"
  THEN [x EXCEPT !.s.save = FALSE, !.r.ready = TRUE, !.r.persist = TRUE,
                 !.s.cleanup = @ + 1, !.out.snap = Append(@, [kind |-> "cleanup"])]
  ELSE [x EXCEPT !.s.save = FALSE, !.s.saving = FALSE]

\* The snapshot install of k_server_process_bundle_live, and raft_apply_complete's install.
Live(x, b) ==
  IF b.install # "none" /\ ~x.s.saving
  THEN [x EXCEPT !.r.install = "none", !.r.dirty = @ /\ b.install = "older",
                 !.r.ready = @ /\ b.install = "older"]
  ELSE x

\* k_server_process_bundle_persist.
Persisted(x, b) ==
  [x EXCEPT !.r.dirty = @ /\ ~(b.snap /\ x.r.ready /\ ~x.s.stopping),
            !.r.ready = @ /\ ~(b.snap /\ ~x.s.stopping)]

\* As a bug: the slot of a record that carries a snapshot is not given back.
WalResultKept(x, b) ==
  IF x.err THEN x
  ELSE LET y == [x EXCEPT !.s.inflight = IF b.snap THEN @ ELSE @ - 1] IN
       IF ~b.ok THEN [y EXCEPT !.s.fatal = TRUE, !.err = TRUE]
       ELSE LET z == Persisted(IF b.deferred THEN Live(y, b) ELSE y, b)
            IN  [z EXCEPT !.s.saving = @ /\ ~b.snap]

\* k_server_poll_wal, one result.
WalResult(x, b) ==
  IF x.err THEN x
  ELSE LET y == [x EXCEPT !.s.inflight = @ - 1] IN
       IF ~b.ok THEN [y EXCEPT !.s.fatal = TRUE, !.err = TRUE]
       ELSE LET z == Persisted(IF b.deferred THEN Live(y, b) ELSE y, b)
            IN  [z EXCEPT !.s.saving = @ /\ ~b.snap]

\* As a bug: the drain also waits for the local snapshot it will never hand out.
RaftAdvanceWaits(x) ==
  LET r0 == IF x.r.phase = "STOPPING" THEN [x.r EXCEPT !.phase = "DRAINING", !.ready = FALSE] ELSE x.r
      stops == r0.phase = "DRAINING" /\ ~r0.live /\ ~r0.persist /\ r0.install = "none" /\ ~r0.dirty
      r1 == [r0 EXCEPT !.persist = FALSE, !.live = FALSE, !.phase = IF stops THEN "STOPPED" ELSE @]
      b == Bundle(r0.persist /\ (r0.install # "none" \/ (r0.dirty /\ r0.ready)), r0.install, r0.persist /\ r0.alone)
      y == [x EXCEPT !.r = r1]
      z == IF b.deferred THEN y ELSE Live(y, b)
  IN  IF x.r.phase = "STOPPED" THEN MaybeFinishStop(x)
      ELSE IF r0.persist
      THEN [z EXCEPT !.s.inflight = @ + 1, !.out.wal = Append(@, b)]
      ELSE MaybeFinishStop(IF stops THEN [z EXCEPT !.s.raftStopped = TRUE, !.s.saving = @ /\ z.s.save] ELSE z)

\* raft_advance and the bundle of k_server_drive: STOPPING drops the local snapshot and
\* turns to DRAINING, DRAINING with nothing left to hand out turns to STOPPED.
RaftAdvance(x) ==
  LET r0 == IF x.r.phase = "STOPPING"
            THEN [x.r EXCEPT !.phase = "DRAINING", !.dirty = FALSE, !.ready = FALSE] ELSE x.r
      stops == r0.phase = "DRAINING" /\ ~r0.live /\ ~r0.persist /\ r0.install = "none"
      r1 == [r0 EXCEPT !.persist = FALSE, !.live = FALSE, !.phase = IF stops THEN "STOPPED" ELSE @]
      b == Bundle(r0.persist /\ (r0.install # "none" \/ (r0.dirty /\ r0.ready)), r0.install, r0.persist /\ r0.alone)
      y == [x EXCEPT !.r = r1]
      z == IF b.deferred THEN y ELSE Live(y, b)
  IN  IF x.r.phase = "STOPPED" THEN MaybeFinishStop(x)
      ELSE IF r0.persist
      THEN [z EXCEPT !.s.inflight = @ + 1, !.out.wal = Append(@, b)]
      ELSE MaybeFinishStop(IF stops THEN [z EXCEPT !.s.raftStopped = TRUE, !.s.saving = @ /\ z.s.save] ELSE z)

\* The results of a queue, taken in order.
Taken(f(_, _), x, q) ==
  LET after[i \in 0..Len(q)] == IF i = 0 THEN x ELSE f(after[i - 1], q[i]) IN after[Len(q)]

\* k_server_drive: results first, then Raft unless a sole voter's record or the backlog is in the way.
Drive(x) ==
  LET a == MaybeFinishStop(Taken(SnapshotResult, x, x.snap))
      b == Taken(WalResult, a, x.wal)
      c == MaybeFinishStop(b)
  IN  IF b.err THEN BeginStop([b EXCEPT !.s.fatal = TRUE])
      ELSE IF (c.r.alone /\ c.s.inflight > 0) \/ c.s.inflight >= InflightMax THEN c
      ELSE RaftAdvance(c)

\* k_server_maybe_snapshot, when the policy fires.
MaybeSnapshot(x) ==
  IF x.s.stopping \/ x.s.saving \/ x.s.save \/ x.s.cleanup > 0 \/ x.r.dirty \/ x.r.phase # "RUNNING"
  THEN x
  ELSE [x EXCEPT !.s.save = TRUE, !.s.saving = TRUE, !.r.dirty = TRUE,
                 !.out.snap = Append(@, [kind |-> "save"])]

(***************************************************************************)
(* The main thread.                                                        *)
(***************************************************************************)
\* cemon_poll in k_server_run: tasks run, or time passes; -1 once a stop was requested.
Poll ==
  /\ main = "poll"
  /\ main' = IF loop = "open" THEN "round" ELSE "quit"
  /\ UNCHANGED <<tasks, results, rtStop, worker, loop, server, raft, signal, inputs>>

\* In the poll a frame from a peer or a client may be handled: k_server_peer_frame and
\* raft_recvfrom_peer, k_server_submit.  A STOPPED Raft ignores it.
Frame(kind) ==
  /\ main = "poll" /\ loop = "open" /\ inputs < MaxInputs /\ raft.phase # "STOPPED"
  /\ \/ kind = "reply"   /\ raft' = [raft EXCEPT !.live = TRUE] /\ UNCHANGED server
     \/ kind = "entries" /\ raft' = [raft EXCEPT !.live = TRUE, !.persist = TRUE] /\ UNCHANGED server
     \/ /\ kind \in {"newer", "older"} /\ ~raft.alone
        /\ raft' = [raft EXCEPT !.install = kind, !.persist = TRUE] /\ UNCHANGED server
     \/ /\ kind = "deposed" /\ ~raft.alone
        /\ raft' = [raft EXCEPT !.dirty = FALSE, !.ready = FALSE, !.install = "none", !.persist = TRUE]
        /\ UNCHANGED server
     \/ kind = "fatal" /\ server' = [server EXCEPT !.fatal = TRUE] /\ UNCHANGED raft
  /\ inputs' = inputs + 1
  /\ UNCHANGED <<tasks, results, rtStop, worker, loop, main, signal>>

\* k_on_signal.
Signal ==
  /\ ~signal /\ signal' = TRUE
  /\ UNCHANGED <<tasks, results, rtStop, worker, loop, main, server, raft, inputs>>

\* The rest of k_server_run's loop body: begin_stop after a signal, then k_server_advance_at.
\* The loop is left when the server is marked fatal.
Round ==
  /\ main = "round"
  /\ IF server.fatal
     THEN main' = "quit" /\ UNCHANGED <<tasks, results, loop, server, raft, inputs>>
     ELSE \E fires \in {f \in BOOLEAN : f => inputs < MaxInputs} :
       LET x0 == [s |-> server, r |-> raft, wal |-> results["wal"], snap |-> results["snap"],
                  out |-> [p \in Pools |-> <<>>], err |-> FALSE]
           x1 == Drive(IF signal /\ ~server.stopping THEN BeginStop(x0) ELSE x0)
           x == IF fires THEN MaybeSnapshot(x1) ELSE x1
       IN  /\ server' = x.s /\ raft' = x.r
           /\ tasks' = [p \in Pools |-> tasks[p] \o x.out[p]]
           /\ loop' = IF x.s.stopped THEN "stop" ELSE loop
           /\ inputs' = inputs + (IF fires THEN 1 ELSE 0)
           /\ results' = [p \in Pools |-> <<>>]
           /\ main' = "poll"
  /\ UNCHANGED <<rtStop, worker, signal>>

\* cemon_destroy: no post is admitted any more; the loop is freed when nobody is inside one,
\* and left alone when the wait for that runs out.
DestroyLoop ==
  /\ main = "quit" /\ loop \in {"open", "stop"}
  /\ loop' = "closing"
  /\ UNCHANGED <<tasks, results, rtStop, worker, main, server, raft, signal, inputs>>

FreeLoop ==
  /\ main = "quit" /\ loop = "closing"
  /\ loop' = IF worker["wal"].at = "telling" THEN "abandoned" ELSE "freed"
  /\ UNCHANGED <<tasks, results, rtStop, worker, main, server, raft, signal, inputs>>

\* k_server_release, whatever cemon_destroy returned: stop a runtime, wait for its worker,
\* drain it; the WAL's first.
ReleaseStop(p) ==
  /\ main = (IF p = "wal" THEN "quit" ELSE "wal") /\ loop \in {"freed", "abandoned"}
  /\ ~rtStop[p] /\ rtStop' = [rtStop EXCEPT ![p] = TRUE]
  /\ UNCHANGED <<loop, tasks, results, worker, main, server, raft, signal, inputs>>

ReleaseWait(p) ==
  /\ main = (IF p = "wal" THEN "quit" ELSE "wal")
  /\ rtStop[p] /\ worker[p].at = "exited"
  /\ tasks' = [tasks EXCEPT ![p] = <<>>] /\ results' = [results EXCEPT ![p] = <<>>]
  /\ main' = IF p = "wal" THEN "wal" ELSE "gone"
  /\ UNCHANGED <<loop, rtStop, worker, server, raft, signal, inputs>>

Release == \E p \in Pools : ReleaseStop(p) \/ ReleaseWait(p)

MainStep == Poll \/ Round \/ DestroyLoop \/ FreeLoop \/ Release
FrameKinds == {"reply", "entries", "newer", "older", "deposed", "fatal"}

HostNext ==
  \/ MainStep \/ Signal \/ Tell \/ Telling
  \/ \E k \in FrameKinds : Frame(k)
  \/ \E p \in Pools : WorkerStep(p)

\* Every thread is scheduled: the main thread, the two workers.  The second conjunct is
\* WF_hostVars(Round): Round is enabled exactly when main = "round", and every such step leaves it.
HostFairness ==
  /\ WF_hostVars(Poll) /\ []<>(main # "round") /\ WF_hostVars(DestroyLoop \/ FreeLoop \/ Release)
  /\ WF_hostVars(Tell \/ Telling)
  /\ \A p \in Pools : WF_hostVars(WorkerStep(p))

HostSpec == HostInit /\ [][HostNext]_hostVars /\ HostFairness

(***************************************************************************)
(* Properties                                                              *)
(***************************************************************************)
Held(p) == Len(tasks[p]) + Len(results[p]) + (IF worker[p].at = "post" THEN 1 ELSE 0)

\* Every slot of the WAL pipeline is accounted for: wal_inflight_count is the number of
\* records the main thread has handed out and not got back, so no slot leaks and the
\* backlog limit is kept (k_server_drive, k_wal_worker_entry, k_server_poll_wal).
SlotsAccounted ==
  main \in {"poll", "round"} /\ ~server.fatal => server.inflight = Held("wal") /\ server.inflight <= InflightMax

\* A clean stop (k_server_maybe_finish_stop) leaves nothing with either worker: every record
\* was written and every snapshot task reported before the loop is told to stop.
StopIsClean ==
  server.stopped /\ ~server.fatal => \A p \in Pools : Held(p) = 0

\* What the main thread counts is what the workers hold, to the last moment.
WorkAccounted == SlotsAccounted /\ StopIsClean

\* A stop signal, or a fatal error, ends the process: Raft drains, the WAL and snapshot
\* workers come to rest, the loop stops, and k_server_release joins both workers.
StopFinishes == (signal \/ server.fatal) ~> main = "gone"

\* What cemon_destroy's comment and k_server_release's order promise of the loop
\* ("would be a use-after-free on a thread that is merely slow"): the WAL worker never
\* posts to a loop that has been freed.
LoopAliveWhenPosted == loop = "freed" => worker["wal"].at \notin {"tell", "telling"}
=============================================================================
