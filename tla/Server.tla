------------------------------- MODULE Server -------------------------------
(***************************************************************************)
(* The life of client requests in one server (kserver.h): admission, the   *)
(* group-commit queue, the FCALL gate, the results of Raft, answers.       *)
(*                                                                         *)
(* Raft appears as its client interface: it accepts or refuses entries and *)
(* barriers, commits, resolves barriers, loses and wins leadership, stops. *)
(* How it does so is the subject of the modules Raft and Reads.            *)
(***************************************************************************)
EXTENDS Commands, SequencesExt

CONSTANTS Scripts,         \* the commands of the requests, in order of arrival
          FlushLimit,      \* cfg.flush_item_limit
          MaxChanges,      \* bound: elections won and lost
          MaxDisconnects   \* bound: connections lost

ASSUME ServerAssumption ==
  FlushLimit \in Nat /\ MaxChanges \in Nat /\ MaxDisconnects \in Nat

VARIABLES cmd,     \* the script
          s,       \* the server, with its Raft interface
          changes, drops

vars == <<cmd, s, changes, drops>>

Requests == 1 .. Len(cmd)
IsRead(r) == cmd[r].op = "GET"
IsFcall(r) == cmd[r].op = "FCALL"

Init ==
  /\ cmd \in Scripts
  /\ s = [arrived |-> 0, is_leader |-> TRUE, admission |-> TRUE,
          gate_closed |-> FALSE, gate |-> <<>>, write |-> <<>>,
          live |-> {}, conn |-> 1 .. Len(cmd), entry |-> [r \in 1 .. Len(cmd) |-> <<>>],
          answer |-> [r \in 1 .. Len(cmd) |-> "none"],
          fork |-> [r \in 1 .. Len(cmd) |-> 0],
          leads |-> TRUE, hint |-> TRUE, running |-> TRUE, change |-> FALSE,
          log |-> <<>>, commit |-> 0, applied |-> 0, tree |-> 1 :> 2 @@ 2 :> 0,
          pending |-> {}, barriers |-> {}, results |-> <<>>]
  /\ changes = 0 /\ drops = 0

(***************************************************************************)
(* Raft's client interface.                                                *)
(***************************************************************************)
\* raft_submit and raft_barrier accept.
Accepts(x) == x.running /\ x.leads
AcceptsBarrier(x) == x.running /\ (x.leads \/ x.hint)

SubmitEntries(x, q) ==
  [x EXCEPT !.log = @ \o [i \in DOMAIN q |-> [request |-> q[i], command |-> x.entry[q[i]][1]]],
            !.pending = @ \cup {q[i] : i \in DOMAIN q}]

AddBarrier(x, r) == [x EXCEPT !.barriers = @ \cup {[request |-> r, target |-> x.commit]}]

(***************************************************************************)
(* The handlers, as functions of the state.                                *)
(***************************************************************************)
RECURSIVE OpenGate(_), Free(_, _), RefuseAll(_, _), FlushWrites(_), StartFcall(_, _)

\* k_server_send_response: a request whose connection is gone is answered nowhere.
Respond(x, r, status) ==
  IF r \in x.conn
  THEN [x EXCEPT !.answer[r] = IF @ = "none" THEN status ELSE "twice"]
  ELSE x

\* Mutant: an FCALL that dies leaves the gate as it is.
FreeGated(x, r) == [x EXCEPT !.live = @ \ {r}]

\* k_request_free: an FCALL that dies reopens the gate.
Free(x, r) ==
  LET a == [x EXCEPT !.live = @ \ {r}]
  IN  IF a.gate_closed /\ IsFcall(r) THEN OpenGate(a) ELSE a

RefuseAll(x, q) ==
  IF q = <<>> THEN x ELSE RefuseAll(Free(Respond(x, Head(q), "redirect"), Head(q)), Tail(q))

\* k_server_flush_writes: the whole queue is submitted, or every request in it redirected.
FlushWrites(x) ==
  LET a == [x EXCEPT !.write = <<>>]
  IN  IF x.write = <<>> THEN x ELSE IF Accepts(a) THEN SubmitEntries(a, x.write) ELSE RefuseAll(a, x.write)

FlushAtLimit(x) == IF Len(x.write) >= FlushLimit THEN FlushWrites(x) ELSE x

\* A write joins the group-commit queue.
Enqueue(x, r, c) == [x EXCEPT !.entry[r] = <<c>>, !.write = Append(@, r)]

\* k_server_start_fcall: close the gate, flush what precedes, ask for a barrier.
StartFcall(x, r) ==
  LET a == FlushWrites([x EXCEPT !.gate_closed = TRUE])
  IN  IF AcceptsBarrier(a) THEN [ok |-> TRUE, x |-> AddBarrier(a, r)] ELSE [ok |-> FALSE, x |-> a]

\* Mutant: the queue of the gate is drained from its end.
OpenGateLast(x) ==
  LET moved == SelectSeq(Reverse(x.gate), LAMBDA r : ~IsFcall(r))
  IN  FlushAtLimit([x EXCEPT !.gate_closed = FALSE, !.gate = SelectSeq(@, IsFcall), !.write = @ \o moved,
                             !.entry = [r \in DOMAIN @ |-> IF \E i \in DOMAIN moved : moved[i] = r THEN <<cmd[r]>> ELSE @[r]]])

\* k_server_open_gate: queued writes go to the group-commit queue, up to the next FCALL.
OpenGate(x) ==
  LET n == Len(x.gate)
      upto == IF \E i \in 1 .. n : IsFcall(x.gate[i])
              THEN CHOOSE i \in 1 .. n : IsFcall(x.gate[i]) /\ \A j \in 1 .. i - 1 : ~IsFcall(x.gate[j])
              ELSE n + 1
      moved == SubSeq(x.gate, 1, upto - 1)
      a == [x EXCEPT !.gate_closed = FALSE, !.gate = SubSeq(@, upto + 1, n), !.write = @ \o moved,
                     !.entry = [r \in DOMAIN @ |-> IF \E i \in DOMAIN moved : moved[i] = r THEN <<cmd[r]>> ELSE @[r]]]
  IN  IF upto > n THEN FlushAtLimit(a)
      ELSE LET f == x.gate[upto]
               b == StartFcall(a, f)
           IN  IF b.ok THEN b.x ELSE Free(Respond(b.x, f, "redirect"), f)

\* k_server_clear_gate.
ClearGate(x) == RefuseAll([x EXCEPT !.gate_closed = FALSE, !.gate = <<>>], x.gate)

\* k_server_fcall_fail.
FcallFail(x, r) == OpenGate(Free(x, r))

\* k_server_exec_cmd, on the tree as it is when the barrier resolves.
ExecCmd(x, r) ==
  LET t == Transfer(x.tree, cmd[r])
  IN  IF t.ok
      THEN OpenGate([Enqueue(x, r, [op |-> "FCALL", writes |-> t.writes]) EXCEPT !.fork[r] = x.applied])
      ELSE FcallFail(Respond(x, r, "error"), r)

\* k_server_submit and k_server_submit_rget.
Submit(x, r) ==
  LET a == [x EXCEPT !.live = @ \cup {r}]
      flushed == FlushWrites(a)
      f == StartFcall(a, r)
  IN  CASE ~IsRead(r) /\ ~x.is_leader -> Respond(x, r, "redirect")
        [] ~IsRead(r) /\ x.is_leader /\ x.gate_closed -> [a EXCEPT !.gate = Append(@, r)]
        [] IsFcall(r) /\ x.is_leader /\ ~x.gate_closed ->
             IF f.ok THEN f.x ELSE Respond(Free(f.x, r), r, "redirect")
        [] IsRead(r) -> IF AcceptsBarrier(flushed) THEN AddBarrier(flushed, r)
                        ELSE Respond(Free([flushed EXCEPT !.is_leader = FALSE], r), r, "redirect")
        [] OTHER -> FlushAtLimit(Enqueue(a, r, cmd[r]))

\* k_server_handle_client_result.
HandleClientResult(x, m) ==
  LET r == m.request
      a == Respond(x, r, IF m.status = "committed" THEN m.answer ELSE m.status)
  IN  CASE r \notin x.live -> x
        [] r \in x.live /\ r \notin x.conn -> Free(x, r)
        [] r \in x.live /\ r \in x.conn /\ IsFcall(r) /\ m.status \in {"redirect", "failed"} -> FcallFail(a, r)
        [] r \in x.live /\ r \in x.conn /\ IsFcall(r) /\ m.status = "ready" -> ExecCmd(x, r)
        [] OTHER -> Free(a, r)

HandleAll(x, q) ==
  LET step[i \in 0 .. Len(q)] == IF i = 0 THEN x ELSE HandleClientResult(step[i - 1], q[i])
  IN  step[Len(q)]

\* The applies of a bundle; each entry that still has its cookie leaves a result.
ApplyAll(x) ==
  LET step[i \in x.applied .. x.commit] ==
        IF i = x.applied THEN [tree |-> x.tree, results |-> <<>>]
        ELSE LET o == Apply(step[i - 1].tree, x.log[i].command)
             IN  [tree |-> o.store,
                  results |-> IF x.log[i].request \in x.pending
                              THEN Append(step[i - 1].results, [request |-> x.log[i].request, status |-> "committed",
                                                                answer |-> o.answer])
                              ELSE step[i - 1].results]
      last == step[x.commit]
  IN  [x EXCEPT !.tree = last.tree, !.applied = x.commit, !.results = @ \o last.results,
                !.pending = @ \ {x.log[i].request : i \in x.applied + 1 .. x.commit}]

(***************************************************************************)
(* Actions of the server.                                                  *)
(***************************************************************************)
\* k_server_client_frame.
Arrive ==
  LET r == s.arrived + 1
      x == [s EXCEPT !.arrived = r]
  IN  /\ r \in Requests
      /\ s' = IF s.admission THEN Submit(x, r) ELSE Respond(x, r, "error")
      /\ UNCHANGED <<cmd, changes, drops>>

\* Mutant: the requests of the connection go with it.
DisconnectFrees(r) ==
  /\ r <= s.arrived /\ r \in s.live /\ r \in s.conn /\ drops < MaxDisconnects
  /\ s' = [s EXCEPT !.conn = @ \ {r}, !.live = @ \ {r}]
  /\ drops' = drops + 1 /\ UNCHANGED <<cmd, changes>>

\* k_conn_closed: the requests of the connection stay, with nobody to answer.
Disconnect(r) ==
  /\ r <= s.arrived /\ r \in s.live /\ r \in s.conn /\ drops < MaxDisconnects
  /\ s' = [s EXCEPT !.conn = @ \ {r}]
  /\ drops' = drops + 1 /\ UNCHANGED <<cmd, changes>>

\* The window of the batch has passed, or the input has drained (k_server_advance_at,
\* k_server_flush_if_ready).
Window ==
  /\ s.write # <<>>
  /\ s' = FlushWrites(s)
  /\ UNCHANGED <<cmd, changes, drops>>

\* k_server_drive: leadership, applies, results.
Drive ==
  LET x == [s EXCEPT !.change = FALSE, !.results = <<>>, !.is_leader = IF s.change THEN s.leads ELSE @]
      y == IF s.change /\ s.is_leader /\ ~s.leads THEN ClearGate(x) ELSE x
  IN  /\ s.change \/ s.results # <<>> \/ s.applied < s.commit
      /\ s' = LET a == ApplyAll(y)
              IN  [HandleAll([a EXCEPT !.results = <<>>], s.results) EXCEPT !.results = @ \o a.results]
      /\ UNCHANGED <<cmd, changes, drops>>

\* k_server_begin_stop.
BeginStop ==
  /\ s.admission
  /\ s' = [FlushWrites([s EXCEPT !.admission = FALSE]) EXCEPT !.running = FALSE]
  /\ UNCHANGED <<cmd, changes, drops>>

(***************************************************************************)
(* Actions of Raft.                                                        *)
(***************************************************************************)
Result(r, status) == [request |-> r, status |-> status, answer |-> "ok"]

RaftCommit ==
  /\ s.commit < Len(s.log) /\ s.leads
  /\ s' = [s EXCEPT !.commit = @ + 1]
  /\ UNCHANGED <<cmd, changes, drops>>

\* A leader's barrier waits for everything committed to be applied; a follower's may also fail.
BarrierResolves(b) ==
  /\ s.leads => s.applied = s.commit /\ s.applied >= b.target
  /\ \E status \in IF s.leads THEN {"ready"} ELSE {"ready", "failed"} :
       s' = [s EXCEPT !.barriers = @ \ {b}, !.results = Append(@, Result(b.request, status))]
  /\ UNCHANGED <<cmd, changes, drops>>

\* raft_flush_client_results, in the order it visits the lists.
Flushed(x, status) ==
  LET B == {b.request : b \in x.barriers}
      q == SetToSeq(B) \o SetToSeq(x.pending)
  IN  [x EXCEPT !.barriers = {}, !.pending = {},
                !.results = @ \o [i \in DOMAIN q |-> Result(q[i], status)]]

StepDown ==
  /\ s.leads /\ changes < MaxChanges
  /\ \E keep \in {s.commit, Len(s.log)}, hint \in BOOLEAN :
       s' = [Flushed(s, "redirect") EXCEPT !.leads = FALSE, !.hint = hint, !.change = TRUE,
                                           !.log = SubSeq(@, 1, keep), !.commit = keep]
  /\ changes' = changes + 1 /\ UNCHANGED <<cmd, drops>>

Elected ==
  /\ ~s.leads /\ s.running /\ changes < MaxChanges
  /\ s' = [s EXCEPT !.leads = TRUE, !.change = TRUE]
  /\ changes' = changes + 1 /\ UNCHANGED <<cmd, drops>>

\* raft_advance while stopping: it leads no more; what can still be answered is, the rest fails.
RaftDrains ==
  /\ ~s.running /\ (s.leads \/ s.barriers # {} \/ s.pending # {})
  /\ s' = IF s.leads THEN [s EXCEPT !.leads = FALSE, !.hint = FALSE, !.change = TRUE] ELSE Flushed(s, "failed")
  /\ UNCHANGED <<cmd, changes, drops>>

Next ==
  \/ Arrive \/ Window \/ Drive \/ BeginStop
  \/ \E r \in Requests : Disconnect(r)
  \/ RaftCommit \/ StepDown \/ Elected \/ RaftDrains
  \/ \E b \in s.barriers : BarrierResolves(b)

(***************************************************************************)
(* The loop keeps driving the server, the window of a batch expires, and   *)
(* Raft answers what it accepted: what is due is not due for ever.  (Each  *)
(* is the weak fairness of its action, stated on the action's guard.)      *)
(***************************************************************************)
DriveDue == s.change \/ s.results # <<>> \/ s.applied < s.commit
Fairness ==
  /\ []<>~DriveDue /\ []<>(s.write = <<>>)
  /\ []<>(s.barriers = {}) /\ []<>(s.pending = {}) /\ []<>(s.leads => s.running)

Spec == Init /\ [][Next]_vars /\ Fairness

(***************************************************************************)
(* Properties                                                              *)
(***************************************************************************)
InRaft(x) == x.pending \cup {b.request : b \in x.barriers} \cup {x.results[i].request : i \in DOMAIN x.results}

\* Raft never holds the cookie of a request that was freed ("a request handed to Raft IS its
\* cookie and its live payload, so it may only be released after the terminal result").
NoDanglingCookie == InRaft(s) \subseteq s.live

\* A request is answered once, when it is released, and a live one has not been answered.
AnsweredOnce ==
  \A r \in 1 .. s.arrived : r \in s.conn => (s.answer[r] # "twice" /\ (r \in s.live <=> s.answer[r] = "none"))

\* A live request is in exactly one place: the gate's queue, the group-commit queue or Raft.
HeldOnce ==
  LET queued(q, r) == Cardinality({i \in DOMAIN q : q[i] = r})
      places(r) == queued(s.gate, r) + queued(s.write, r) + (IF r \in s.pending THEN 1 ELSE 0)
                   + Cardinality({b \in s.barriers : b.request = r})
                   + Cardinality({i \in DOMAIN s.results : s.results[i].request = r})
  IN  \A r \in s.live : places(r) = 1

\* Nothing waits behind an open gate.
OpenGateEmpty == ~s.gate_closed => s.gate = <<>>

\* No request is lost on its way, freed early or answered twice (k_server_submit,
\* k_server_process_results, k_conn_closed).
RequestsAccounted == NoDanglingCookie /\ AnsweredOnce /\ HeldOnce /\ OpenGateEmpty

\* Plain writes enter the log in the order they arrived, through gate and queue.
WritesInOrder ==
  \A i, j \in DOMAIN s.log :
    LET a == s.log[i].request
        b == s.log[j].request
    IN  i < j /\ ~IsFcall(a) /\ ~IsFcall(b) => a < b

\* Every request is released in the end, and so (AnsweredOnce) answered: no gate stays closed
\* for ever, no queue keeps a request behind it.
EveryoneAnswered == []<>(s.live = {})

\* k_server_exec_cmd: "the write-set is always the immediate next log entry after the forked
\* read and nothing can slip between".
FcallIsolated ==
  \A i \in DOMAIN s.log : IsFcall(s.log[i].request) => i = s.fork[s.log[i].request] + 1

\* What isolation is for: every transfer that was applied moved its amount.
EveryTransferCounts ==
  s.tree[1] = 2 - Cardinality({i \in 1 .. s.applied : IsFcall(s.log[i].request)})
=============================================================================
