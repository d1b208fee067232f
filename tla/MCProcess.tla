----------------------------- MODULE MCProcess ------------------------------
(***************************************************************************)
(* Small instances of three parts of a server process, checked together:   *)
(* the event loop, the threads and their shutdown, and the durability      *)
(* contract.  In an initial state one part is at its start and the others  *)
(* are at rest, so a behaviour is one of that part alone.                  *)
(***************************************************************************)
EXTENDS EventLoop, Host, Persist

VARIABLE contract   \* whether the behaviour is one of Persist

processVars == <<loopVars, hostVars, vars, contract>>

\* A loop that was stopped, and freed, before anything was posted.
LoopAtRest ==
  /\ bits = {"STOP_REQUESTED", "STOPPING", "CLOSING"} /\ posts = <<>> /\ count = 0
  /\ wakePending = FALSE /\ eventfd = FALSE /\ ingress = 0
  /\ pc = [t \in Producers \cup Stoppers |-> "idle"]
  /\ owner = [at |-> "freed", phase |-> "last", budget |-> Budget, consume |-> FALSE, blocking |-> FALSE]
  /\ taken = <<>> /\ accepted = <<>> /\ ran = <<>> /\ failed = FALSE

\* A process that ended after a signal.
HostAtRest ==
  /\ loop = "freed" /\ main = "gone" /\ signal = TRUE /\ inputs = 0
  /\ tasks = [p \in Pools |-> <<>>] /\ results = [p \in Pools |-> <<>>]
  /\ rtStop = [p \in Pools |-> TRUE]
  /\ worker = [p \in Pools |-> [at |-> "exited", task |-> NoTask, ok |-> TRUE]]
  /\ server = [stopping |-> TRUE, stopped |-> TRUE, fatal |-> FALSE, raftStopped |-> TRUE,
               inflight |-> 0, save |-> FALSE, saving |-> FALSE, cleanup |-> 0]
  /\ raft = [phase |-> "STOPPED", persist |-> FALSE, live |-> FALSE, dirty |-> FALSE,
             ready |-> FALSE, install |-> "none", alone |-> FALSE]

ProcessInit ==
  /\ Init
  /\ \/ LoopInit /\ HostAtRest /\ contract = FALSE
     \/ LoopAtRest /\ HostInit /\ contract = FALSE
     \/ LoopAtRest /\ HostAtRest /\ contract = TRUE

ProcessNext ==
  \/ LoopNext /\ UNCHANGED <<hostVars, vars, contract>>
  \/ HostNext /\ UNCHANGED <<loopVars, vars, contract>>
  \/ contract /\ Next /\ UNCHANGED <<loopVars, hostVars, contract>>

ProcessSpec ==
  ProcessInit /\ [][ProcessNext]_processVars /\ LoopFairness /\ HostFairness /\ Fairness
=============================================================================
