----------------------------- MODULE EventLoop -----------------------------
(***************************************************************************)
(* The mailbox of the event loop (cemon.h): tasks posted by other threads, *)
(* the wake event that brings the owner thread out of its poll, the stop   *)
(* request, and the teardown that waits for the threads still inside a     *)
(* post.  One action is one critical section of post_lock, or one system   *)
(* call on the eventfd, or one callback.  The poll has no time limit of    *)
(* its own here unless Timeouts holds: what the mailbox promises may not   *)
(* rest on a poll period.                                                  *)
(***************************************************************************)
EXTENDS Naturals, Sequences, FiniteSets

CONSTANTS Producers,  \* threads that post
          Stoppers,   \* foreign threads that call cemon_stop
          Budget,     \* CEMON_DISPATCH_BUDGET
          Limit,      \* CEMON_POSTQ_LIMIT
          MaxPosts,   \* bound: tasks accepted in a behaviour
          Timeouts    \* whether a poll may also return on its time limit

ASSUME LoopAssumption ==
  /\ IsFiniteSet(Producers) /\ Producers \cap Stoppers = {}
  /\ Budget \in Nat \ {0} /\ Limit \in Nat /\ MaxPosts \in Nat
  /\ Timeouts \in BOOLEAN

VARIABLES bits,         \* control.post_bits
          posts,        \* post_head .. post_tail
          count,        \* post_count
          wakePending,  \* wake_pending
          eventfd,      \* the wake descriptor is readable
          ingress,      \* control.ingress_count
          pc,           \* where each foreign thread is
          owner,        \* where the owner thread is in cemon_poll or cemon_destroy
          taken,        \* the list post_take detached
          accepted,     \* history: tasks the mailbox accepted, in order
          ran,          \* history: tasks whose callback ran, in order
          failed        \* history: a poll ended on a backend error

loopVars == <<bits, posts, count, wakePending, eventfd, ingress, pc, owner, taken,
              accepted, ran, failed>>

Bits == {"RUNNING", "STOP_REQUESTED", "STOPPING", "CLOSING"}
Places == {"out", "dispatch", "run", "finish", "stop", "timeout", "block", "read", "clear",
           "ended", "closing", "abandoned", "freed"}

\* cemon_loop_mailbox_from_post_bits: a foreign thread is admitted to an open mailbox only.
Open == bits \cap {"STOP_REQUESTED", "STOPPING", "CLOSING"} = {}
\* A callback of the owner is admitted until the loop is closing.
OpenToCallback == "CLOSING" \notin bits

Inside == {p \in Producers : pc[p] \in {"push", "emit", "leave"}}

LoopInit ==
  /\ bits = {} /\ posts = <<>> /\ count = 0
  /\ wakePending = FALSE /\ eventfd = FALSE /\ ingress = 0
  /\ pc = [t \in Producers \cup Stoppers |-> "idle"]
  /\ owner = [at |-> "out", phase |-> "first", budget |-> 0, consume |-> FALSE, blocking |-> FALSE]
  /\ taken = <<>> /\ accepted = <<>> /\ ran = <<>> /\ failed = FALSE

(***************************************************************************)
(* A foreign thread in cemon_post.                                         *)
(***************************************************************************)
\* cemon_ingress_enter: counted, under the lock, if the mailbox is open.
Enter(p) ==
  /\ pc[p] = "idle" /\ owner.at # "freed" /\ Open
  /\ Len(accepted) < MaxPosts
  /\ ingress' = ingress + 1
  /\ pc' = [pc EXCEPT ![p] = "push"]
  /\ UNCHANGED <<bits, posts, count, wakePending, eventfd, owner, taken, accepted, ran, failed>>

\* cemon_post_push: the mailbox and the limit are looked at again under the lock; a thread
\* with no wake to emit leaves the ingress section in the same critical section.
Push(p) ==
  /\ pc[p] = "push"
  /\ IF Open /\ count < Limit
     THEN /\ posts' = Append(posts, Len(accepted) + 1)
          /\ accepted' = Append(accepted, Len(accepted) + 1)
          /\ count' = count + 1
          /\ LET wake == "RUNNING" \in bits /\ ~wakePending IN
             /\ wakePending' = (wakePending \/ wake)
             /\ pc' = [pc EXCEPT ![p] = IF wake THEN "emit" ELSE "idle"]
             /\ ingress' = IF wake THEN ingress ELSE ingress - 1
     ELSE /\ pc' = [pc EXCEPT ![p] = "idle"]
          /\ ingress' = ingress - 1
          /\ UNCHANGED <<posts, accepted, count, wakePending>>
  /\ UNCHANGED <<bits, eventfd, owner, taken, ran, failed>>

\* cemon_wake_emit: the write to the eventfd, outside the lock.
Emit(t) ==
  /\ pc[t] = "emit"
  /\ eventfd' = TRUE
  /\ pc' = [pc EXCEPT ![t] = IF t \in Producers THEN "leave" ELSE "idle"]
  /\ UNCHANGED <<bits, posts, count, wakePending, ingress, owner, taken, accepted, ran, failed>>

\* cemon_ingress_leave.
Leave(p) ==
  /\ pc[p] = "leave"
  /\ ingress' = ingress - 1
  /\ pc' = [pc EXCEPT ![p] = "idle"]
  /\ UNCHANGED <<bits, posts, count, wakePending, eventfd, owner, taken, accepted, ran, failed>>

\* As a bug: a stop request does not wake the owner.
StopQuietly(s) ==
  /\ pc[s] = "idle" /\ owner.at # "freed" /\ "STOP_REQUESTED" \notin bits
  /\ bits' = bits \cup {"STOP_REQUESTED"}
  /\ UNCHANGED <<posts, count, wakePending, pc, eventfd, ingress, owner, taken, accepted, ran, failed>>

\* cemon_stop from a thread that is not the owner: no ingress section.
Stop(s) ==
  /\ pc[s] = "idle" /\ owner.at # "freed" /\ "STOP_REQUESTED" \notin bits
  /\ bits' = bits \cup {"STOP_REQUESTED"}
  /\ LET wake == "RUNNING" \in bits /\ ~wakePending IN
     /\ wakePending' = (wakePending \/ wake)
     /\ pc' = [pc EXCEPT ![s] = IF wake THEN "emit" ELSE "idle"]
  /\ UNCHANGED <<posts, count, eventfd, ingress, owner, taken, accepted, ran, failed>>

(***************************************************************************)
(* The owner in cemon_poll.                                                *)
(***************************************************************************)
PollEnter ==
  /\ owner.at = "out"
  /\ bits' = bits \cup {"RUNNING"}
  /\ owner' = [owner EXCEPT !.at = "dispatch", !.phase = "first", !.budget = Budget, !.consume = FALSE]
  /\ UNCHANGED <<posts, count, wakePending, eventfd, ingress, pc, taken, accepted, ran, failed>>

\* cemon_stop by the owner, between two polls (k_server's on_stop): no wake is needed.
OwnerStop ==
  /\ owner.at = "out" /\ "STOP_REQUESTED" \notin bits
  /\ bits' = bits \cup {"STOP_REQUESTED"}
  /\ UNCHANGED <<posts, count, wakePending, eventfd, ingress, pc, owner, taken, accepted, ran, failed>>

\* cemon_post_take: the whole list, and the wake with it if this dispatch consumes one.
Take ==
  /\ owner.at = "dispatch" /\ owner.budget > 0 /\ posts # <<>>
  /\ taken' = posts /\ posts' = <<>>
  /\ wakePending' = (wakePending /\ ~owner.consume)
  /\ owner' = [owner EXCEPT !.at = "run", !.consume = FALSE]
  /\ UNCHANGED <<bits, count, eventfd, ingress, pc, accepted, ran, failed>>

\* One callback; it may itself post, in which case no wake is needed.
Run ==
  /\ owner.at = "run"
  /\ ran' = Append(ran, Head(taken))
  /\ taken' = Tail(taken)
  /\ \/ UNCHANGED <<posts, accepted, count>>
     \/ /\ OpenToCallback /\ count < Limit /\ Len(accepted) < MaxPosts
        /\ posts' = Append(posts, Len(accepted) + 1)
        /\ accepted' = Append(accepted, Len(accepted) + 1)
        /\ count' = count + 1
  /\ owner' = [owner EXCEPT !.at = "finish", !.budget = @ - 1]
  /\ UNCHANGED <<bits, wakePending, eventfd, ingress, pc, failed>>

\* As a bug: the left-over list is appended behind the new arrivals.
FinishBehind ==
  /\ owner.at = "finish"
  /\ posts' = posts \o taken /\ taken' = <<>>
  /\ count' = count - 1
  /\ owner' = [owner EXCEPT !.at = "dispatch"]
  /\ UNCHANGED <<bits, wakePending, eventfd, ingress, pc, accepted, ran, failed>>

\* cemon_post_finish: what the budget left over goes back in front of what arrived meanwhile.
Finish ==
  /\ owner.at = "finish"
  /\ posts' = taken \o posts /\ taken' = <<>>
  /\ count' = count - 1
  /\ owner' = [owner EXCEPT !.at = "dispatch"]
  /\ UNCHANGED <<bits, wakePending, eventfd, ingress, pc, accepted, ran, failed>>

\* The dispatch is over: on to the stop check, back to the caller, or out with -1.
Dispatched ==
  /\ owner.at = "dispatch" /\ (owner.budget = 0 \/ posts = <<>>)
  /\ owner' = [owner EXCEPT !.at = CASE owner.phase = "first" -> "stop"
                                     [] owner.phase = "wake"  -> "out"
                                     [] owner.phase = "last"  -> "ended"]
  /\ bits' = IF owner.phase = "last" THEN bits \ {"RUNNING"} ELSE bits
  /\ UNCHANGED <<posts, count, wakePending, eventfd, ingress, pc, taken, accepted, ran, failed>>

\* cemon_progress_stop: begin_stop once, and ready when no post is left.
ProgressStop ==
  /\ owner.at = "stop"
  /\ IF Open
     THEN /\ owner' = [owner EXCEPT !.at = "timeout"] /\ UNCHANGED bits
     ELSE /\ bits' = bits \cup {"STOPPING"}
          /\ owner' = IF count = 0
                      THEN [owner EXCEPT !.at = "dispatch", !.phase = "last", !.budget = Budget]
                      ELSE [owner EXCEPT !.at = "timeout"]
  /\ UNCHANGED <<posts, count, wakePending, eventfd, ingress, pc, taken, accepted, ran, failed>>

\* cemon_timeout: zero when posts are waiting (read without the lock).
Timeout ==
  /\ owner.at = "timeout"
  /\ owner' = [owner EXCEPT !.at = "block", !.blocking = (posts = <<>>)]
  /\ UNCHANGED <<bits, posts, count, wakePending, eventfd, ingress, pc, taken, accepted, ran, failed>>

\* epoll_wait returns with the wake event, with nothing, or with an error.
Woken ==
  /\ owner.at = "block" /\ eventfd
  /\ owner' = [owner EXCEPT !.at = "read"]
  /\ UNCHANGED <<bits, posts, count, wakePending, eventfd, ingress, pc, taken, accepted, ran, failed>>

TimedOut ==
  /\ owner.at = "block" /\ ~eventfd /\ (Timeouts \/ ~owner.blocking)
  /\ owner' = [owner EXCEPT !.at = "out"]
  /\ UNCHANGED <<bits, posts, count, wakePending, eventfd, ingress, pc, taken, accepted, ran, failed>>

PollFails ==
  /\ owner.at = "block" /\ ~failed
  /\ failed' = TRUE
  /\ owner' = [owner EXCEPT !.at = "dispatch", !.phase = "last", !.budget = Budget]
  /\ UNCHANGED <<bits, posts, count, wakePending, eventfd, ingress, pc, taken, accepted, ran>>

\* cemon_handle_owner_wake: drain the eventfd first, clear wake_pending under the lock second.
ReadWake ==
  /\ owner.at = "read"
  /\ eventfd' = FALSE
  /\ owner' = [owner EXCEPT !.at = "clear"]
  /\ UNCHANGED <<bits, posts, count, wakePending, ingress, pc, taken, accepted, ran, failed>>

\* As a bug: the flag is left to post_take, which is not reached when the queue is empty.
ClearWakeNever ==
  /\ owner.at = "clear"
  /\ owner' = [owner EXCEPT !.at = "dispatch", !.phase = "wake", !.budget = Budget, !.consume = TRUE]
  /\ UNCHANGED <<bits, posts, count, wakePending, eventfd, ingress, pc, taken, accepted, ran, failed>>

ClearWake ==
  /\ owner.at = "clear"
  /\ wakePending' = FALSE
  /\ owner' = [owner EXCEPT !.at = "dispatch", !.phase = "wake", !.budget = Budget, !.consume = TRUE]
  /\ UNCHANGED <<bits, posts, count, eventfd, ingress, pc, taken, accepted, ran, failed>>

(***************************************************************************)
(* The owner in cemon_destroy, after a poll that returned -1.              *)
(***************************************************************************)
Destroy ==
  /\ owner.at \in {"ended", "abandoned"}
  /\ bits' = bits \cup {"STOP_REQUESTED", "CLOSING"}
  /\ owner' = [owner EXCEPT !.at = "closing"]
  /\ UNCHANGED <<posts, count, wakePending, eventfd, ingress, pc, taken, accepted, ran, failed>>

\* As a bug: the wait for the threads inside is skipped.
FreeAtOnce ==
  /\ owner.at = "closing"
  /\ posts' = <<>>
  /\ owner' = [owner EXCEPT !.at = "freed"]
  /\ UNCHANGED <<bits, count, wakePending, eventfd, ingress, pc, taken, accepted, ran, failed>>

\* cemon_ingress_close saw no thread inside: the posts and the loop are freed.
Free ==
  /\ owner.at = "closing" /\ ingress = 0
  /\ posts' = <<>>
  /\ owner' = [owner EXCEPT !.at = "freed"]
  /\ UNCHANGED <<bits, count, wakePending, eventfd, ingress, pc, taken, accepted, ran, failed>>

\* ... or it gave up after CEMON_INGRESS_CLOSE_WAIT_US, and nothing is freed.
GiveUp ==
  /\ owner.at = "closing" /\ ingress > 0
  /\ owner' = [owner EXCEPT !.at = "abandoned"]
  /\ UNCHANGED <<bits, posts, count, wakePending, eventfd, ingress, pc, taken, accepted, ran, failed>>

Callbacks == Take \/ Run \/ Finish
Polling == PollEnter \/ Callbacks \/ Dispatched \/ ProgressStop \/ Timeout \/ Woken \/ TimedOut
             \/ ReadWake \/ ClearWake
Teardown == Destroy \/ Free
Posting(p) == Enter(p) \/ Push(p) \/ Emit(p) \/ Leave(p)

LoopNext ==
  \/ \E p \in Producers : Posting(p)
  \/ \E s \in Stoppers : Stop(s) \/ Emit(s)
  \/ Polling \/ OwnerStop \/ PollFails \/ Teardown \/ GiveUp

\* The owner thread and a thread that is inside a call are scheduled; nobody has to post or stop.
LoopFairness ==
  /\ WF_loopVars(Polling) /\ WF_loopVars(Teardown)
  /\ \A p \in Producers : WF_loopVars(Push(p) \/ Emit(p) \/ Leave(p))
  /\ \A s \in Stoppers : WF_loopVars(Emit(s))

LoopSpec == LoopInit /\ [][LoopNext]_loopVars /\ LoopFairness

(***************************************************************************)
(* Properties                                                              *)
(***************************************************************************)
LoopTypeOK ==
  /\ bits \in SUBSET Bits
  /\ posts \in Seq(Nat) /\ taken \in Seq(Nat) /\ accepted \in Seq(Nat) /\ ran \in Seq(Nat)
  /\ count \in Nat /\ ingress \in Nat
  /\ wakePending \in BOOLEAN /\ eventfd \in BOOLEAN /\ failed \in BOOLEAN
  /\ pc \in [Producers \cup Stoppers -> {"idle", "push", "emit", "leave"}]
  /\ owner \in [at : Places, phase : {"first", "wake", "last"}, budget : 0..Budget,
                 consume : BOOLEAN, blocking : BOOLEAN]

Emitting == \E t \in DOMAIN pc : pc[t] = "emit"

\* No wake is lost: when the owner sleeps in epoll_wait without a time limit, the wake
\* descriptor is not readable and no thread is about to write it, then no task waits and no
\* stop request is unseen (cemon_post_push, cemon_stop, cemon_handle_owner_wake).
NoLostWake ==
  owner.at = "block" /\ owner.blocking /\ ~eventfd /\ ~Emitting =>
    posts = <<>> /\ ("STOP_REQUESTED" \in bits => "STOPPING" \in bits)

\* Tasks run once each, in the order they were accepted, across batches cut by the budget
\* and tasks posted by callbacks (cemon_post_take, cemon_post_finish).
PostsInOrder == owner.at # "freed" => ran \o taken \o posts = accepted

\* cemon_destroy frees the loop only when no thread is inside cemon_post (cemon_ingress_close).
QuietWhenFreed == owner.at = "freed" => Inside = {}

\* A loop that ended by a stop request has run every task it accepted (cemon_stop_ready).
NothingDropped == owner.at = "freed" /\ ~failed => ran = accepted

\* cemon_destroy frees the loop with nobody inside a post, and no task is lost to a stop.
FreedClean == QuietWhenFreed /\ NothingDropped

\* A task that was accepted runs, with no help from a poll period.
PostsRun == \A i \in 1..MaxPosts : Len(accepted) >= i ~> (Len(ran) >= i \/ failed)

\* A stop request ends the loop: the owner leaves its poll with -1 and can free the loop.
StopEnds == "STOP_REQUESTED" \in bits ~> owner.at = "freed"

\* The owner always gets on with it: with what was posted, and with a stop.
LoopGoesOn == PostsRun /\ StopEnds

\* What cemon_destroy says of its teardown ("would be a use-after-free on a thread that is
\* merely slow"), asked of every foreign thread: none is still going to touch a freed loop.
AliveWhenUsed == owner.at = "freed" => ~Emitting /\ Inside = {}
=============================================================================
