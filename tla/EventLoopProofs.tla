-------------------------- MODULE EventLoopProofs --------------------------
(***************************************************************************)
(* Proofs about the mailbox of the event loop, for any number of posting   *)
(* and stopping threads, any dispatch budget and any queue limit: no wake  *)
(* is lost, tasks run in the order they were accepted, and the loop is     *)
(* freed with no thread inside a post and no task left behind by a stop.   *)
(***************************************************************************)
EXTENDS EventLoop, Integers, FiniteSetTheorems, SequenceTheorems, TLAPS

Polled == {"dispatch", "run", "finish", "stop", "timeout", "block", "read", "clear"}

(***************************************************************************)
(* A wake that is pending is on its way: the descriptor is readable or a   *)
(* thread is about to write it, but for the moment between the owner's     *)
(* read and its clearing of the flag.  And whoever finds the owner asleep, *)
(* or about to sleep, has left the flag set.                               *)
(***************************************************************************)
WakeInv ==
  /\ wakePending \in BOOLEAN /\ eventfd \in BOOLEAN
  /\ owner \in [at : Places, phase : {"first", "wake", "last"}, budget : Int,
                consume : BOOLEAN, blocking : BOOLEAN]
  /\ pc \in [Producers \cup Stoppers -> {"idle", "push", "emit", "leave"}]
  /\ owner.at \in Polled => "RUNNING" \in bits
  /\ wakePending /\ owner.at # "clear" => eventfd \/ Emitting
  /\ owner.at = "block" /\ owner.blocking /\ posts # <<>> => wakePending
  /\ owner.at \in {"timeout", "block"} /\ "STOP_REQUESTED" \in bits /\ "STOPPING" \notin bits
       => wakePending

LEMMA WakeInit == LoopInit => WakeInv
<1> SUFFICES ASSUME LoopInit PROVE WakeInv
  BY Zenon
<1> USE LoopAssumption DEF LoopInit, Places
<1>1. owner \in [at : Places, phase : {"first", "wake", "last"}, budget : Int,
                consume : BOOLEAN, blocking : BOOLEAN]
  OBVIOUS
<1>2. pc \in [Producers \cup Stoppers -> {"idle", "push", "emit", "leave"}]
  BY Zenon
<1> QED
  BY <1>1, <1>2, Zenon DEF WakeInv, Polled, Emitting

LEMMA WakeStep == WakeInv /\ [LoopNext]_loopVars => WakeInv'
<1> SUFFICES ASSUME WakeInv, [LoopNext]_loopVars PROVE WakeInv'
  BY Zenon
<1> USE LoopAssumption DEF WakeInv, Places, Polled, Emitting
<1>0. Budget \in Int
  BY LoopAssumption
<1>1. ASSUME NEW p \in Producers, Enter(p) PROVE WakeInv'
  BY <1>1 DEF Enter, Open
<1>2. ASSUME NEW p \in Producers, Push(p) PROVE WakeInv'
  BY <1>2 DEF Push, Open
<1>3. ASSUME NEW t \in Producers \cup Stoppers, Emit(t) PROVE WakeInv'
  BY <1>3, Zenon DEF Emit
<1>4. ASSUME NEW p \in Producers, Leave(p) PROVE WakeInv'
  BY <1>4 DEF Leave
<1>5. ASSUME NEW s \in Stoppers, Stop(s) PROVE WakeInv'
  BY <1>5 DEF Stop
<1>6. CASE PollEnter
  <2>1. owner' \in [at : Places, phase : {"first", "wake", "last"}, budget : Int,
                   consume : BOOLEAN, blocking : BOOLEAN]
    BY <1>0, <1>6, Zenon DEF PollEnter
  <2>2. owner'.at = "dispatch"
    BY <1>6, Zenon DEF PollEnter
  <2> QED
    BY <1>6, <2>1, <2>2, Zenon DEF PollEnter
<1>7. CASE Take
  BY <1>7, Zenon DEF Take
<1>8. CASE Run
  <2>1. owner' \in [at : Places, phase : {"first", "wake", "last"}, budget : Int,
                   consume : BOOLEAN, blocking : BOOLEAN]
    <3>1. owner.budget - 1 \in Int
      OBVIOUS
    <3> DEFINE b == owner.budget - 1
    <3> HIDE DEF b
    <3>2. owner' = [owner EXCEPT !.at = "finish", !.budget = b]
      BY <1>8, Zenon DEF Run, b
    <3> QED
      BY <3>1, <3>2, Zenon DEF b
  <2>2. owner'.at = "finish"
    BY <1>8, Zenon DEF Run
  <2> QED
    BY <1>8, <2>1, <2>2, Zenon DEF Run
<1>9. CASE Finish
  BY <1>9, Zenon DEF Finish
<1>10. CASE Dispatched
  BY <1>10, Zenon DEF Dispatched
<1>11. CASE ProgressStop
  <2>1. owner' \in [at : Places, phase : {"first", "wake", "last"}, budget : Int,
                   consume : BOOLEAN, blocking : BOOLEAN]
    <3>1. CASE owner' = [owner EXCEPT !.at = "timeout"]
      BY <3>1, Zenon
    <3>2. CASE owner' = [owner EXCEPT !.at = "dispatch", !.phase = "last", !.budget = Budget]
      BY <1>0, <3>2, Zenon
    <3> QED
      BY <1>11, <3>1, <3>2, Zenon DEF ProgressStop
  <2>2. owner'.at \in {"timeout", "dispatch"}
    BY <1>11, Zenon DEF ProgressStop, Open
  <2> QED
    BY <1>11, <2>1, <2>2, Zenon DEF ProgressStop, Open
<1>12. CASE Timeout
  BY <1>12, Zenon DEF Timeout
<1>13. CASE Woken \/ TimedOut \/ PollFails
  <2>1. owner' \in [at : Places, phase : {"first", "wake", "last"}, budget : Int,
                   consume : BOOLEAN, blocking : BOOLEAN]
    BY <1>0, <1>13 DEF Woken, TimedOut, PollFails
  <2>2. owner'.at \in {"read", "out", "dispatch"}
    BY <1>13, Zenon DEF Woken, TimedOut, PollFails
  <2> QED
    BY <1>13, <2>1, <2>2 DEF Woken, TimedOut, PollFails
<1>14. CASE ReadWake \/ ClearWake
  <2>1. owner' \in [at : Places, phase : {"first", "wake", "last"}, budget : Int,
                   consume : BOOLEAN, blocking : BOOLEAN]
    BY <1>0, <1>14, Zenon DEF ReadWake, ClearWake
  <2>2. owner'.at = IF ReadWake THEN "clear" ELSE "dispatch"
    BY <1>14, Zenon DEF ReadWake, ClearWake
  <2> QED
    BY <1>14, <2>1, <2>2, Zenon DEF ReadWake, ClearWake
<1>15. CASE Destroy \/ Free \/ GiveUp
  BY <1>15 DEF Destroy, Free, GiveUp
<1>16. CASE OwnerStop
  BY <1>16, Zenon DEF OwnerStop
<1>17. CASE UNCHANGED loopVars
  BY <1>17 DEF loopVars
<1> QED
  BY <1>1, <1>2, <1>3, <1>4, <1>5, <1>6, <1>7, <1>8, <1>9, <1>10, <1>11, <1>12, <1>13, <1>14,
     <1>15, <1>17, <1>16, Zenon
     DEF LoopNext, Posting, Polling, Callbacks, Teardown

\* No wake is lost, for any number of threads: an owner asleep without a time limit, with no
\* wake on its way, has no task waiting and no stop request unseen (cemon_post_push,
\* cemon_stop, cemon_handle_owner_wake).
THEOREM WakeNeverLost == LoopSpec => []NoLostWake
<1>1. WakeInv => NoLostWake
  BY Zenon DEF WakeInv, NoLostWake
<1> QED
  BY WakeInit, WakeStep, <1>1, PTL DEF LoopSpec

(***************************************************************************)
(* The ingress count is the number of threads inside a post, and a loop    *)
(* that is closing admits no more of them.                                 *)
(***************************************************************************)
IngressInv ==
  /\ ingress = Cardinality(Inside)
  /\ owner.at \in {"closing", "freed"} => "CLOSING" \in bits
  /\ owner.at = "freed" => Inside = {}

LEMMA InsideFinite == IsFiniteSet(Inside)
  BY LoopAssumption, FS_Subset, Zenon DEF Inside

LEMMA IngressInit == LoopInit => IngressInv
<1> SUFFICES ASSUME LoopInit PROVE IngressInv
  BY Zenon
<1>1. Inside = {}
  BY Zenon DEF LoopInit, Inside
<1>2. owner.at = "out" /\ ingress = 0
  BY Zenon DEF LoopInit
<1> QED
  BY <1>1, <1>2, FS_EmptySet, Zenon DEF IngressInv

LEMMA IngressStep == WakeInv /\ IngressInv /\ [LoopNext]_loopVars => IngressInv'
<1> SUFFICES ASSUME WakeInv, IngressInv, [LoopNext]_loopVars PROVE IngressInv'
  BY Zenon
<1> USE LoopAssumption
<1>a. /\ pc \in [Producers \cup Stoppers -> {"idle", "push", "emit", "leave"}]
      /\ owner \in [at : Places, phase : {"first", "wake", "last"}, budget : Int,
                    consume : BOOLEAN, blocking : BOOLEAN]
  BY Zenon DEF WakeInv
<1>b. ASSUME NEW p \in Producers, p \in Inside, Inside' = Inside \ {p}, ingress' = ingress - 1,
             UNCHANGED <<bits, owner>>
      PROVE IngressInv'
  <2>1. Cardinality(Inside') = Cardinality(Inside) - 1
    BY <1>b, InsideFinite, FS_RemoveElement, Zenon
  <2> QED
    BY <1>b, <2>1, Zenon DEF IngressInv
<1>c. ASSUME Inside' = Inside, UNCHANGED <<ingress, bits, owner>> PROVE IngressInv'
  BY <1>c, Zenon DEF IngressInv
<1>d. ASSUME UNCHANGED <<pc, ingress>>, bits \ {"RUNNING"} \subseteq bits',
             owner'.at \in {"closing", "freed"} => "CLOSING" \in bits',
             owner'.at = "freed" => Inside = {}
      PROVE IngressInv'
  <2>1. Inside' = Inside
    BY <1>d, Zenon DEF Inside
  <2> QED
    BY <1>d, <2>1, Zenon DEF IngressInv
<1>1. ASSUME NEW p \in Producers, Enter(p) PROVE IngressInv'
  <2>1. Inside' = Inside \cup {p} /\ p \notin Inside
    BY <1>1, <1>a, Zenon DEF Enter, Inside
  <2>2. Cardinality(Inside') = Cardinality(Inside) + 1
    BY <2>1, InsideFinite, FS_AddElement, Zenon
  <2>3. owner.at \notin {"closing", "freed"}
    BY <1>1, Zenon DEF Enter, Open, IngressInv
  <2> QED
    BY <1>1, <2>2, <2>3, Zenon DEF Enter, IngressInv
<1>2. ASSUME NEW p \in Producers, Push(p) PROVE IngressInv'
  <2>1. p \in Inside
    BY <1>2, Zenon DEF Push, Inside
  <2>2. CASE pc' = [pc EXCEPT ![p] = "emit"] /\ ingress' = ingress
    <3>1. Inside' = Inside
      BY <2>1, <2>2, <1>a, Zenon DEF Inside
    <3> QED
      BY <1>2, <2>2, <3>1, <1>c, Zenon DEF Push
  <2>3. CASE pc' = [pc EXCEPT ![p] = "idle"] /\ ingress' = ingress - 1
    <3>1. Inside' = Inside \ {p}
      BY <2>1, <2>3, <1>a, Zenon DEF Inside
    <3> QED
      BY <1>2, <2>1, <2>3, <3>1, <1>b, Zenon DEF Push
  <2> QED
    BY <1>2, <2>2, <2>3, Zenon DEF Push
<1>3. ASSUME NEW t \in Producers \cup Stoppers, Emit(t) PROVE IngressInv'
  <2>1. Inside' = Inside
    BY <1>3, <1>a, Zenon DEF Emit, Inside
  <2> QED
    BY <1>3, <2>1, <1>c, Zenon DEF Emit
<1>4. ASSUME NEW p \in Producers, Leave(p) PROVE IngressInv'
  <2>1. p \in Inside /\ Inside' = Inside \ {p}
    BY <1>4, <1>a, Zenon DEF Leave, Inside
  <2> QED
    BY <1>4, <2>1, <1>b, Zenon DEF Leave
<1>5. ASSUME NEW s \in Stoppers, Stop(s) PROVE IngressInv'
  <2>1. Inside' = Inside
    BY <1>5, <1>a, Zenon DEF Stop, Inside
  <2> QED
    BY <1>5, <2>1, Zenon DEF Stop, IngressInv
<1>6. CASE Polling \/ PollFails
  <2>1. owner'.at \notin {"closing", "freed"}
    BY <1>6, <1>a DEF Polling, Callbacks, PollEnter, Take, Run, Finish, Dispatched, ProgressStop,
                      Timeout, Woken, TimedOut, ReadWake, ClearWake, PollFails
  <2>2. UNCHANGED <<pc, ingress>> /\ bits \ {"RUNNING"} \subseteq bits'
    BY <1>6, Zenon DEF Polling, Callbacks, PollEnter, Take, Run, Finish, Dispatched, ProgressStop,
                Timeout, Woken, TimedOut, ReadWake, ClearWake, PollFails
  <2> QED
    BY <2>1, <2>2, <1>d, Zenon
<1>7. CASE Destroy \/ GiveUp
  <2>1. owner'.at \in {"closing", "abandoned"}
    BY <1>7, <1>a, Zenon DEF Destroy, GiveUp
  <2> QED
    <3>1. CASE Destroy
      BY <1>d, <2>1, <3>1, Zenon DEF Destroy
    <3>2. CASE GiveUp
      <4>1. owner'.at = "abandoned"
        BY <3>2, <1>a, Zenon DEF GiveUp
      <4> QED
        BY <1>d, <3>2, <4>1, Zenon DEF GiveUp
    <3> QED
      BY <1>7, <3>1, <3>2, Zenon
<1>8. CASE Free
  <2>1. Inside = {}
    BY <1>8, InsideFinite, FS_EmptySet, Zenon DEF Free, IngressInv
  <2>2. "CLOSING" \in bits' /\ UNCHANGED <<pc, ingress, bits>>
    BY <1>8, Zenon DEF Free, IngressInv
  <2> QED
    BY <2>1, <2>2, <1>d, Zenon
<1>10. CASE OwnerStop
  BY <1>10, <1>d, Zenon DEF OwnerStop, IngressInv
<1>9. CASE UNCHANGED loopVars
  <2>1. Inside' = Inside
    BY <1>9, Zenon DEF loopVars, Inside
  <2> QED
    BY <1>9, <2>1, <1>c, Zenon DEF loopVars
<1> QED
  BY <1>1, <1>2, <1>3, <1>4, <1>5, <1>6, <1>7, <1>8, <1>9, <1>10, Zenon DEF LoopNext, Posting, Teardown

\* The loop is freed only when no thread is inside cemon_post, for any number of threads
\* (cemon_ingress_enter, cemon_ingress_leave, cemon_ingress_close).
THEOREM FreedWhenQuiet == LoopSpec => []QuietWhenFreed
<1>1. IngressInv => QuietWhenFreed
  BY Zenon DEF IngressInv, QuietWhenFreed
<1> QED
  BY WakeInit, WakeStep, IngressInit, IngressStep, <1>1, PTL DEF LoopSpec
(***************************************************************************)
(* The mailbox is a queue: what ran, what is detached and what waits is    *)
(* what was accepted, in order.  The count is what waits and what is       *)
(* detached, and the task of a callback until cemon_post_finish.  So a     *)
(* poll that finds the count zero after a stop request has an empty queue  *)
(* that no foreign thread can fill again, and the last dispatch runs no    *)
(* callback that could.                                                    *)
(***************************************************************************)
Ending == {"dispatch", "ended", "closing", "abandoned", "freed"}

QueueInv ==
  /\ posts \in Seq(Nat) /\ taken \in Seq(Nat) /\ accepted \in Seq(Nat) /\ ran \in Seq(Nat)
  /\ owner.at = "run" => taken # <<>>
  /\ owner.at \notin {"run", "finish"} => taken = <<>>
  /\ owner.at # "freed" => (ran \o taken) \o posts = accepted
  /\ owner.at # "freed" =>
       count = Len(posts) + Len(taken) + (IF owner.at = "finish" THEN 1 ELSE 0)
  /\ owner.at \in {"ended", "closing", "abandoned", "freed"} => owner.phase = "last"
  /\ owner.phase = "last" /\ ~failed => owner.at \in Ending /\ posts = <<>> /\ ~Open
  /\ owner.at = "freed" /\ ~failed => ran = accepted

LEMMA Associates ==
  ASSUME NEW s \in Seq(Nat), NEW t \in Seq(Nat), NEW u \in Seq(Nat)
  PROVE  (s \o t) \o u = s \o (t \o u)
OBVIOUS

LEMMA AcceptedLast ==
  ASSUME NEW r \in Seq(Nat), NEW t \in Seq(Nat), NEW q \in Seq(Nat), NEW x \in Nat
  PROVE  (r \o t) \o Append(q, x) = Append((r \o t) \o q, x)
OBVIOUS

LEMMA RanFirst ==
  ASSUME NEW r \in Seq(Nat), NEW t \in Seq(Nat), t # <<>>
  PROVE  /\ Append(r, Head(t)) \in Seq(Nat) /\ Tail(t) \in Seq(Nat)
         /\ Append(r, Head(t)) \o Tail(t) = r \o t
         /\ Len(t) = Len(Tail(t)) + 1
<1>1. Head(t) \in Nat /\ Tail(t) \in Seq(Nat) /\ Len(Tail(t)) = Len(t) - 1
  BY HeadTailProperties, Zenon
<1> DEFINE h == <<Head(t)>>
           u == Tail(t)
<1>2. t = h \o u
  BY HeadTailProperties
<1>3. h \in Seq(Nat) /\ Append(r, Head(t)) = r \o h
  BY <1>1, AppendIsConcat
<1>4. Append(r, Head(t)) \in Seq(Nat) /\ Len(t) = Len(u) + 1
  BY <1>1, AppendProperties, LenProperties
<1>5. u \in Seq(Nat)
  BY <1>1, Zenon
<1>6. (r \o h) \o u = r \o (h \o u)
  <2> HIDE DEF h, u
  <2> QED
    BY <1>3, <1>5, Associates, Zenon
<1>7. Append(r, Head(t)) \o u = r \o t
  BY <1>2, <1>3, <1>6, Zenon
<1> QED
  BY <1>4, <1>5, <1>7, Zenon DEF u

LEMMA QueueInit == LoopInit => QueueInv
<1> SUFFICES ASSUME LoopInit PROVE QueueInv
  BY Zenon
<1>1. /\ owner.at = "out" /\ owner.phase = "first" /\ count = 0
      /\ posts = <<>> /\ taken = <<>> /\ ran = <<>> /\ accepted = <<>>
  BY Zenon DEF LoopInit
<1>2. <<>> \in Seq(Nat) /\ Len(<<>>) = 0 /\ (<<>> \o <<>>) \o <<>> = <<>>
  BY EmptySeq, ConcatEmptySeq, Zenon
<1> QED
  BY <1>1, <1>2 DEF QueueInv

LEMMA QueueStep == WakeInv /\ IngressInv /\ QueueInv /\ [LoopNext]_loopVars => QueueInv'
<1> SUFFICES ASSUME WakeInv, IngressInv, QueueInv, [LoopNext]_loopVars PROVE QueueInv'
  BY Zenon
<1>a. /\ pc \in [Producers \cup Stoppers -> {"idle", "push", "emit", "leave"}]
      /\ owner \in [at : Places, phase : {"first", "wake", "last"}, budget : Int,
                    consume : BOOLEAN, blocking : BOOLEAN]
  BY Zenon DEF WakeInv
<1>b. Budget \in Int
  BY LoopAssumption
<1>t. /\ posts \in Seq(Nat) /\ taken \in Seq(Nat) /\ accepted \in Seq(Nat) /\ ran \in Seq(Nat)
      /\ Len(posts) \in Nat /\ Len(taken) \in Nat /\ Len(accepted) + 1 \in Nat
  BY LenProperties DEF QueueInv
\* A step that only moves the owner, or closes the mailbox further.
<1>m. ASSUME UNCHANGED <<posts, taken, accepted, ran, count, failed>>, Open' => Open,
             owner.at \notin {"run", "finish"}, owner'.at \notin {"run", "finish", "freed"},
             owner.at # "freed",
             owner'.at \in {"ended", "closing", "abandoned"} => owner'.phase = "last",
             owner'.phase = "last" /\ ~failed => owner'.at \in Ending /\ posts = <<>> /\ ~Open'
      PROVE  QueueInv'
  BY <1>m, Zenon DEF QueueInv
\* A step of a foreign thread that leaves the queue alone.
<1>n. ASSUME UNCHANGED <<posts, taken, accepted, ran, count, failed, owner>>, Open' => Open
      PROVE  QueueInv'
  BY <1>n, Zenon DEF QueueInv
\* A task that is accepted.
<1>p. ASSUME Open, Len(accepted) + 1 \in Nat, posts' = Append(posts, Len(accepted) + 1),
             accepted' = Append(accepted, Len(accepted) + 1), count' = count + 1,
             UNCHANGED <<taken, ran, bits, owner, failed>>, owner.at # "freed"
      PROVE  QueueInv'
  <2>1. posts' \in Seq(Nat) /\ accepted' \in Seq(Nat) /\ Len(posts') = Len(posts) + 1
    BY <1>p, <1>t, AppendProperties, Zenon
  <2>2. (ran \o taken) \o posts' = accepted'
    <3> DEFINE x == Len(accepted) + 1
    <3>0. x \in Nat
      BY <1>p, <1>t, Zenon
    <3>1. (ran \o taken) \o posts = accepted
      BY <1>p, Zenon DEF QueueInv
    <3> HIDE DEF x
    <3>2. (ran \o taken) \o Append(posts, x) = Append((ran \o taken) \o posts, x)
      <4>1. PICK r, s, q : r = ran /\ s = taken /\ q = posts
        BY Zenon
      <4>2. r \in Seq(Nat) /\ s \in Seq(Nat) /\ q \in Seq(Nat)
        BY <4>1, <1>t, Zenon
      <4>3. (r \o s) \o Append(q, x) = Append((r \o s) \o q, x)
        BY <3>0, <4>2, AcceptedLast, Zenon
      <4> QED
        BY <4>1, <4>3, Zenon
    <3> QED
      BY <1>p, <3>1, <3>2, Zenon DEF x
  <2>3. ~(owner.phase = "last" /\ ~failed)
    BY <1>p, Zenon DEF QueueInv
  <2>4. count = Len(posts) + Len(taken) + (IF owner.at = "finish" THEN 1 ELSE 0)
    BY <1>p, Zenon DEF QueueInv
  <2>5. count' = Len(posts') + Len(taken') + (IF owner'.at = "finish" THEN 1 ELSE 0)
    BY <1>p, <1>t, <2>1, <2>4
  <2> QED
    BY <1>p, <1>t, <2>1, <2>2, <2>3, <2>5, Zenon DEF QueueInv
<1>1. ASSUME NEW p \in Producers, Enter(p) PROVE QueueInv'
  BY <1>1, <1>n, Zenon DEF Enter, Open
<1>2. ASSUME NEW p \in Producers, Push(p) PROVE QueueInv'
  <2>1. owner.at # "freed"
    BY <1>2, Zenon DEF Push, Inside, IngressInv
  <2>2. CASE Open /\ count < Limit
    BY <1>2, <1>p, <1>t, <2>1, <2>2, Zenon DEF Push
  <2>3. CASE ~(Open /\ count < Limit)
    BY <1>2, <1>n, <2>3, Zenon DEF Push, Open
  <2> QED
    BY <2>2, <2>3, Zenon
<1>3. ASSUME NEW t \in Producers \cup Stoppers, Emit(t) PROVE QueueInv'
  BY <1>3, <1>n, Zenon DEF Emit, Open
<1>4. ASSUME NEW p \in Producers, Leave(p) PROVE QueueInv'
  BY <1>4, <1>n, Zenon DEF Leave, Open
<1>5. ASSUME NEW s \in Stoppers, Stop(s) PROVE QueueInv'
  BY <1>5, <1>n, Zenon DEF Stop, Open
<1>6. CASE OwnerStop
  BY <1>6, <1>n, Zenon DEF OwnerStop, Open
<1>7. CASE PollEnter
  <2>1. owner'.at = "dispatch" /\ owner'.phase = "first"
    BY <1>7, <1>a, Zenon DEF PollEnter
  <2> QED
    BY <1>7, <1>m, <2>1, Zenon DEF PollEnter, Open
<1>8. CASE Take
  <2>1. owner'.at = "run" /\ owner'.phase = owner.phase /\ taken = <<>>
    BY <1>8, <1>a, Zenon DEF Take, QueueInv
  <2>2. (ran \o <<>>) \o posts = (ran \o posts) \o <<>> /\ Len(<<>>) = 0 /\ <<>> \in Seq(Nat)
    BY <1>t, ConcatEmptySeq, ConcatProperties, EmptySeq
  <2>3. ~(owner.phase = "last" /\ ~failed)
    BY <1>8, Zenon DEF Take, QueueInv
  <2> QED
    BY <1>8, <1>t, <2>1, <2>2, <2>3 DEF Take, QueueInv
<1>9. CASE Run
  <2>1. owner'.at = "finish" /\ owner'.phase = owner.phase
    BY <1>9, <1>a, Zenon DEF Run
  <2>2. /\ ran' \in Seq(Nat) /\ taken' \in Seq(Nat) /\ ran' \o taken' = ran \o taken
        /\ Len(taken) = Len(taken') + 1 /\ Len(taken') \in Nat
    BY <1>9, <1>t, RanFirst, LenProperties, Zenon DEF Run, QueueInv
  <2>3. ~(owner.phase = "last" /\ ~failed)
    BY <1>9, Zenon DEF Run, QueueInv, Ending
  <2>4. (ran \o taken) \o posts = accepted /\ count = Len(posts) + Len(taken)
    <3>1. owner.at = "run" /\ count = Len(posts) + Len(taken) + 0 /\ (ran \o taken) \o posts = accepted
      BY <1>9, Zenon DEF Run, QueueInv
    <3> QED
      BY <1>t, <3>1
  <2>5. CASE UNCHANGED <<posts, accepted, count>>
    <3>1. (ran' \o taken') \o posts' = accepted'
      BY <2>2, <2>4, <2>5, Zenon
    <3>2. count' = Len(posts') + Len(taken') + 1
      BY <1>t, <2>2, <2>4, <2>5
    <3> QED
      BY <1>9, <1>t, <2>1, <2>2, <2>3, <2>5, <3>1, <3>2, Zenon DEF Run, QueueInv
  <2>6. CASE /\ posts' = Append(posts, Len(accepted) + 1)
             /\ accepted' = Append(accepted, Len(accepted) + 1)
             /\ count' = count + 1
    <3>1. posts' \in Seq(Nat) /\ accepted' \in Seq(Nat) /\ Len(posts') = Len(posts) + 1
      BY <2>6, <1>t, AppendProperties, Zenon
    <3>2. (ran \o taken) \o posts' = accepted'
      <4> DEFINE x == Len(accepted) + 1
      <4>1. x \in Nat
        BY <1>t, Zenon
      <4> HIDE DEF x
      <4>2. (ran \o taken) \o Append(posts, x) = Append((ran \o taken) \o posts, x)
        <5>1. PICK r, s, q : r = ran /\ s = taken /\ q = posts
          BY Zenon
        <5>2. r \in Seq(Nat) /\ s \in Seq(Nat) /\ q \in Seq(Nat)
          BY <5>1, <1>t, Zenon
        <5>3. (r \o s) \o Append(q, x) = Append((r \o s) \o q, x)
          BY <4>1, <5>2, AcceptedLast, Zenon
        <5> QED
          BY <5>1, <5>3, Zenon
      <4> QED
        BY <2>4, <2>6, <4>2, Zenon DEF x
    <3>3. (ran' \o taken') \o posts' = accepted'
      BY <2>2, <3>2, Zenon
    <3>4. count' = Len(posts') + Len(taken') + 1
      BY <1>t, <2>2, <2>4, <2>6, <3>1
    <3> QED
      BY <1>9, <2>1, <2>2, <2>3, <3>1, <3>3, <3>4, Zenon DEF Run, QueueInv
  <2> QED
    BY <1>9, <2>5, <2>6, Zenon DEF Run
<1>10. CASE Finish
  <2>1. owner'.at = "dispatch" /\ owner'.phase = owner.phase
    BY <1>10, <1>a, Zenon DEF Finish
  <2>2. ~(owner.phase = "last" /\ ~failed)
    BY <1>10, Zenon DEF Finish, QueueInv, Ending
  <2>3. /\ posts' \in Seq(Nat) /\ Len(posts') = Len(taken) + Len(posts)
        /\ (ran \o taken) \o posts = ran \o posts' /\ (ran \o <<>>) \o posts' = ran \o posts'
        /\ <<>> \in Seq(Nat) /\ Len(<<>>) = 0
    <3>1. posts' = taken \o posts
      BY <1>10, Zenon DEF Finish
    <3>2. posts' \in Seq(Nat) /\ Len(posts') = Len(taken) + Len(posts)
      BY <1>t, <3>1, ConcatProperties, Zenon
    <3>3. (ran \o taken) \o posts = ran \o (taken \o posts)
      BY <1>t, Associates, Zenon
    <3>4. (ran \o <<>>) = ran /\ <<>> \in Seq(Nat) /\ Len(<<>>) = 0
      BY <1>t, ConcatEmptySeq, EmptySeq, Zenon
    <3>5. (ran \o taken) \o posts = ran \o posts'
      BY <3>1, <3>3, Zenon
    <3>6. (ran \o <<>>) \o posts' = ran \o posts'
      BY <3>4, Zenon
    <3> QED
      BY <3>2, <3>4, <3>5, <3>6, Zenon
  <2>4. (ran \o taken) \o posts = accepted /\ count = Len(posts) + Len(taken) + 1
    BY <1>10, Zenon DEF Finish, QueueInv
  <2>5. count' = Len(posts') + Len(<<>>) + 0
    BY <1>10, <1>t, <2>3, <2>4 DEF Finish
  <2>6. /\ taken' = <<>> /\ ran' = ran /\ accepted' = accepted /\ failed' = failed
        /\ accepted \in Seq(Nat) /\ ran \in Seq(Nat)
    BY <1>10, <1>t, Zenon DEF Finish
  <2>7. (ran' \o taken') \o posts' = accepted' /\ count' = Len(posts') + Len(taken') + 0
    BY <2>3, <2>4, <2>5, <2>6, Zenon
  <2>8. ~(owner'.phase = "last" /\ ~failed')
    BY <2>1, <2>2, <2>6
  <2>9. count' = Len(posts') + Len(taken') + (IF owner'.at = "finish" THEN 1 ELSE 0)
    BY <2>1, <2>7, Zenon
  <2> QED
    BY <2>1, <2>3, <2>6, <2>7, <2>8, <2>9, Zenon DEF QueueInv
<1>11. CASE Dispatched
  <2>1. /\ owner'.phase = owner.phase
        /\ owner'.at = CASE owner.phase = "first" -> "stop"
                         [] owner.phase = "wake"  -> "out"
                         [] owner.phase = "last"  -> "ended"
    BY <1>11, <1>a, Zenon DEF Dispatched
  <2>2. Open' = Open
    BY <1>11, Zenon DEF Dispatched, Open
  <2>3. owner.phase \in {"first", "wake", "last"}
    BY <1>a, Zenon
  <2> QED
    BY <1>11, <1>m, <2>1, <2>2, <2>3 DEF Dispatched, QueueInv, Ending
<1>12. CASE ProgressStop
  <2>1. CASE Open
    <3>1. owner'.at = "timeout" /\ owner'.phase = owner.phase /\ bits' = bits
      BY <1>12, <1>a, <2>1, Zenon DEF ProgressStop
    <3>2. ~(owner.phase = "last" /\ ~failed)
      BY <2>1, Zenon DEF QueueInv
    <3> QED
      BY <1>12, <1>m, <3>1, <3>2, Zenon DEF ProgressStop, Open
  <2>2. CASE ~Open /\ count = 0
    <3>1. owner'.at = "dispatch" /\ owner'.phase = "last"
      BY <1>12, <1>a, <2>2, Zenon DEF ProgressStop
    <3>2. Len(posts) = 0
      BY <1>12, <1>t, <2>2 DEF ProgressStop, QueueInv
    <3>3. posts = <<>>
      BY <1>t, <3>2, EmptySeq, Zenon
    <3>4. ~Open'
      BY <1>12, <2>2, Zenon DEF ProgressStop, Open
    <3> QED
      BY <1>12, <1>m, <3>1, <3>3, <3>4, <2>2, Zenon DEF ProgressStop, Ending
  <2>3. CASE ~Open /\ count # 0
    <3>1. owner'.at = "timeout" /\ owner'.phase = owner.phase
      BY <1>12, <1>a, <2>3, Zenon DEF ProgressStop
    <3>2. ~(owner.phase = "last" /\ ~failed)
      BY <1>12, Zenon DEF ProgressStop, QueueInv, Ending
    <3> QED
      BY <1>12, <1>m, <3>1, <3>2, <2>3, Zenon DEF ProgressStop, Open
  <2> QED
    BY <2>1, <2>2, <2>3, Zenon
<1>13. CASE Timeout \/ Woken \/ TimedOut \/ ReadWake
  <2>1. owner'.phase = owner.phase /\ owner'.at \in {"block", "read", "out", "clear"}
    BY <1>13, <1>a, Zenon DEF Timeout, Woken, TimedOut, ReadWake
  <2>2. ~(owner.phase = "last" /\ ~failed)
    BY <1>13, Zenon DEF Timeout, Woken, TimedOut, ReadWake, QueueInv, Ending
  <2>3. /\ owner.at \in {"timeout", "block", "read"}
        /\ UNCHANGED <<bits, posts, taken, accepted, ran, count, failed>>
    BY <1>13, Zenon DEF Timeout, Woken, TimedOut, ReadWake
  <2> QED
    BY <1>m, <2>1, <2>2, <2>3, Zenon DEF Open
<1>14. CASE ClearWake
  <2>1. owner'.phase = "wake" /\ owner'.at = "dispatch"
    BY <1>14, <1>a, Zenon DEF ClearWake
  <2> QED
    BY <1>14, <1>m, <2>1, Zenon DEF ClearWake, Open
<1>15. CASE PollFails
  <2>1. owner'.phase = "last" /\ owner'.at = "dispatch" /\ failed'
    BY <1>15, <1>a, Zenon DEF PollFails
  <2> QED
    BY <1>15, <2>1, Zenon DEF PollFails, QueueInv
<1>16. CASE Destroy \/ GiveUp
  <2>1. owner'.phase = owner.phase /\ owner'.at \in {"closing", "abandoned"}
    BY <1>16, <1>a, Zenon DEF Destroy, GiveUp
  <2>2. /\ owner.at \in {"ended", "abandoned", "closing"} /\ (Open' => Open)
        /\ UNCHANGED <<posts, taken, accepted, ran, count, failed>>
    BY <1>16, Zenon DEF Destroy, GiveUp, Open
  <2> QED
    BY <1>m, <2>1, <2>2, Zenon DEF QueueInv, Ending
<1>17. CASE Free
  <2>1. owner'.phase = owner.phase /\ owner'.at = "freed"
    BY <1>17, <1>a, Zenon DEF Free
  <2>2. (ran \o <<>>) \o <<>> = ran /\ <<>> \in Seq(Nat)
    BY <1>t, ConcatEmptySeq, EmptySeq, Zenon
  <2>3. owner.phase = "last" /\ taken = <<>> /\ (ran \o taken) \o posts = accepted
    BY <1>17, Zenon DEF Free, QueueInv
  <2>4. ~failed => posts = <<>> /\ ~Open
    BY <2>3, Zenon DEF QueueInv
  <2> QED
    BY <1>17, <1>t, <2>1, <2>2, <2>3, <2>4, Zenon DEF Free, QueueInv, Ending, Open
<1>18. CASE UNCHANGED loopVars
  BY <1>18, <1>n, Zenon DEF loopVars, Open
<1> QED
  BY <1>1, <1>2, <1>3, <1>4, <1>5, <1>6, <1>7, <1>8, <1>9, <1>10, <1>11, <1>12, <1>13, <1>14,
     <1>15, <1>16, <1>17, <1>18, Zenon
     DEF LoopNext, Posting, Polling, Callbacks, Teardown

LEMMA QueueAlways == LoopSpec => [](WakeInv /\ IngressInv /\ QueueInv)
  BY WakeInit, WakeStep, IngressInit, IngressStep, QueueInit, QueueStep, PTL DEF LoopSpec

\* Tasks run once each, in the order in which they were accepted, for any number of posting
\* threads, any budget and any limit (cemon_post_take, cemon_post_finish).
THEOREM RunInOrder == LoopSpec => []PostsInOrder
<1>1. QueueInv => PostsInOrder
  BY Zenon DEF QueueInv, PostsInOrder
<1> QED
  BY QueueAlways, <1>1, PTL

\* A loop is freed with no thread inside a post, and with every accepted task run unless its
\* poll had failed (cemon_progress_stop, cemon_ingress_close).
THEOREM FreedInOrder == LoopSpec => []FreedClean
<1>1. IngressInv /\ QueueInv => FreedClean
  BY Zenon DEF IngressInv, QueueInv, FreedClean, QuietWhenFreed, NothingDropped
<1> QED
  BY QueueAlways, <1>1, PTL
=============================================================================
