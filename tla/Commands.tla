------------------------------ MODULE Commands ------------------------------
(***************************************************************************)
(* The state machine of the server (kserver.h): what an applied command    *)
(* does to the store and what it answers, and the command "transfer",      *)
(* whose write-set is computed on the leader and replayed everywhere.      *)
(* A store is a function from the keys present to values; keys are ordered *)
(* as integers are.                                                        *)
(***************************************************************************)
EXTENDS Integers, Sequences, FiniteSets, Functions

CONSTANT MaxValue   \* the largest value of a k_u64
ASSUME CommandsAssumption == MaxValue \in Nat

Put(store, k, v) == [x \in DOMAIN store \cup {k} |-> IF x = k THEN v ELSE store[x]]
Drop(store, K) == Restrict(store, DOMAIN store \ K)

\* An empty bound is no bound; the end is exclusive.
InRange(k, begin, end) == (begin = <<>> \/ k >= begin[1]) /\ (end = <<>> \/ k < end[1])

\* Answers: a number of keys, a conflict, or nothing.
Done(store) == [store |-> store, answer |-> "ok", count |-> 0]
Counted(store, n) == [store |-> store, answer |-> "ok", count |-> n]
Conflict(store) == [store |-> store, answer |-> "conflict", count |-> 0]

\* A list of writes, in order, on a fork that replaces the tree when all succeed.
Replay(store, writes) ==
  LET step[i \in 0 .. Len(writes)] ==
        IF i = 0 THEN store ELSE Put(step[i - 1], writes[i].key, writes[i].value)
  IN  step[Len(writes)]

\* K_OP_CAS: mode SETNX wants the key absent, mode CMP wants the value old.
Cas(store, c) ==
  LET exists == c.key \in DOMAIN store
      conflict == IF c.old = <<>> THEN exists ELSE ~(exists /\ store[c.key] = c.old[1])
  IN  IF conflict THEN Conflict(store) ELSE Done(Put(store, c.key, c.value))

\* k_server_apply_command.
Apply(store, c) ==
  CASE c.op = "SET" -> Done(Put(store, c.key, c.value))
    [] c.op = "DEL" -> Done(Drop(store, {c.key}))
    [] c.op = "MSET" -> Counted(Replay(store, c.writes), Len(c.writes))
    [] c.op = "MDEL" -> Counted(Drop(store, c.keys), Cardinality(c.keys \cap DOMAIN store))
    [] c.op = "RSET" -> LET K == {k \in DOMAIN store : InRange(k, c.begin, c.end)}
                        IN  Counted([k \in DOMAIN store |-> IF k \in K THEN c.value ELSE store[k]], Cardinality(K))
    [] c.op = "RDEL" -> LET K == {k \in DOMAIN store : InRange(k, c.begin, c.end)}
                        IN  Counted(Drop(store, K), Cardinality(K))
    [] c.op = "CAS" -> Cas(store, c)
    [] c.op = "FCALL" -> Done(Replay(store, c.writes))

\* k_cmd_transfer on the fork: the write-set, or an error.
Transfer(store, c) ==
  IF /\ {c.from, c.to} \subseteq DOMAIN store
     /\ store[c.from] >= c.amount
     /\ store[c.to] <= MaxValue - c.amount
  THEN [ok |-> TRUE, writes |-> <<[key |-> c.from, value |-> store[c.from] - c.amount],
                                  [key |-> c.to, value |-> store[c.to] + c.amount]>>]
  ELSE [ok |-> FALSE, writes |-> <<>>]
=============================================================================
