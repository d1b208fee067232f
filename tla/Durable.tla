------------------------------ MODULE Durable ------------------------------
(***************************************************************************)
(* The pure half of a node's durability contract, shared by Persist (one   *)
(* node, every caller) and Raft (the protocol).                            *)
(*                                                                         *)
(* A log is a sequence of entries, its first index 1 (no snapshot base).   *)
(* A frontier is what raft.h remembers about the disk: index is            *)
(* durable_index, confirm is durable_confirm, synced is                    *)
(* persist_synced_index.  A record is what the caller writes for one       *)
(* persist view: the hard state, the delta of the log from index `from`,   *)
(* and the durable index it reports back once the record is on disk.       *)
(***************************************************************************)
EXTENDS Integers, Sequences

\* The smaller and the larger of two indexes.
Lesser(a, b) == IF a < b THEN a ELSE b
Larger(a, b) == IF a > b THEN a ELSE b

Frontier == [index : Nat, confirm : Nat, synced : Nat]

\* raft_log_truncate: keep the first i entries; past the end it is a no-op.
Truncate(log, i) == IF i < Len(log) THEN SubSeq(log, 1, i) ELSE log

\* Wrong variant: a cut that leaves durable_index where it was.
ClampKeepsIndex(d, highest) ==
  [index   |-> d.index,
   confirm |-> Lesser(d.confirm, highest),
   synced  |-> Lesser(d.synced, highest)]

\* raft_durable_clamp: nothing above the highest surviving index stays known
\* to be durable.
Clamp(d, highest) ==
  [index   |-> Lesser(d.index, highest),
   confirm |-> Lesser(d.confirm, highest),
   synced  |-> Lesser(d.synced, highest)]

\* raft_persist_complete: durable_index rises by the report itself, the two
\* others by the report capped by the log's CURRENT tip.
Report(d, durable, tip) ==
  LET conf == Lesser(durable, tip) IN
  [index   |-> Larger(d.index, durable),
   confirm |-> Larger(d.confirm, conf),
   synced  |-> Larger(d.synced, conf)]

\* The frontier raft_create gives a restored node: the whole log is durable.
RestoredFrontier(log) ==
  [index |-> Len(log), confirm |-> Len(log), synced |-> Len(log)]

\* The persist view of raft_advance as k_state_serialize writes it: the log
\* above persist_synced_index, and as the index to report the last entry of
\* the delta (the snapshot base, 0 here, when the delta is empty).
PersistView(hard, log, d) ==
  [hard    |-> hard,
   from    |-> d.synced + 1,
   entries |-> SubSeq(log, d.synced + 1, Len(log)),
   durable |-> IF d.synced < Len(log) THEN Len(log) ELSE 0]

\* k_state_decode_record, the header: a term never regresses, and an equal
\* term takes the later record's vote.
RecoverHard(old, new) == IF new.term >= old.term THEN new ELSE old

\* k_restore_put_entry over a record's entries: a rewrite of an index drops
\* everything from it on, and the later version wins.
RecoverLog(old, rec) ==
  IF rec.entries = << >> THEN old
  ELSE Truncate(old, rec.from - 1) \o rec.entries

\* What recovery reads once rec has been appended to the WAL.
Recovered(disk, rec) ==
  [hard |-> RecoverHard(disk.hard, rec.hard),
   log  |-> RecoverLog(disk.log, rec)]
=============================================================================
