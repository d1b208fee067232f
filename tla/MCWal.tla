-------------------------------- MODULE MCWal -------------------------------
(* Two instances of Wal with bounds of their own, checked in one run: the  *)
(* crashes of a pipelined store, and the retention of snapshots.           *)
EXTENDS Wal

VARIABLE retention   \* whether the behaviour is one that takes snapshots

\* Small segments, three snapshots, one crash.
Snapshots == INSTANCE Wal WITH
  SegSize <- 2, Peer <- {}, MetaEvery <- 2,
  MaxInflight <- 1, MaxTerm <- 1, MaxIndex <- 3, MaxGen <- 5, MaxSnaps <- 3, MaxCrashes <- 1,
  MaxTroubles <- 2, Situations <- {"failed"}

StoreInit ==
  \/ retention = FALSE /\ Init
  \/ retention = TRUE /\ Snapshots!Init
StoreNext ==
  /\ \/ retention /\ Snapshots!Next
     \/ ~retention /\ Next
  /\ UNCHANGED retention
StoreSpec == StoreInit /\ [][StoreNext]_<<vars, retention>>

\* Whenever and wherever the server crashes, in the middle of a record, of a metadata slot or of a
\* cleanup, k_server_open accepts the files, in both instances (StoreOpens).
AlwaysOpens == IF retention THEN Snapshots!StoreOpens ELSE StoreOpens

\* What recovery restores holds everything raft had been told is durable, through overwritten tails and
\* through the retention of two snapshots, in both instances (NothingLost).
AllRestored == IF retention THEN Snapshots!NothingLost ELSE NothingLost


\* A cut tail does not come back behind the entries of a newer term (RestoredInOrder).
TailsStayCut == IF retention THEN Snapshots!RestoredInOrder ELSE RestoredInOrder
=============================================================================
