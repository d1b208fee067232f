--------------------------- MODULE PersistProofs ---------------------------
(***************************************************************************)
(* Persist, for every log bound, term bound and pipeline depth: the type   *)
(* invariant, the truthful frontier and the complete WAL when the log is   *)
(* not cut with a record outstanding, the reply gate when term and vote    *)
(* do not change with one, and the durable term, which never regresses.    *)
(***************************************************************************)
EXTENDS Persist, SequenceTheorems, TLAPS

-----------------------------------------------------------------------------
(* The helpers. *)

\* What raft_log_truncate leaves: the first i entries, or the whole log.
LEMMA TruncateFacts ==
  ASSUME NEW S, NEW s \in Seq(S), NEW i \in Nat
  PROVE  /\ Truncate(s, i) \in Seq(S)
         /\ Len(Truncate(s, i)) = Lesser(i, Len(s))
         /\ \A k \in 1 .. Len(Truncate(s, i)) : Truncate(s, i)[k] = s[k]
<1>1. CASE i < Len(s)
  <2>1. SubSeq(s, 1, i) \in Seq(S)
    BY <1>1, SubSeqProperties
  <2>2. Len(SubSeq(s, 1, i)) = i
    BY <1>1, SubSeqProperties
  <2>3. \A k \in 1 .. i : SubSeq(s, 1, i)[k] = s[k]
    BY <1>1, SubSeqProperties
  <2> QED BY <1>1, <2>1, <2>2, <2>3 DEF Truncate, Lesser
<1>2. CASE ~(i < Len(s))
  BY <1>2, LenProperties, Zenon DEF Truncate, Lesser
<1> QED BY <1>1, <1>2

\* What recovery reads after a record with entries: the old log below the
\* record's first index, then the record.
LEMMA RecoverLogFacts ==
  ASSUME NEW S, NEW old \in Seq(S), NEW rec,
         rec.from \in Nat \ {0}, rec.entries \in Seq(S), rec.entries # << >>
  PROVE  /\ RecoverLog(old, rec) \in Seq(S)
         /\ Len(RecoverLog(old, rec)) = Lesser(rec.from - 1, Len(old)) + Len(rec.entries)
         /\ \A k \in 1 .. Lesser(rec.from - 1, Len(old)) : RecoverLog(old, rec)[k] = old[k]
         /\ \A k \in 1 .. Len(rec.entries) :
              RecoverLog(old, rec)[Lesser(rec.from - 1, Len(old)) + k] = rec.entries[k]
<1> DEFINE t == Truncate(old, rec.from - 1)
<1>1. rec.from - 1 \in Nat
  OBVIOUS
<1>2. /\ t \in Seq(S)
      /\ Len(t) = Lesser(rec.from - 1, Len(old))
      /\ \A k \in 1 .. Len(t) : t[k] = old[k]
  BY <1>1, TruncateFacts, Zenon
<1> HIDE DEF t
<1>3. RecoverLog(old, rec) = t \o rec.entries
  BY Zenon DEF RecoverLog, t
<1>4. /\ t \o rec.entries \in Seq(S)
      /\ Len(t \o rec.entries) = Len(t) + Len(rec.entries)
      /\ \A k \in 1 .. Len(t) + Len(rec.entries) :
           (t \o rec.entries)[k] = IF k <= Len(t) THEN t[k] ELSE rec.entries[k - Len(t)]
  BY <1>2, ConcatProperties, Zenon
<1>5. Len(t) \in Nat /\ Len(rec.entries) \in Nat
  BY <1>2, LenProperties, Zenon
<1>6. \A k \in 1 .. Len(t) : (t \o rec.entries)[k] = old[k]
  BY <1>2, <1>4, <1>5
<1>7. \A k \in 1 .. Len(rec.entries) : (t \o rec.entries)[Len(t) + k] = rec.entries[k]
  BY <1>4, <1>5
<1> QED BY <1>2, <1>3, <1>4, <1>6, <1>7

\* The frontier stays a triple of indexes.
LEMMA FrontierType ==
  ASSUME NEW d \in Frontier, NEW i \in Nat, NEW tip \in Nat
  PROVE  Clamp(d, i) \in Frontier /\ Report(d, i, tip) \in Frontier
BY Zenon DEF Frontier, Clamp, Report, Lesser, Larger

-----------------------------------------------------------------------------
(* Type correctness. *)

\* A persist view is a record, and reports the tip of a non-empty delta.
LEMMA PersistViewFacts ==
  ASSUME NEW h \in HardState, NEW s \in Log, NEW d \in Frontier
  PROVE  LET r == PersistView(h, s, d)
         IN  /\ r \in Record
             /\ r.hard = h /\ r.from = d.synced + 1
             /\ IF d.synced < Len(s)
                THEN /\ r.durable = Len(s)
                     /\ Len(r.entries) = Len(s) - d.synced
                     /\ r.entries # << >>
                     /\ \A k \in 1 .. Len(r.entries) : r.entries[k] = s[r.from - 1 + k]
                ELSE r.durable = 0 /\ r.entries = << >>
<1> DEFINE e == SubSeq(s, d.synced + 1, Len(s))
<1>1. s \in Seq(Entry) /\ Len(s) \in Nat /\ Len(s) <= MaxLog /\ MaxLog \in Nat
  BY PersistAssumption, LenProperties, Zenon DEF Log
<1>2. d.synced \in Nat
  BY Zenon DEF Frontier
<1>3. CASE d.synced < Len(s)
  <2>1. /\ e \in Seq(Entry)
        /\ Len(e) = Len(s) - d.synced
        /\ \A k \in 1 .. Len(e) : e[k] = s[d.synced + k]
    <3> DEFINE m == d.synced + 1
               n == Len(s)
    <3>1. m \in Int /\ n \in Int /\ m <= n /\ n - m + 1 = Len(s) - d.synced
      BY <1>1, <1>2, <1>3
    <3>2. \A i \in m .. n : s[i] \in Entry
      BY <1>1, <1>2
    <3> HIDE DEF m, n
    <3>3. /\ SubSeq(s, m, n) \in Seq(Entry)
          /\ Len(SubSeq(s, m, n)) = n - m + 1
          /\ \A k \in 1 .. n - m + 1 : SubSeq(s, m, n)[k] = s[m + k - 1]
      BY <3>1, <3>2, SubSeqProperties
    <3>4. e = SubSeq(s, m, n)
      BY Zenon DEF m, n
    <3> HIDE DEF e
    <3>5. \A k \in Nat : m + k - 1 = d.synced + k
      BY <1>2 DEF m
    <3>6. \A k \in 1 .. Len(e) : k \in Nat /\ k \in 1 .. n - m + 1
      BY <3>1, <3>3, <3>4
    <3>7. \A k \in 1 .. Len(e) : e[k] = s[d.synced + k]
      BY <3>3, <3>4, <3>5, <3>6, Zenon
    <3> QED BY <3>1, <3>3, <3>4, <3>7
  <2> HIDE DEF e
  <2>2. e # << >>
    BY <1>1, <1>2, <1>3, <2>1
  <2>3. e \in Log
    BY <1>1, <1>2, <1>3, <2>1 DEF Log
  <2>4. PersistView(h, s, d) = [hard |-> h, from |-> d.synced + 1, entries |-> e, durable |-> Len(s)]
    BY <1>3, Zenon DEF PersistView, e
  <2> QED BY <1>1, <1>2, <1>3, <2>1, <2>2, <2>3, <2>4 DEF Record
<1>4. CASE ~(d.synced < Len(s))
  <2>1. e = << >>
    BY <1>1, <1>2, <1>4, SubSeqEmpty
  <2>2. << >> \in Log
    BY <1>1, EmptySeq DEF Log
  <2> HIDE DEF e
  <2>3. PersistView(h, s, d) = [hard |-> h, from |-> d.synced + 1, entries |-> e, durable |-> 0]
    BY <1>4, Zenon DEF PersistView, e
  <2> QED BY <1>2, <1>4, <2>1, <2>2, <2>3 DEF Record
<1> QED BY <1>3, <1>4

\* Recovery keeps the disk in its range.
LEMMA RecoveredType ==
  ASSUME NEW dk \in Disk, NEW r \in Record
  PROVE  Recovered(dk, r) \in Disk
<1>1. RecoverHard(dk.hard, r.hard) \in HardState
  BY Zenon DEF Disk, Record, RecoverHard
<1>2. RecoverLog(dk.log, r) \in Log
  <2>1. CASE r.entries = << >>
    BY <2>1, Zenon DEF RecoverLog, Disk
  <2>2. CASE r.entries # << >>
    <3>1. /\ dk.log \in Seq(Entry) /\ r.entries \in Seq(Entry)
          /\ r.from \in Nat \ {0} /\ r.from + Len(r.entries) <= MaxLog + 1
          /\ Len(r.entries) \in Nat /\ Len(dk.log) \in Nat
      BY <2>2, LenProperties, Zenon DEF Disk, Record, Log
    <3>2. /\ RecoverLog(dk.log, r) \in Seq(Entry)
          /\ Len(RecoverLog(dk.log, r)) = Lesser(r.from - 1, Len(dk.log)) + Len(r.entries)
      BY <2>2, <3>1, RecoverLogFacts
    <3> QED BY SMTT(30), <3>1, <3>2, PersistAssumption DEF Log, Lesser
  <2> QED BY <2>1, <2>2
<1> QED BY <1>1, <1>2 DEF Recovered, Disk

\* The initial state is well typed.
LEMMA InitType == Init => TypeOK
<1> SUFFICES ASSUME Init PROVE TypeOK
  BY Zenon
<1>1. << >> \in Log /\ Len(<< >>) = 0
  BY PersistAssumption, EmptySeq DEF Log
<1>2. hard \in HardState
  BY PersistAssumption DEF Init, HardState
<1> QED BY <1>1, <1>2, EmptySeq DEF Init, TypeOK, Frontier, RestoredFrontier, Disk

\* Every step keeps the variables in their ranges.
LEMMA NextType == TypeOK /\ [Next]_vars => TypeOK'
<1> SUFFICES ASSUME TypeOK, [Next]_vars PROVE TypeOK'
  BY Zenon
<1> USE PersistAssumption
<1>0. log \in Seq(Entry) /\ Len(log) \in Nat /\ Len(log) <= MaxLog
  BY LenProperties, Zenon DEF TypeOK, Log
<1>1. CASE ChangeHard
  BY <1>1, Zenon DEF ChangeHard, SetHard, TypeOK
<1>2. CASE LeaderAppend
  <2>1. PICK e \in Entry : log' = Append(log, e)
    BY <1>2, Zenon DEF LeaderAppend
  <2>2. log' \in Log
    BY <1>0, <1>2, <2>1, AppendProperties DEF LeaderAppend, Log
  <2> QED BY <1>2, <2>2 DEF LeaderAppend, TypeOK
<1>3. CASE FollowerAppend
  <2>1. hard' \in HardState /\ wait' \in BOOLEAN
    BY <1>3, Zenon DEF FollowerAppend, SetHard, Deposed, TypeOK
  <2>2. PICK i \in 0 .. Len(log), e \in Entry :
          /\ i < MaxLog
          /\ log' = Append(Truncate(log, i), e)
          /\ front' = IF i < Len(log) THEN Clamp(front, i) ELSE front
    BY <1>3, Zenon DEF FollowerAppend
  <2>3. i \in Nat
    BY <1>0
  <2>4. Truncate(log, i) \in Seq(Entry) /\ Len(Truncate(log, i)) <= i
        /\ Len(Truncate(log, i)) \in Nat
    BY <1>0, <2>3, TruncateFacts DEF Lesser
  <2>5. log' \in Log
    BY <2>2, <2>3, <2>4, AppendProperties DEF Log
  <2>6. front' \in Frontier
    BY <2>2, <2>3, <1>0, FrontierType, Zenon DEF TypeOK
  <2> QED BY <1>3, <2>1, <2>5, <2>6 DEF FollowerAppend, TypeOK
<1>4. CASE AbandonTail
  <2>1. hard' \in HardState /\ wait' \in BOOLEAN
    BY <1>4 DEF AbandonTail, SetHard, TypeOK, HardState
  <2>2. PICK i \in 0 .. Len(log) - 1 :
          log' = Truncate(log, i) /\ front' = Clamp(front, i)
    BY <1>4, Zenon DEF AbandonTail
  <2>3. i \in Nat
    BY <1>0
  <2>4. log' \in Log
    BY <1>0, <2>2, <2>3, TruncateFacts DEF Lesser, Log
  <2>5. front' \in Frontier
    BY <2>2, <2>3, <1>0, FrontierType, Zenon DEF TypeOK
  <2> QED BY <1>4, <2>1, <2>4, <2>5 DEF AbandonTail, TypeOK
<1>5. CASE HandOff
  <2>1. PersistView(hard, log, front) \in Record
    BY PersistViewFacts, Zenon DEF TypeOK
  <2>2. posted' \in Seq(Record)
    BY <1>5, <2>1, AppendProperties, Zenon DEF HandOff, TypeOK
  <2> QED BY <1>5, <2>2 DEF HandOff, TypeOK
<1>6. CASE WalWrite
  <2>1. Head(posted) \in Record /\ Tail(posted) \in Seq(Record)
    BY <1>6, HeadTailProperties, Zenon DEF WalWrite, TypeOK
  <2>2. disk' \in Disk
    BY <1>6, <2>1, RecoveredType, Zenon DEF WalWrite, TypeOK
  <2>3. done' \in Seq(Nat)
    BY <1>6, <2>1, AppendProperties, Zenon DEF WalWrite, TypeOK, Record
  <2> QED BY <1>6, <2>1, <2>2, <2>3 DEF WalWrite, TypeOK
<1>7. CASE PersistComplete
  <2>1. Head(done) \in Nat /\ Tail(done) \in Seq(Nat)
    BY <1>7, HeadTailProperties, Zenon DEF PersistComplete, TypeOK
  <2>2. front' \in Frontier
    BY <1>0, <1>7, <2>1, FrontierType, Zenon DEF PersistComplete, TypeOK
  <2> QED BY <1>7, <2>1, <2>2 DEF PersistComplete, TypeOK
<1>8. CASE Restart
  <2>1. disk.hard \in HardState /\ disk.log \in Log /\ Len(disk.log) \in Nat
    BY LenProperties, Zenon DEF TypeOK, Disk, Log
  <2> QED BY <1>8, <2>1, EmptySeq DEF Restart, TypeOK, Frontier, RestoredFrontier
<1>9. CASE UNCHANGED vars
  BY <1>9, Zenon DEF vars, TypeOK
<1> QED BY <1>1, <1>2, <1>3, <1>4, <1>5, <1>6, <1>7, <1>8, <1>9 DEF Next

\* The variables of a node, its pipeline and its disk keep their types,
\* whatever the caller does.
THEOREM TypeCorrect == Spec => []TypeOK
BY InitType, NextType, PTL DEF Spec

-----------------------------------------------------------------------------
(* The hard state: order of the terms, the last record, the reply gate. *)

\* The index of an element of a sequence after an append.
LEMMA AppendIndex ==
  ASSUME NEW S, NEW s \in Seq(S), NEW e \in S, NEW i \in 1 .. Len(Append(s, e))
  PROVE  /\ Len(Append(s, e)) = Len(s) + 1
         /\ i = Len(s) + 1 => Append(s, e)[i] = e
         /\ i # Len(s) + 1 => i \in 1 .. Len(s) /\ Append(s, e)[i] = s[i]
BY AppendProperties, LenProperties

\* The index of an element of a sequence after its head is taken.
LEMMA TailIndex ==
  ASSUME NEW S, NEW s \in Seq(S), s # << >>
  PROVE  /\ Len(s) \in Nat /\ 1 \in 1 .. Len(s) /\ Head(s) = s[1]
         /\ Len(Tail(s)) = Len(s) - 1
         /\ \A i \in 1 .. Len(Tail(s)) : i + 1 \in 1 .. Len(s) /\ Tail(s)[i] = s[i + 1]
BY HeadTailProperties, LenProperties, EmptySeq

\* The order of the terms, and what the last record carries, are inductive
\* for every caller.
HardInv == TermsInOrder /\ LastRecordHard

LEMMA HardStep == TypeOK /\ HardInv /\ [Next]_vars => HardInv'
<1> SUFFICES ASSUME TypeOK, HardInv, [Next]_vars PROVE HardInv'
  BY Zenon
<1>0. /\ hard.term \in Nat /\ disk.hard.term \in Nat /\ Len(posted) \in Nat
      /\ \A i \in 1 .. Len(posted) : posted[i] \in Record /\ posted[i].hard.term \in Nat
  BY SMTT(30), PersistAssumption, ElementOfSeq, LenProperties DEF TypeOK, HardState, Disk, Record
<1>1. CASE UNCHANGED <<posted, disk>> /\ dirty' = TRUE /\ hard'.term \in Nat /\ hard'.term >= hard.term
  BY <1>0, <1>1 DEF HardInv, TermsInOrder, LastRecordHard
<1>2. CASE ChangeHard
  <2>1. hard' \in HardState /\ hard'.term >= hard.term
    BY <1>2, Zenon DEF ChangeHard, SetHard
  <2> QED BY <1>1, <1>2, <2>1, PersistAssumption DEF ChangeHard, HardState
<1>3. CASE LeaderAppend
  BY <1>0, <1>1, <1>3 DEF LeaderAppend
<1>4. CASE FollowerAppend
  <2>1. hard' = hard \/ (hard' \in HardState /\ hard'.term > hard.term)
    BY <1>4, Zenon DEF FollowerAppend, SetHard, Deposed
  <2> QED BY <1>0, <1>1, <1>4, <2>1, PersistAssumption DEF FollowerAppend, HardState
<1>5. CASE AbandonTail
  <2>1. hard'.term = hard.term + 1
    BY <1>5, Zenon DEF AbandonTail, SetHard
  <2> QED BY <1>0, <1>1, <1>5, <2>1 DEF AbandonTail
<1>6. CASE HandOff
  <2> DEFINE r == PersistView(hard, log, front)
  <2>1. r \in Record /\ r.hard = hard
    BY PersistViewFacts, Zenon DEF TypeOK
  <2>2. posted' = Append(posted, r) /\ posted \in Seq(Record)
        /\ UNCHANGED <<hard, disk>> /\ dirty' = FALSE
    BY <1>6, Zenon DEF HandOff, TypeOK
  <2> HIDE DEF r
  <2>3. \A i \in 1 .. Len(posted') :
          /\ i = Len(posted) + 1 => posted'[i] = r
          /\ i # Len(posted) + 1 => i \in 1 .. Len(posted) /\ posted'[i] = posted[i]
    BY <2>1, <2>2, AppendIndex
  <2>4. Len(posted') = Len(posted) + 1 /\ posted'[Len(posted')] = r /\ posted' # << >>
    BY <2>1, <2>2, AppendProperties
  <2>5. TermsInOrder'
    BY <1>0, <2>1, <2>2, <2>3, <2>4 DEF HardInv, TermsInOrder
  <2>6. LastRecordHard'
    BY <2>1, <2>2, <2>4, Zenon DEF LastRecordHard
  <2> QED BY <2>5, <2>6 DEF HardInv
<1>7. CASE WalWrite
  <2>1. /\ Head(posted) = posted[1] /\ 1 \in 1 .. Len(posted)
        /\ Len(posted') = Len(posted) - 1
        /\ \A i \in 1 .. Len(posted') : i + 1 \in 1 .. Len(posted) /\ posted'[i] = posted[i + 1]
        /\ UNCHANGED <<hard, dirty>>
        /\ disk'.hard = RecoverHard(disk.hard, Head(posted).hard)
    BY <1>7, TailIndex, Zenon DEF WalWrite, TypeOK, Recovered
  <2>2. disk'.hard = posted[1].hard
    BY <1>0, <2>1, Zenon DEF RecoverHard, HardInv, TermsInOrder
  <2>3. TermsInOrder'
    BY SMTT(30), <1>0, <2>1, <2>2 DEF HardInv, TermsInOrder
  <2>4. posted' = << >> => Len(posted) = 1
    BY <1>0, <2>1
  <2>5. posted' # << >> => posted'[Len(posted')] = posted[Len(posted)]
    <3>1. posted' \in Seq(Record)
      BY <1>7, HeadTailProperties, Zenon DEF WalWrite, TypeOK
    <3>2. posted' # << >> => Len(posted') \in 1 .. Len(posted')
      BY <3>1, EmptySeq, LenProperties
    <3> QED BY <1>0, <2>1, <3>2
  <2>6. posted # << >>
    BY <1>7, Zenon DEF WalWrite
  <2>7. LastRecordHard'
    BY <2>1, <2>2, <2>4, <2>5, <2>6, Zenon DEF HardInv, LastRecordHard
  <2> QED BY <2>3, <2>7 DEF HardInv
<1>8. CASE PersistComplete
  BY <1>8, Zenon DEF PersistComplete, HardInv, TermsInOrder, LastRecordHard
<1>9. CASE Restart
  BY <1>0, <1>9 DEF Restart, HardInv, TermsInOrder, LastRecordHard
<1>10. CASE UNCHANGED vars
  BY <1>10, Zenon DEF vars, HardInv, TermsInOrder, LastRecordHard
<1> QED BY <1>2, <1>3, <1>4, <1>5, <1>6, <1>7, <1>8, <1>9, <1>10 DEF Next

\* The gate is inductive for a caller that lets term and vote rest while a
\* record is outstanding.
LEMMA GateStep ==
  ASSUME ~HardInFlight
  PROVE  TypeOK /\ HardInv /\ GateInv /\ [Next]_vars => GateInv'
<1> SUFFICES ASSUME TypeOK, HardInv, GateInv, [Next]_vars PROVE GateInv'
  BY Zenon
<1>0. /\ hard.term \in Nat /\ disk.hard.term \in Nat /\ Len(posted) \in Nat
      /\ disk.hard.term <= hard.term /\ posted \in Seq(Record) /\ done \in Seq(Nat)
  BY PersistAssumption, LenProperties DEF TypeOK, HardState, Disk, HardInv, TermsInOrder
<1>1. ASSUME SetHard(hard'), UNCHANGED <<posted, done, disk>>, hard' = hard \/ MayChangeHard
      PROVE  GateInv'
  <2>1. CASE hard' = hard
    BY <1>1, <2>1, Zenon DEF SetHard, GateInv, ReplyDurable
  <2>2. CASE hard' # hard
    <3>1. posted = << >> /\ done = << >> /\ wait' = TRUE
      BY <1>1, <2>2, Zenon DEF MayChangeHard, Idle, SetHard
    <3> QED BY <1>1, <3>1 DEF GateInv, ReplyDurable
  <2> QED BY <2>1, <2>2
<1>2. CASE ChangeHard
  BY <1>1, <1>2, Zenon DEF ChangeHard, SetHard
<1>3. CASE LeaderAppend
  BY <1>3, Zenon DEF LeaderAppend, GateInv, ReplyDurable
<1>4. CASE FollowerAppend
  BY <1>1, <1>4, Zenon DEF FollowerAppend, SetHard
<1>5. CASE AbandonTail
  BY <1>1, <1>5, Zenon DEF AbandonTail, SetHard
<1>6. CASE HandOff
  <2> DEFINE r == PersistView(hard, log, front)
  <2>1. r \in Record /\ r.hard = hard
    BY PersistViewFacts, Zenon DEF TypeOK
  <2>2. posted' = Append(posted, r) /\ UNCHANGED <<hard, wait, done, disk>>
    BY <1>6, Zenon DEF HandOff
  <2> HIDE DEF r
  <2>3. \A i \in 1 .. Len(posted') :
          /\ i = Len(posted) + 1 => posted'[i] = r
          /\ i # Len(posted) + 1 => i \in 1 .. Len(posted) /\ posted'[i] = posted[i]
    BY <1>0, <2>1, <2>2, AppendIndex
  <2> QED BY <2>1, <2>2, <2>3 DEF GateInv, ReplyDurable
<1>7. CASE WalWrite
  <2>1. /\ Head(posted) = posted[1] /\ 1 \in 1 .. Len(posted)
        /\ \A i \in 1 .. Len(posted') : i + 1 \in 1 .. Len(posted) /\ posted'[i] = posted[i + 1]
        /\ UNCHANGED <<hard, wait>>
        /\ disk'.hard = RecoverHard(disk.hard, Head(posted).hard)
    BY <1>0, <1>7, TailIndex, Zenon DEF WalWrite, Recovered
  <2>2. disk'.hard = hard
    BY <1>0, <2>1, Zenon DEF RecoverHard, GateInv
  <2> QED BY <2>1, <2>2 DEF GateInv, ReplyDurable
<1>8. CASE PersistComplete
  BY <1>8, Zenon DEF PersistComplete, GateInv, ReplyDurable
<1>9. CASE Restart
  BY <1>9 DEF Restart, GateInv, ReplyDurable
<1>10. CASE UNCHANGED vars
  BY <1>10, Zenon DEF vars, GateInv, ReplyDurable
<1> QED BY <1>2, <1>3, <1>4, <1>5, <1>6, <1>7, <1>8, <1>9, <1>10 DEF Next

\* All three hold initially.
LEMMA InitHard == Init => HardInv /\ GateInv
BY EmptySeq, PersistAssumption DEF Init, HardInv, TermsInOrder, LastRecordHard, GateInv, ReplyDurable

\* A caller that reports every record before it lets the node change its
\* term or its vote again never sends a reply whose term or vote a crash
\* could take back; the pipeline may be of any depth.
THEOREM RepliesDurable == ~HardInFlight => (Spec => []ReplyDurable)
<1> SUFFICES ASSUME ~HardInFlight PROVE Spec => []ReplyDurable
  BY Zenon
<1>1. Init => TypeOK /\ HardInv /\ GateInv
  BY InitType, InitHard, Zenon
<1>2. TypeOK /\ HardInv /\ GateInv /\ [Next]_vars => (TypeOK /\ HardInv /\ GateInv)'
  BY NextType, HardStep, GateStep, Zenon
<1>3. GateInv => ReplyDurable
  BY Zenon DEF GateInv
<1> QED BY <1>1, <1>2, <1>3, PTL DEF Spec

\* The same node never forgets a term it may have told anyone about: only a
\* crash lowers the term, and an open gate means that the disk has it.
THEOREM AdvertisedTermNeverLost == ~HardInFlight => (Spec => AdvertisedTermKept)
<1> SUFFICES ASSUME ~HardInFlight PROVE Spec => AdvertisedTermKept
  BY Zenon
<1>1. TypeOK /\ ReplyDurable /\ [Next]_vars => (~wait => hard'.term >= hard.term)
  <2> SUFFICES ASSUME TypeOK, ReplyDurable, [Next]_vars, ~wait PROVE hard'.term >= hard.term
    BY Zenon
  <2>1. hard.term \in Nat
    BY PersistAssumption DEF TypeOK, HardState
  <2>2. CASE Restart
    BY <2>1, <2>2 DEF Restart, ReplyDurable
  <2>3. CASE ChangeHard
    BY <2>3, Zenon DEF ChangeHard, SetHard
  <2>4. CASE FollowerAppend
    <3>1. hard' = hard \/ (hard' \in HardState /\ hard'.term > hard.term)
      BY <2>4, Zenon DEF FollowerAppend, SetHard, Deposed
    <3> QED BY <2>1, <3>1, PersistAssumption DEF HardState
  <2>5. CASE AbandonTail
    <3>1. hard'.term = hard.term + 1
      BY <2>5, Zenon DEF AbandonTail, SetHard
    <3> QED BY <2>1, <3>1
  <2>6. CASE LeaderAppend \/ HandOff \/ WalWrite \/ PersistComplete \/ UNCHANGED vars
    <3>1. hard' = hard
      BY <2>6, Zenon DEF LeaderAppend, HandOff, WalWrite, PersistComplete, vars
    <3> QED BY <2>1, <3>1
  <2> QED BY <2>2, <2>3, <2>4, <2>5, <2>6 DEF Next
<1>2. Spec => []ReplyDurable
  BY RepliesDurable, Zenon
<1> QED BY <1>1, <1>2, TypeCorrect, PTL DEF Spec, AdvertisedTermKept

-----------------------------------------------------------------------------
(* The frontier, the reports to come and the records to be written. *)

\* The sets the step lemmas below range over.
LEMMA Ranges ==
  ASSUME TypeOK
  PROVE  /\ log \in Seq(Entry) /\ Len(log) \in Nat
         /\ disk.log \in Seq(Entry) /\ Len(disk.log) \in Nat
         /\ front.index \in Nat /\ front.confirm \in Nat /\ front.synced \in Nat
         /\ posted \in Seq(Record) /\ Len(posted) \in Nat
         /\ \A i \in 1 .. Len(posted) :
              /\ posted[i].from \in Nat \ {0} /\ posted[i].durable \in Nat
              /\ posted[i].entries \in Seq(Entry) /\ Len(posted[i].entries) \in Nat
         /\ done \in Seq(Nat) /\ Len(done) \in Nat
         /\ \A i \in 1 .. Len(done) : done[i] \in Nat
<1>1. /\ log \in Seq(Entry) /\ disk.log \in Seq(Entry)
      /\ front.index \in Nat /\ front.confirm \in Nat /\ front.synced \in Nat
      /\ posted \in Seq(Record) /\ done \in Seq(Nat)
  BY Zenon DEF TypeOK, Log, Disk, Frontier
<1>2. Len(log) \in Nat /\ Len(disk.log) \in Nat /\ Len(posted) \in Nat /\ Len(done) \in Nat
  BY <1>1, LenProperties, Zenon
<1>3. \A i \in 1 .. Len(posted) : posted[i] \in Record
  BY <1>1, ElementOfSeq, Zenon
<1>4. \A r \in Record : /\ r.from \in Nat \ {0} /\ r.durable \in Nat
                        /\ r.entries \in Seq(Entry) /\ Len(r.entries) \in Nat
  BY LenProperties, Zenon DEF Record, Log
<1>5. \A i \in 1 .. Len(done) : done[i] \in Nat
  BY <1>1, ElementOfSeq, Zenon
<1> QED BY <1>1, <1>2, <1>3, <1>4, <1>5

\* Appending at the tip disturbs nothing that is durable or outstanding.
LEMMA AppendKeepsFrontier ==
  ASSUME TypeOK, FrontierInv, NEW e \in Entry, log' = Append(log, e),
         UNCHANGED <<front, posted, done, disk>>
  PROVE  FrontierInv'
<1>1. Len(log') = Len(log) + 1 /\ \A k \in 1 .. Len(log) : log'[k] = log[k]
  BY Ranges, AppendProperties
<1>2. \A k \in Nat : OnDisk(k) => OnDisk(k)'
  BY Ranges, <1>1 DEF OnDisk
<1>3. FrontierOnDisk'
  BY Ranges, <1>2, Zenon DEF FrontierInv, FrontierOnDisk
<1>4. \A i \in 1 .. Len(done') : OnDisk(done[i])'
  BY Ranges, <1>2, Zenon DEF FrontierInv
<1>5. ASSUME NEW i \in 1 .. Len(posted) PROVE RecordCurrent(posted[i])'
  <2>1. PICK q : q = posted[i]
    BY Zenon
  <2>2. RecordCurrent(q) /\ q.from \in Nat \ {0} /\ Len(q.entries) \in Nat /\ q.durable \in Nat
    BY Ranges, <2>1, Zenon DEF FrontierInv
  <2>3. RecordCurrent(q)'
    <3>1. CASE q.entries = << >>
      BY <2>2, <3>1, Zenon DEF RecordCurrent
    <3>2. CASE q.entries # << >>
      <4>1. \A k \in 1 .. Len(q.entries) : q.from - 1 + k \in 1 .. Len(log)
        <5>1. q.from - 1 + Len(q.entries) <= Len(log) /\ Len(log) \in Nat
          BY Ranges, <2>2, <3>2, Zenon DEF RecordCurrent
        <5> QED BY SMTT(30), <2>2, <5>1
      <4>2. \A k \in 1 .. Len(q.entries) : q.entries[k] = log'[q.from - 1 + k]
        BY <1>1, <2>2, <3>2, <4>1, Zenon DEF RecordCurrent
      <4>3. q.durable <= Len(log')
        BY Ranges, <1>1, <2>2, <3>2 DEF RecordCurrent
      <4> QED BY <2>2, <3>2, <4>2, <4>3 DEF RecordCurrent
    <3> QED BY <3>1, <3>2
  <2> QED BY <2>1, <2>3
<1>6. \A i \in 1 .. Len(posted') : RecordCurrent(posted[i])'
  BY <1>5, Zenon
<1> QED BY <1>3, <1>4, <1>6 DEF FrontierInv

\* A cut of an idle node keeps the frontier below the cut truthful.
LEMMA CutKeepsFrontier ==
  ASSUME TypeOK, FrontierInv, Idle, NEW i \in Nat, i < Len(log),
         front' = Clamp(front, i), log' \in Seq(Entry), i <= Len(log'),
         \A k \in 1 .. i : log'[k] = log[k],
         UNCHANGED <<posted, done, disk>>
  PROVE  FrontierInv'
<1>0. Len(log') \in Nat
  BY LenProperties, Zenon
<1>1. \A k \in Nat : OnDisk(k) => OnDisk(Lesser(k, i))'
  BY Ranges, <1>0 DEF OnDisk, Lesser
<1>2. FrontierOnDisk'
  BY Ranges, <1>1, Zenon DEF FrontierInv, FrontierOnDisk, Clamp
<1>3. posted' = << >> /\ done' = << >> /\ Len(<< >>) = 0
  BY EmptySeq, Zenon DEF Idle
<1> QED BY <1>2, <1>3 DEF FrontierInv

\* A posted view is current.
LEMMA HandOffKeepsFrontier == TypeOK /\ FrontierInv /\ HandOff => FrontierInv'
<1> SUFFICES ASSUME TypeOK, FrontierInv, HandOff PROVE FrontierInv'
  BY Zenon
<1> DEFINE r == PersistView(hard, log, front)
<1>1. /\ r \in Record /\ r.from = front.synced + 1
      /\ IF front.synced < Len(log)
         THEN /\ r.durable = Len(log)
              /\ Len(r.entries) = Len(log) - front.synced
              /\ r.entries # << >>
              /\ \A k \in 1 .. Len(r.entries) : r.entries[k] = log[r.from - 1 + k]
         ELSE r.durable = 0 /\ r.entries = << >>
  BY PersistViewFacts, Zenon DEF TypeOK
<1>2. posted' = Append(posted, r) /\ UNCHANGED <<log, front, done, disk>>
  BY Zenon DEF HandOff
<1> HIDE DEF r
<1>3. \A i \in 1 .. Len(posted') :
        /\ i = Len(posted) + 1 => posted'[i] = r
        /\ i # Len(posted) + 1 => i \in 1 .. Len(posted) /\ posted'[i] = posted[i]
  BY Ranges, <1>1, <1>2, AppendIndex
<1>4. Len(posted') = Len(posted) + 1
  BY Ranges, <1>1, <1>2, AppendProperties
<1>5. RecordCurrent(r)
  <2>1. CASE front.synced < Len(log)
    <3>1. /\ front.index <= Len(log) /\ front.confirm <= Len(log) /\ front.synced <= Len(log)
          /\ \A k \in 1 .. Len(done) : done[k] <= Len(log)
      BY Zenon DEF FrontierInv, FrontierOnDisk, OnDisk
    <3>2. Len(log) \in Nat /\ front.synced \in Nat
      BY Ranges, Zenon
    <3> QED BY <1>1, <2>1, <3>1, <3>2 DEF RecordCurrent
  <2>2. CASE ~(front.synced < Len(log))
    BY <1>1, <2>2, Zenon DEF RecordCurrent
  <2> QED BY <2>1, <2>2
<1>6. \A i \in 1 .. Len(posted) : posted[i].durable <= Len(log)
  BY Ranges DEF FrontierInv, RecordCurrent
<1>7. ASSUME NEW i \in 1 .. Len(posted') PROVE RecordCurrent(posted[i])'
  <2>1. RecordCurrent(posted'[i])
    BY <1>3, <1>5, Zenon DEF FrontierInv
  <2> QED BY <1>2, <2>1 DEF RecordCurrent
<1>8. ASSUME NEW i \in 1 .. Len(posted'), NEW j \in i .. Len(posted'), posted'[j].entries # << >>
      PROVE  posted'[i].durable <= posted'[j].durable
  <2>0. Len(posted) \in Nat /\ j \in 1 .. Len(posted') /\ Len(log) \in Nat /\ r.durable \in Nat
    BY Ranges, <1>1, <1>4 DEF Record
  <2>1. CASE j = Len(posted) + 1
    <3>1. r.entries # << >> /\ posted'[j] = r /\ r.durable = Len(log)
      BY <1>1, <1>3, <1>8, <2>0, <2>1, Zenon
    <3> QED BY <1>3, <1>6, <2>0, <3>1
  <2>2. CASE j # Len(posted) + 1
    <3>1. /\ i \in 1 .. Len(posted) /\ posted'[i] = posted[i]
          /\ j \in i .. Len(posted) /\ posted'[j] = posted[j]
      BY <1>3, <1>4, <2>0, <2>2
    <3> QED BY <1>8, <3>1 DEF FrontierInv
  <2> QED BY <2>1, <2>2
<1>9. FrontierOnDisk' /\ \A i \in 1 .. Len(done') : OnDisk(done[i])'
  BY <1>2, Zenon DEF FrontierInv, FrontierOnDisk, OnDisk
<1> QED BY <1>7, <1>8, <1>9 DEF FrontierInv

\* Writing the oldest record makes a prefix of the log durable, at least as
\* long as every one claimed so far.
LEMMA WriteKeepsFrontier == TypeOK /\ FrontierInv /\ WalWrite => FrontierInv'
<1> SUFFICES ASSUME TypeOK, FrontierInv, WalWrite PROVE FrontierInv'
  BY Zenon
<1>0. PICK r : r = posted[1]
  BY Zenon
<1>1. /\ Head(posted) = r /\ 1 \in 1 .. Len(posted)
      /\ Len(posted') = Len(posted) - 1
      /\ \A i \in 1 .. Len(posted') : i + 1 \in 1 .. Len(posted) /\ posted'[i] = posted[i + 1]
  BY Ranges, TailIndex, <1>0, Zenon DEF WalWrite
<1>2. /\ r.from \in Nat \ {0} /\ r.durable \in Nat
      /\ r.entries \in Seq(Entry) /\ Len(r.entries) \in Nat
      /\ RecordCurrent(r)
      /\ \A j \in 1 .. Len(posted) : posted[j].entries # << >> => r.durable <= posted[j].durable
  BY Ranges, <1>0, <1>1, Zenon DEF FrontierInv
<1>3. /\ disk'.log = RecoverLog(disk.log, r)
      /\ done' = Append(done, r.durable)
      /\ UNCHANGED <<log, front>>
  BY <1>1, Zenon DEF WalWrite, Recovered
<1>4. /\ Len(done') = Len(done) + 1
      /\ \A i \in 1 .. Len(done') :
           /\ i = Len(done) + 1 => done'[i] = r.durable
           /\ i # Len(done) + 1 => i \in 1 .. Len(done) /\ done'[i] = done[i]
  BY Ranges, <1>2, <1>3, AppendIndex, AppendProperties
<1>5. /\ OnDisk(r.durable)'
      /\ \A k \in Nat : k <= r.durable \/ r.entries = << >> => (OnDisk(k) => OnDisk(k)')
  <2>1. CASE r.entries = << >>
    <3>1. disk'.log = disk.log /\ r.durable = 0
      BY <1>2, <1>3, <2>1, Zenon DEF RecoverLog, RecordCurrent
    <3>2. \A k \in Nat : OnDisk(k) => OnDisk(k)'
      BY <1>3, <3>1, Zenon DEF OnDisk
    <3>3. OnDisk(0)
      BY Ranges DEF OnDisk
    <3>4. OnDisk(r.durable)'
      BY <3>1, <3>2, <3>3
    <3> QED BY <3>2, <3>4
  <2>2. CASE r.entries # << >>
    <3>1. /\ r.from <= front.synced + 1
          /\ r.durable = r.from - 1 + Len(r.entries)
          /\ r.durable <= Len(log)
          /\ \A k \in 1 .. Len(r.entries) : r.entries[k] = log[r.from - 1 + k]
      BY <1>2, <2>2, Zenon DEF RecordCurrent
    <3>2. OnDisk(front.synced) /\ front.synced \in Nat
          /\ disk.log \in Seq(Entry) /\ Len(disk.log) \in Nat /\ Len(log) \in Nat
      BY Ranges, Zenon DEF FrontierInv, FrontierOnDisk
    <3>3. Lesser(r.from - 1, Len(disk.log)) = r.from - 1
      BY <1>2, <3>1, <3>2 DEF OnDisk, Lesser
    <3>4. /\ Len(disk'.log) = r.from - 1 + Len(r.entries)
          /\ \A k \in 1 .. r.from - 1 : disk'.log[k] = disk.log[k]
          /\ \A k \in 1 .. Len(r.entries) : disk'.log[r.from - 1 + k] = r.entries[k]
      <4> DEFINE keep == Lesser(r.from - 1, Len(disk.log))
      <4>1. r.from \in Nat \ {0} /\ r.entries \in Seq(Entry) /\ disk.log \in Seq(Entry)
        BY <1>2, <3>2, Zenon
      <4>2. /\ Len(RecoverLog(disk.log, r)) = keep + Len(r.entries)
            /\ \A k \in 1 .. keep : RecoverLog(disk.log, r)[k] = disk.log[k]
            /\ \A k \in 1 .. Len(r.entries) : RecoverLog(disk.log, r)[keep + k] = r.entries[k]
        <5>1. PICK old : old = disk.log
          BY Zenon
        <5>2. /\ Len(RecoverLog(old, r)) = Lesser(r.from - 1, Len(old)) + Len(r.entries)
              /\ \A k \in 1 .. Lesser(r.from - 1, Len(old)) : RecoverLog(old, r)[k] = old[k]
          BY SMTT(30), <2>2, <4>1, <5>1, RecoverLogFacts
        <5>3. \A k \in 1 .. Len(r.entries) :
                RecoverLog(old, r)[Lesser(r.from - 1, Len(old)) + k] = r.entries[k]
          BY SMTT(30), <2>2, <4>1, <5>1, RecoverLogFacts
        <5> QED BY <5>1, <5>2, <5>3
      <4> HIDE DEF keep
      <4>3. keep = r.from - 1
        BY <3>3, Zenon DEF keep
      <4> QED BY <1>3, <4>2, <4>3
    <3>5. \A k \in 1 .. r.from - 1 : disk'.log[k] = log[k]
      BY <1>2, <3>1, <3>2, <3>4 DEF OnDisk
    <3>6. ASSUME NEW k \in 1 .. r.durable, k > r.from - 1 PROVE disk'.log[k] = log[k]
      <4> DEFINE m == k - (r.from - 1)
      <4>1. m \in 1 .. Len(r.entries) /\ k = r.from - 1 + m
        BY <1>2, <3>1, <3>6
      <4> HIDE DEF m
      <4> QED BY <3>1, <3>4, <4>1
    <3>7. \A k \in 1 .. r.durable : disk'.log[k] = log[k]
      BY <1>2, <3>5, <3>6
    <3> QED BY <1>2, <1>3, <2>2, <3>1, <3>2, <3>4, <3>7 DEF OnDisk
  <2> QED BY <2>1, <2>2
<1>6. FrontierOnDisk'
  BY Ranges, <1>2, <1>3, <1>5, Zenon DEF FrontierInv, FrontierOnDisk, RecordCurrent
<1>7. \A i \in 1 .. Len(done') : OnDisk(done[i])'
  <2> SUFFICES ASSUME NEW i \in 1 .. Len(done') PROVE OnDisk(done[i])'
    BY Zenon
  <2>1. CASE i = Len(done) + 1
    BY <1>4, <1>5, <2>1, Zenon DEF OnDisk
  <2>2. CASE i # Len(done) + 1
    <3>1. i \in 1 .. Len(done) /\ done'[i] = done[i] /\ done[i] \in Nat /\ OnDisk(done[i])
      BY Ranges, <1>4, <2>2, Zenon DEF FrontierInv
    <3>2. done[i] <= r.durable \/ r.entries = << >>
      BY <1>2, <3>1, Zenon DEF RecordCurrent
    <3> QED BY <1>5, <3>1, <3>2 DEF OnDisk
  <2> QED BY <2>1, <2>2
<1>8. ASSUME NEW i \in 1 .. Len(posted') PROVE RecordCurrent(posted[i])'
  <2>1. i + 1 \in 1 .. Len(posted) /\ posted'[i] = posted[i + 1]
    BY <1>1, Zenon
  <2>2. RecordCurrent(posted[i + 1])
        /\ (posted[i + 1].entries # << >> => r.durable <= posted[i + 1].durable)
    BY <1>2, <2>1, Zenon DEF FrontierInv
  <2>3. \A k \in 1 .. Len(done') : posted[i + 1].entries # << >> => done'[k] <= posted[i + 1].durable
    BY <1>4, <2>2, Zenon DEF RecordCurrent
  <2>0. PICK q : q = posted[i + 1]
    BY Zenon
  <2>4. RecordCurrent(q) /\ \A k \in 1 .. Len(done') : q.entries # << >> => done'[k] <= q.durable
    BY <2>0, <2>2, <2>3, Zenon
  <2>5. posted'[i] = q
    BY <2>0, <2>1, Zenon
  <2> QED BY <1>3, <2>4, <2>5 DEF RecordCurrent
<1>9. ASSUME NEW i \in 1 .. Len(posted'), NEW j \in i .. Len(posted'), posted'[j].entries # << >>
      PROVE  posted'[i].durable <= posted'[j].durable
  <2>1. /\ i + 1 \in 1 .. Len(posted) /\ j + 1 \in i + 1 .. Len(posted)
        /\ posted'[i] = posted[i + 1] /\ posted'[j] = posted[j + 1]
    <3>1. Len(posted) \in Nat /\ Len(posted') \in Nat /\ j \in 1 .. Len(posted')
      BY Ranges, <1>1
    <3> QED BY <1>1, <3>1
  <2> QED BY <1>9, <2>1 DEF FrontierInv
<1> QED BY <1>6, <1>7, <1>8, <1>9 DEF FrontierInv

\* Completing a record raises the frontier to an index that is on disk and
\* at most every record still outstanding.
LEMMA CompleteKeepsFrontier == TypeOK /\ FrontierInv /\ PersistComplete => FrontierInv'
<1> SUFFICES ASSUME TypeOK, FrontierInv, PersistComplete PROVE FrontierInv'
  BY Zenon
<1>0. PICK d : d = done[1]
  BY Zenon
<1>1. /\ Head(done) = d /\ 1 \in 1 .. Len(done) /\ Len(done') = Len(done) - 1
      /\ \A i \in 1 .. Len(done') : i + 1 \in 1 .. Len(done) /\ done'[i] = done[i + 1]
  BY Ranges, TailIndex, <1>0, Zenon DEF PersistComplete
<1>2. d \in Nat /\ OnDisk(d)
  BY Ranges, <1>0, <1>1, Zenon DEF FrontierInv
<1>3. /\ UNCHANGED <<log, posted, disk>>
      /\ front'.index = Larger(front.index, d)
      /\ front'.confirm = Larger(front.confirm, d)
      /\ front'.synced = Larger(front.synced, d)
  BY Ranges, <1>1, <1>2 DEF PersistComplete, Report, OnDisk, Lesser
<1>4. \A k \in Nat : OnDisk(k) => OnDisk(k)'
  BY <1>3, Zenon DEF OnDisk
<1>5. FrontierOnDisk'
  BY Ranges, <1>2, <1>3, <1>4, Zenon DEF FrontierInv, FrontierOnDisk, Larger
<1>6. \A i \in 1 .. Len(done') : OnDisk(done[i])'
  BY Ranges, <1>1, <1>4, Zenon DEF FrontierInv
<1>7. ASSUME NEW i \in 1 .. Len(posted) PROVE RecordCurrent(posted[i])'
  <2>1. PICK q : q = posted[i]
    BY Zenon
  <2>2. RecordCurrent(q) /\ q.from \in Nat \ {0} /\ q.durable \in Nat
    BY Ranges, <2>1, Zenon DEF FrontierInv
  <2>3. RecordCurrent(q)'
    <3>1. CASE q.entries = << >>
      BY <2>2, <3>1, Zenon DEF RecordCurrent
    <3>2. CASE q.entries # << >>
      <4>1. d <= q.durable
        BY <1>0, <1>1, <2>2, <3>2, Zenon DEF RecordCurrent
      <4>2. \A j \in 1 .. Len(done') : done'[j] <= q.durable
        BY <1>1, <2>2, <3>2, Zenon DEF RecordCurrent
      <4>3. /\ front'.index <= q.durable /\ front'.confirm <= q.durable
            /\ front'.synced <= q.durable /\ q.from <= front'.synced + 1
        BY SMTT(30), Ranges, <1>2, <1>3, <2>2, <3>2, <4>1 DEF RecordCurrent, Larger
      <4> QED BY <1>3, <2>2, <3>2, <4>2, <4>3 DEF RecordCurrent
    <3> QED BY <3>1, <3>2
  <2> QED BY <1>3, <2>1, <2>3
<1> QED BY <1>3, <1>5, <1>6, <1>7 DEF FrontierInv

\* A restored node holds exactly what is on disk.
LEMMA RestartKeepsFrontier == TypeOK /\ Restart => FrontierInv' /\ CoverInv'
<1> SUFFICES ASSUME TypeOK, Restart PROVE FrontierInv' /\ CoverInv'
  BY Zenon
<1>1. /\ log' = disk.log /\ UNCHANGED disk
      /\ front'.index = Len(disk.log) /\ front'.confirm = Len(disk.log)
      /\ front'.synced = Len(disk.log)
      /\ posted' = << >> /\ done' = << >> /\ Len(<< >>) = 0
  BY EmptySeq, Zenon DEF Restart, RestoredFrontier
<1>2. FrontierOnDisk'
  BY Ranges, <1>1 DEF FrontierOnDisk, OnDisk
<1> QED BY <1>1, <1>2 DEF FrontierInv, CoverInv

\* Every step of a node whose log is never cut with a record outstanding
\* keeps the frontier, the reports and the records in agreement with it.
LEMMA FrontierStep ==
  ASSUME ~CutInFlight, TypeOK, FrontierInv, [Next]_vars
  PROVE  FrontierInv'
<1>1. CASE ChangeHard
  <2>1. UNCHANGED <<log, front, posted, done, disk>>
    BY <1>1, Zenon DEF ChangeHard
  <2> QED BY <2>1 DEF FrontierInv, FrontierOnDisk, OnDisk, RecordCurrent
<1>2. CASE LeaderAppend
  BY <1>2, AppendKeepsFrontier, Zenon DEF LeaderAppend
<1>3. CASE FollowerAppend
  <2>1. PICK i \in 0 .. Len(log), e \in Entry :
          /\ i = Len(log) \/ MayCut
          /\ log' = Append(Truncate(log, i), e)
          /\ front' = IF i < Len(log) THEN Clamp(front, i) ELSE front
    BY <1>3, Zenon DEF FollowerAppend
  <2>2. UNCHANGED <<posted, done, disk>> /\ Len(log) \in Nat /\ log \in Seq(Entry) /\ i \in Nat
    BY <1>3, Ranges DEF FollowerAppend
  <2>3. CASE i = Len(log)
    BY <2>1, <2>2, <2>3, AppendKeepsFrontier DEF Truncate
  <2>4. CASE i # Len(log)
    <3>1. i < Len(log) /\ Idle /\ front' = Clamp(front, i)
      BY <2>1, <2>2, <2>4 DEF MayCut
    <3>2. /\ Truncate(log, i) \in Seq(Entry) /\ Len(Truncate(log, i)) = i
          /\ \A k \in 1 .. i : Truncate(log, i)[k] = log[k]
      BY <2>2, <3>1, TruncateFacts, Zenon DEF Lesser
    <3> DEFINE t == Truncate(log, i)
    <3> HIDE DEF t
    <3>3. log' = Append(t, e) /\ t \in Seq(Entry) /\ Len(t) = i
          /\ \A k \in 1 .. i : t[k] = log[k]
      BY <2>1, <3>2, Zenon DEF t
    <3>4. /\ log' \in Seq(Entry) /\ Len(log') = i + 1
          /\ \A k \in 1 .. i : log'[k] = log[k]
      BY <3>3, AppendProperties
    <3>5. i <= Len(log')
      BY <2>2, <3>4
    <3> QED BY <2>2, <3>1, <3>4, <3>5, CutKeepsFrontier
  <2> QED BY <2>3, <2>4
<1>4. CASE AbandonTail
  <2>1. PICK i \in 0 .. Len(log) - 1 : log' = Truncate(log, i) /\ front' = Clamp(front, i)
    BY <1>4, Zenon DEF AbandonTail
  <2>2. /\ UNCHANGED <<posted, done, disk>> /\ Idle
        /\ log \in Seq(Entry) /\ Len(log) \in Nat
    BY <1>4, Ranges, Zenon DEF AbandonTail, MayCut
  <2>3. i \in Nat /\ i < Len(log)
    BY <2>1, <2>2
  <2>4. /\ Truncate(log, i) \in Seq(Entry) /\ Len(Truncate(log, i)) = i
        /\ \A k \in 1 .. i : Truncate(log, i)[k] = log[k]
    BY <2>2, <2>3, TruncateFacts, Zenon DEF Lesser
  <2>5. /\ log' \in Seq(Entry) /\ i <= Len(log')
        /\ \A k \in 1 .. i : log'[k] = log[k]
    BY <2>1, <2>3, <2>4
  <2> QED BY <2>1, <2>2, <2>3, <2>5, CutKeepsFrontier
<1>5. CASE HandOff
  BY <1>5, HandOffKeepsFrontier, Zenon
<1>6. CASE WalWrite
  BY <1>6, WriteKeepsFrontier, Zenon
<1>7. CASE PersistComplete
  BY <1>7, CompleteKeepsFrontier, Zenon
<1>8. CASE Restart
  BY <1>8, RestartKeepsFrontier, Zenon
<1>9. CASE UNCHANGED vars
  BY <1>9, Zenon DEF vars, FrontierInv, FrontierOnDisk, OnDisk, RecordCurrent
<1> QED BY <1>1, <1>2, <1>3, <1>4, <1>5, <1>6, <1>7, <1>8, <1>9 DEF Next

\* Whatever the log gains is covered by the frontier, by a report or by a
\* record, or keeps the node dirty.
LEMMA CoverStep ==
  ASSUME TypeOK, FrontierInv, CoverInv, [Next]_vars
  PROVE  CoverInv'
<1>1. CASE ChangeHard \/ LeaderAppend \/ FollowerAppend \/ AbandonTail
  BY <1>1, Zenon DEF ChangeHard, LeaderAppend, FollowerAppend, AbandonTail, CoverInv
<1>2. CASE HandOff
  <2> DEFINE r == PersistView(hard, log, front)
  <2>1. r \in Record /\ (front.synced < Len(log) => r.durable = Len(log))
    BY PersistViewFacts, Zenon DEF TypeOK
  <2>2. posted' = Append(posted, r) /\ UNCHANGED <<log, front>> /\ posted \in Seq(Record)
    BY <1>2, Ranges, Zenon DEF HandOff
  <2> HIDE DEF r
  <2>3. Len(posted') \in 1 .. Len(posted') /\ posted'[Len(posted')] = r
    BY <2>1, <2>2, Ranges, AppendProperties
  <2>4. front.synced <= Len(log) /\ front.synced \in Nat /\ Len(log) \in Nat
    BY Ranges, Zenon DEF FrontierInv, FrontierOnDisk, OnDisk
  <2> QED BY <2>1, <2>2, <2>3, <2>4 DEF CoverInv
<1>3. CASE WalWrite
  <2>0. PICK r : r = posted[1]
    BY Zenon
  <2>1. /\ Head(posted) = r
        /\ \A i \in 1 .. Len(posted) : i # 1 => i - 1 \in 1 .. Len(posted') /\ posted'[i - 1] = posted[i]
    BY <1>3, <2>0, Ranges, TailIndex DEF WalWrite
  <2>2. r.durable \in Nat /\ done \in Seq(Nat)
    BY <1>3, <2>0, Ranges, TailIndex, Zenon DEF WalWrite
  <2>3. done' = Append(done, r.durable) /\ UNCHANGED <<log, front, dirty>>
    BY <1>3, <2>1, Zenon DEF WalWrite
  <2>4. /\ Len(done') \in 1 .. Len(done') /\ done'[Len(done')] = r.durable
        /\ \A i \in 1 .. Len(done) : i \in 1 .. Len(done') /\ done'[i] = done[i]
    BY <2>2, <2>3, AppendProperties, LenProperties
  <2>5. CASE dirty
    BY <2>3, <2>5, Zenon DEF CoverInv
  <2>6. CASE front.synced = Len(log)
    BY <2>3, <2>6, Zenon DEF CoverInv
  <2>7. CASE \E i \in 1 .. Len(done) : done[i] = Len(log)
    BY <2>3, <2>4, <2>7, Zenon DEF CoverInv
  <2>8. CASE \E i \in 1 .. Len(posted) : posted[i].durable = Len(log)
    <3>1. PICK i \in 1 .. Len(posted) : posted[i].durable = Len(log)
      BY <2>8, Zenon
    <3>2. CASE i = 1
      BY <2>0, <2>3, <2>4, <3>1, <3>2, Zenon DEF CoverInv
    <3>3. CASE i # 1
      BY <2>1, <2>3, <3>1, <3>3, Zenon DEF CoverInv
    <3> QED BY <3>2, <3>3
  <2> QED BY <2>5, <2>6, <2>7, <2>8 DEF CoverInv
<1>4. CASE PersistComplete
  <2>0. PICK d : d = done[1]
    BY Zenon
  <2>1. /\ Head(done) = d /\ 1 \in 1 .. Len(done)
        /\ \A i \in 1 .. Len(done) : i # 1 => i - 1 \in 1 .. Len(done') /\ done'[i - 1] = done[i]
    BY <1>4, <2>0, Ranges, TailIndex DEF PersistComplete
  <2>2. d \in Nat /\ d <= Len(log) /\ front.synced <= Len(log)
    BY <2>0, <2>1, Ranges, Zenon DEF FrontierInv, FrontierOnDisk, OnDisk
  <2>3. UNCHANGED <<log, dirty, posted>> /\ front'.synced = Larger(front.synced, d)
    BY <1>4, <2>1, <2>2, Ranges DEF PersistComplete, Report, Lesser
  <2>4. CASE dirty
    BY <2>3, <2>4, Zenon DEF CoverInv
  <2>5. CASE front.synced = Len(log)
    <3>1. front'.synced = Len(log)
      BY <2>2, <2>3, <2>5, Ranges DEF Larger
    <3> QED BY <2>3, <3>1 DEF CoverInv
  <2>6. CASE \E i \in 1 .. Len(done) : done[i] = Len(log)
    <3>1. PICK i \in 1 .. Len(done) : done[i] = Len(log)
      BY <2>6, Zenon
    <3>2. CASE i = 1
      <4>1. front'.synced = Len(log)
        BY <2>0, <2>2, <2>3, <3>1, <3>2, Ranges DEF Larger
      <4> QED BY <2>3, <4>1 DEF CoverInv
    <3>3. CASE i # 1
      BY <2>1, <2>3, <3>1, <3>3, Zenon DEF CoverInv
    <3> QED BY <3>2, <3>3
  <2>7. CASE \E i \in 1 .. Len(posted) : posted[i].durable = Len(log)
    BY <2>3, <2>7, Zenon DEF CoverInv
  <2> QED BY <2>4, <2>5, <2>6, <2>7 DEF CoverInv
<1>5. CASE Restart
  BY <1>5, RestartKeepsFrontier, Zenon
<1>6. CASE UNCHANGED vars
  BY <1>6, Zenon DEF vars, CoverInv
<1> QED BY <1>1, <1>2, <1>3, <1>4, <1>5, <1>6 DEF Next

\* A fresh node has nothing to agree with.
LEMMA InitFrontier == Init => FrontierInv /\ CoverInv
BY EmptySeq DEF Init, FrontierInv, CoverInv, FrontierOnDisk, OnDisk, RestoredFrontier

\* A node whose log is never cut with a record outstanding never overstates
\* its durable frontier, for a pipeline of any depth, logs of any length and
\* crashes anywhere: durable_index, durable_confirm and persist_synced_index
\* only cover entries that are on disk as they are in the log.
THEOREM FrontierTruthful == ~CutInFlight => (Spec => []FrontierOnDisk)
<1> SUFFICES ASSUME ~CutInFlight PROVE Spec => []FrontierOnDisk
  BY Zenon
<1>1. Init => TypeOK /\ FrontierInv
  BY InitType, InitFrontier, Zenon
<1>2. TypeOK /\ FrontierInv /\ [Next]_vars => (TypeOK /\ FrontierInv)'
  BY NextType, FrontierStep, Zenon
<1>3. FrontierInv => FrontierOnDisk
  BY Zenon DEF FrontierInv
<1> QED BY <1>1, <1>2, <1>3, PTL DEF Spec

\* The same node leaves nothing out of the WAL: with nothing to persist and
\* no record outstanding, recovery returns its term, its vote and its log.
THEOREM NothingLost == ~CutInFlight => (Spec => []NothingSkipped)
<1> SUFFICES ASSUME ~CutInFlight PROVE Spec => []NothingSkipped
  BY Zenon
<1> DEFINE Inv == TypeOK /\ HardInv /\ FrontierInv /\ CoverInv
<1>1. Init => Inv
  BY InitType, InitHard, InitFrontier, Zenon
<1>2. Inv /\ [Next]_vars => Inv'
  BY NextType, HardStep, FrontierStep, CoverStep, Zenon
<1>3. Inv => NothingSkipped
  <2> SUFFICES ASSUME Inv, ~dirty, Idle PROVE disk.hard = hard /\ OnDisk(Len(log))
    BY Zenon DEF NothingSkipped
  <2>1. Len(posted) = 0 /\ Len(done) = 0
    BY EmptySeq, Zenon DEF Idle
  <2>2. front.synced = Len(log)
    BY <2>1 DEF CoverInv
  <2>3. disk.hard = hard
    BY Zenon DEF HardInv, LastRecordHard, Idle
  <2> QED BY <2>2, <2>3 DEF FrontierInv, FrontierOnDisk
<1> QED BY <1>1, <1>2, <1>3, PTL DEF Spec

\* The whole contract between raft.h and a caller that neither cuts the log nor changes the hard
\* state with a record outstanding: the frontier (raft_durable_clamp, raft_persist_complete), the
\* reply gate (raft_advance) and a WAL that leaves nothing out (k_state_serialize) hold at once.
THEOREM ContractKept == ~CutInFlight /\ ~HardInFlight => (Spec => []DurabilityContract)
<1> SUFFICES ASSUME ~CutInFlight, ~HardInFlight PROVE Spec => []DurabilityContract
  BY Zenon
<1>1. Spec => []FrontierOnDisk
  BY FrontierTruthful, Zenon
<1>2. Spec => []ReplyDurable
  BY RepliesDurable, Zenon
<1>3. Spec => []NothingSkipped
  BY NothingLost, Zenon
<1>4. FrontierOnDisk /\ ReplyDurable /\ NothingSkipped => DurabilityContract
  BY Zenon DEF DurabilityContract
<1> QED
  BY <1>1, <1>2, <1>3, <1>4, PTL
=============================================================================
