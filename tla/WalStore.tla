------------------------------ MODULE WalStore ------------------------------
(***************************************************************************)
(* The files of a store and what recovery makes of them: WAL segments, the *)
(* two metadata slots, and the snapshot files (kserver.h).                 *)
(*                                                                         *)
(* A segment is a sequence of cells, one cell being the size of a record   *)
(* header.  A record is a header cell followed by the cells of its         *)
(* payload; its checksum is kept as the payload itself, so a payload       *)
(* passes the check exactly when the bytes read are the ones the header    *)
(* was written for.  A stub is a rest of fewer bytes than a header; only   *)
(* the last cell of a file can be one.  Neither vfs_open nor recovery      *)
(* truncates a file, so writing means overlaying cells.                    *)
(***************************************************************************)
EXTENDS Durable, FiniteSets

CONSTANTS SegSize,      \* cfg.wal_seg_size, in cells
          MaxSeg,       \* bound: the last segment a record may be put in
          PrefixMax,    \* K_WAL_SCAN_EMPTY_PREFIX_MAX
          UnusedMax,    \* K_WAL_SCAN_EMPTY_PREFIX_MAX_UNUSED_SLOT
          TailSegs      \* K_WAL_SCAN_TAIL_SEGMENTS

Segments == 0 .. MaxSeg

---------------------------------------------------------------------------
(* Positions and cells *)

Pos(seg, off) == [seg |-> seg, off |-> off]

\* k_wal_pos_cmp(a, b) < 0
Before(a, b) == a.seg < b.seg \/ (a.seg = b.seg /\ a.off < b.off)

Stub == [cell |-> "stub"]
Header(gen, rec) == [cell |-> "header", gen |-> gen, rec |-> rec]
Payload(rec, n) == [cell |-> "payload", rec |-> rec, n |-> n]

RecordSize(rec) == 1 + rec.size

\* The bytes k_wal_append_bundle writes for a record: header, then payload.
Image(gen, rec) ==
  <<Header(gen, rec)>> \o [n \in 1 .. rec.size |-> Payload(rec, n)]

\* vfs_write of cells at an offset that is inside the file or at its end.
Overlay(file, off, cells) ==
  [i \in 1 .. Larger(Len(file), off + Len(cells)) |->
     IF i \in off + 1 .. off + Len(cells) THEN cells[i - off] ELSE file[i]]

\* What a crash before the sync returns can leave of a write: any prefix of
\* it, and, where the file was being extended, part of one more cell.
Torn(file, off, cells) ==
  {Overlay(file, off, SubSeq(cells, 1, k)) : k \in 0 .. Len(cells)}
  \cup {Overlay(file, off, Append(SubSeq(cells, 1, k), Stub)) :
          k \in {j \in 0 .. Len(cells) - 1 : off + j >= Len(file)}}

---------------------------------------------------------------------------
(* The metadata slots *)

\* A slot that no longer passes its checksum.
BadSlot == [gen |-> -1, rec |-> Pos(0, 0), size |-> 0, next |-> Pos(0, 0)]

\* k_wal_meta_init: both slots decode and name no record.
EmptySlot == [gen |-> 0, rec |-> Pos(0, 0), size |-> 0, next |-> Pos(0, 0)]

\* k_wal_meta_load: the slot with the newer generation among those that
\* decode.
NewestSlot(slots) ==
  IF slots[0] # BadSlot
     /\ \/ slots[1] = BadSlot
        \/ slots[0].gen > slots[1].gen
        \/ slots[0].gen = slots[1].gen /\ Before(slots[1].next, slots[0].next)
  THEN 0 ELSE 1

---------------------------------------------------------------------------
(* Decoding records *)

\* Wrong variant: entries above the record's own stay.
PutEntriesInPlace(log, rec) ==
  [i \in DOMAIN log \cup (rec.from .. rec.from + Len(rec.entries) - 1) |->
     IF i \in rec.from .. rec.from + Len(rec.entries) - 1
     THEN rec.entries[i - rec.from + 1] ELSE log[i]]

\* k_restore_put_entry for each entry of a record: the entries from its
\* first index on are dropped and the record's own are put there.  A log is
\* a function from the indexes it holds to terms.
PutEntries(log, rec) ==
  IF rec.entries = << >> THEN log
  ELSE [i \in {j \in DOMAIN log : j < rec.from}
              \cup (rec.from .. rec.from + Len(rec.entries) - 1) |->
          IF i < rec.from THEN log[i] ELSE rec.entries[i - rec.from + 1]]

\* The state of the scan: how it ended (of the whole scan, "refused"; of the
\* last segment, "clean", "header", "payload"), the number of records, the
\* newest one's generation and end, the restored hard state and log, the
\* newest base and the one before it, the record that brought the newest
\* base, the last record before that one, the last record of all, and the
\* last generation of the previous segment, if any, with how much it tells.
NoRecord == [base |-> 0, from |-> 1, entries |-> << >>, size |-> 0]

ScanStart(hard) ==
  [end |-> "clean", records |-> 0, gen |-> 0, tail |-> Pos(0, 0),
   hard |-> hard, log |-> << >>,
   base |-> 0, prevBase |-> 0,
   baseRec |-> NoRecord, prevRec |-> NoRecord, lastRec |-> NoRecord,
   segGen |-> 0, segKnown |-> FALSE]

\* One complete record at p: the bases it may change, then
\* k_state_decode_record.
Decode(s, gen, rec, p) ==
  LET changed == rec.base # s.base IN
  [s EXCEPT !.records  = @ + 1,
            !.gen      = gen,
            !.tail     = Pos(p.seg, p.off + RecordSize(rec)),
            !.hard     = RecoverHard(@, rec.hard),
            !.log      = PutEntries(@, rec),
            !.base     = rec.base,
            !.prevBase = IF changed THEN s.base ELSE @,
            !.prevRec  = IF changed THEN s.lastRec ELSE @,
            !.baseRec  = IF changed THEN rec ELSE @,
            !.lastRec  = rec]

---------------------------------------------------------------------------
(* The scan *)

\* The generation a header may carry: one more than the record before it in
\* the segment; the first of a segment must continue the previous segment,
\* by exactly one unless that one ended inside a header.
Continues(s, gen, have) ==
  IF have THEN gen = s.gen + 1
  ELSE s.segGen = 0
       \/ (gen > s.segGen /\ (s.segKnown => gen = s.segGen + 1))

\* The payload of a header at off: short, whole, or not the one checksummed.
PayloadAt(file, off, rec) ==
  LET cells == SubSeq(file, off + 2, off + RecordSize(rec)) IN
  CASE Len(file) < off + RecordSize(rec) -> "torn"
    [] file[off + RecordSize(rec)] = Stub -> "torn"
    [] cells = Tail(Image(0, rec)) -> "whole"
    [] OTHER -> "corrupt"

RECURSIVE ScanRecords(_, _, _, _)

\* The records of one segment, from offset p.off on; have tells whether one
\* was read from this segment already.
ScanRecords(s, file, p, have) ==
  LET head  == file[p.off + 1]
      state == PayloadAt(file, p.off, head.rec)
  IN CASE p.off = Len(file) -> [s EXCEPT !.end = "clean"]
       [] p.off < Len(file) /\ head = Stub -> [s EXCEPT !.end = "header"]
       [] p.off < Len(file) /\ head.cell = "payload" ->
            [s EXCEPT !.end = "refused"]
       [] OTHER ->
            IF ~Continues(s, head.gen, have) \/ state = "corrupt"
            THEN [s EXCEPT !.end = "refused"]
            ELSE IF state = "torn" THEN [s EXCEPT !.end = "payload"]
            ELSE ScanRecords(Decode(s, head.gen, head.rec, p), file,
                             Pos(p.seg, p.off + RecordSize(head.rec)), TRUE)

\* One segment that holds a byte.
ScanSegment(s, file, seg) ==
  LET t == ScanRecords(s, file, Pos(seg, 0), FALSE) IN
  IF t.records = s.records THEN t
  ELSE [t EXCEPT !.segGen = t.gen, !.segKnown = t.end # "header"]

RECURSIVE ScanFrom(_, _, _, _, _)

\* The walk over the segments.  Without a used slot it goes on until a
\* segment after the first record is empty; with one it goes up to the slot's
\* write position, and when the first PrefixMax segments hold no record it
\* jumps, once, to the last few before that position.
ScanFrom(s, segs, seg, slot, jumped) ==
  LET unused == slot.gen = 0
      limit  == IF unused THEN UnusedMax ELSE PrefixMax
      file   == segs[seg]
  IN IF s.end = "refused" \/ (~unused /\ seg > slot.next.seg) \/ seg \notin DOMAIN segs
     THEN s
     ELSE IF s.records = 0 /\ ~jumped /\ seg >= limit
     THEN IF unused THEN s
          ELSE ScanFrom(s, segs, Larger(slot.next.seg - TailSegs, 1), slot, TRUE)
     ELSE IF file = << >>
     THEN IF s.records > 0 THEN s ELSE ScanFrom(s, segs, seg + 1, slot, jumped)
     ELSE ScanFrom(ScanSegment(s, file, seg), segs, seg + 1, slot, jumped)

---------------------------------------------------------------------------
(* k_wal_state_load *)

Refusal == [ok |-> FALSE]

\* A base of 0 needs no snapshot file.
Usable(snaps, base) == base = 0 \/ base \in snaps

\* The log ends before the record the slot names as written.
EndsEarly(s, slot) ==
  slot.gen > 0 /\ Before(s.tail, Pos(slot.rec.seg, slot.rec.off + slot.size))

\* The base recovery starts from, the record its metadata is read from, and
\* whether there is one: the newest base if its snapshot file verifies, else
\* the one before it.
ChooseBase(s, snaps) ==
  LET newest == Larger(s.base, s.prevBase) IN
  IF Usable(snaps, newest)
  THEN [ok |-> TRUE, base |-> newest, rec |-> s.baseRec]
  ELSE [ok   |-> s.prevBase > 0 /\ Usable(snaps, s.prevBase),
        base |-> s.prevBase,
        rec  |-> s.prevRec]

\* The record that carries the base is decoded once more for its header, and
\* its entries are put once more on the way; then what the snapshot covers is
\* dropped, and the rest must be contiguous.
Restore(s, snaps, k) ==
  LET use  == ChooseBase(s, snaps)
      log  == IF use.base > 0 THEN PutEntries(s.log, use.rec) ELSE s.log
      kept == {i \in DOMAIN log : i > use.base}
  IN IF ~use.ok
        \/ (use.base > 0 /\ use.rec.base # use.base)
        \/ kept # use.base + 1 .. use.base + Cardinality(kept)
     THEN Refusal
     ELSE [ok   |-> TRUE, hard |-> s.hard, base |-> use.base,
           log  |-> [i \in kept |-> log[i]],
           gen  |-> s.gen, next |-> s.tail, slot |-> k]

\* What k_server_open gets from the files, hard being the hard state of a
\* node that never wrote one.
Load(disk, hard) ==
  LET k    == NewestSlot(disk.slots)
      slot == disk.slots[k]
      s    == ScanFrom(ScanStart(hard), disk.segs, 0, slot, FALSE)
  IN IF \/ slot = BadSlot
        \/ s.end = "refused"
        \/ (s.records = 0 /\ slot.gen > 0)
        \/ (s.records > 0 /\ EndsEarly(s, slot))
     THEN Refusal
     ELSE IF s.records = 0
     THEN [ok |-> TRUE, hard |-> hard, base |-> 0, log |-> << >>,
           gen |-> 0, next |-> slot.next, slot |-> k]
     ELSE Restore(s, disk.snaps, k)
=============================================================================
