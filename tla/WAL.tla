-------------------------------- MODULE WAL --------------------------------
(***************************************************************************)
(* The write-ahead log of one topic (pkg/wal/wal.go): segment files with   *)
(* their index files, Append with its roll, writes and syncs, the flush    *)
(* loop, Close, crashes, and what NewWAL recovers from the directory.      *)
(*                                                                         *)
(* A log file is a sequence of cells: the magic byte, the header's offset  *)
(* and its lengths, and the pieces of key, value and checksum. Positions   *)
(* count cells from 0. A body that holds the magic byte where recovery     *)
(* looks for one is not modelled. Append works under w.mu, so only a crash *)
(* comes between its steps, and the flush loop before it takes the segment.*)
(*                                                                         *)
(* Until it is synced, a file on disk may be what it was at any time since *)
(* the last sync: cells written over others, or cut off, may come back.    *)
(***************************************************************************)
EXTENDS Naturals, Sequences, FiniteSets

CONSTANTS
  Values, None,    \* what is appended; no value
  BodyLen,         \* BodyLen[v]: cells of key, value and checksum
  MaxSegment,      \* maxSegmentBytes, in cells
  SyncModes,       \* the values syncEveryWrite may have when a WAL is opened
  WritesMayFail,   \* a write or an fsync may return an error
  Torn,            \* a write may stop anywhere in a record
  Stray,           \* the number that other bytes are, read as a header's
  MaxAppends,      \* bound: calls of Append
  MaxRestarts      \* bound: crashes and reopenings

ASSUME WalConstantsOK ==
  /\ None \notin Values
  /\ BodyLen \in [Values -> Nat \ {0}]
  /\ MaxSegment \in Nat \ {0}
  /\ SyncModes \subseteq BOOLEAN /\ SyncModes # {}
  /\ {WritesMayFail, Torn} \subseteq BOOLEAN
  /\ Stray \in Nat
  /\ MaxAppends \in Nat /\ MaxRestarts \in Nat

Magic == [piece |-> 0, off |-> 0, val |-> None]

Cell == {Magic} \cup [piece: Nat \ {0}, off: Nat, val: Values]

\* Cells of a header: the magic byte, the offset, the lengths of key and value.
Header == 3

Size(v) == Header + BodyLen[v]

\* A record as Append lays it out.
Cells(o, v) ==
  <<Magic>> \o [i \in 1 .. Size(v) - 1 |-> [piece |-> i, off |-> o, val |-> v]]

VARIABLES
  files,       \* files[b]: log and index file of the segment at base b, and
               \* what a power loss may leave of its log
  segments,    \* w.segments: base, size and idxSize of each, active last
  nextOffset,  \* w.nextOffset
  sync,        \* w.syncEveryWrite
  closed,      \* w.closed
  pc, value,   \* where Append is, and its argument
  appends, restarts,
  acked        \* history: one past the last offset a syncing Append returned

vars == <<files, segments, nextOffset, sync, closed, pc, value, appends,
          restarts, acked>>

NoFile == [log |-> <<>>, disk |-> {<<>>}, idx |-> <<>>]

\* Mutant: only the index file is synced.
SyncedIndex(f) == f

\* fsync of the log. Nothing depends on whether the index is on disk.
Synced(f) == [f EXCEPT !.disk = {f.log}]

Active == segments[Len(segments)]

Segment(b, f) == [base |-> b, size |-> Len(f.log), idxSize |-> Len(f.idx)]

TypeOK ==
  /\ \A b \in DOMAIN files :
       /\ b \in Nat
       /\ files[b].log \in Seq(Cell) /\ files[b].idx \in Seq(Nat)
       /\ files[b].log \in files[b].disk
       /\ \A c \in files[b].disk : c \in Seq(Cell)
  /\ segments \in Seq([base: DOMAIN files, size: Nat, idxSize: Nat])
  /\ segments # <<>>
  /\ nextOffset \in Nat /\ acked \in Nat
  /\ {sync, closed} \subseteq BOOLEAN
  /\ pc \in {"ready", "write", "sync"}
  /\ value \in Values \cup {None}
  /\ appends \in 0 .. MaxAppends /\ restarts \in 0 .. MaxRestarts

Init ==
  /\ files = [b \in {0} |-> NoFile]
  /\ segments = <<Segment(0, NoFile)>>
  /\ nextOffset = 0
  /\ sync \in SyncModes
  /\ closed = FALSE
  /\ pc = "ready" /\ value = None
  /\ appends = 0 /\ restarts = 0
  /\ acked = 0

-----------------------------------------------------------------------------
(* Append *)

\* Mutant: the old segment is not synced.
RolledNoSync ==
  [b \in DOMAIN files \cup {nextOffset} |->
     IF b \in DOMAIN files THEN files[b] ELSE NoFile]

\* The files after roll: the active segment synced, one opened at nextOffset.
Rolled ==
  [b \in DOMAIN files \cup {nextOffset} |->
     IF b = Active.base THEN Synced(files[b])
     ELSE IF b \in DOMAIN files THEN files[b] ELSE NoFile]

\* Append up to its writes. If roll fails, at the fsync of the log, of the index
\* or when it opens the new index file, the new log file may be there and the
\* segment is not.
AppendBegin(v) ==
  /\ pc = "ready" /\ ~closed /\ appends < MaxAppends
  /\ appends' = appends + 1
  /\ \/ /\ Active.size < MaxSegment
        /\ pc' = "write" /\ value' = v
        /\ UNCHANGED <<files, segments>>
     \/ /\ Active.size >= MaxSegment
        /\ files' = Rolled
        /\ segments' = Append(segments, Segment(nextOffset, NoFile))
        /\ pc' = "write" /\ value' = v
     \/ /\ Active.size >= MaxSegment /\ WritesMayFail
        /\ files' \in {files, [files EXCEPT ![Active.base] = Synced(@)], Rolled}
        /\ UNCHANGED <<segments, pc, value>>
  /\ UNCHANGED <<nextOffset, sync, closed, restarts, acked>>

Overwrite(file, p, s) ==
  SubSeq(file, 1, p) \o s \o SubSeq(file, p + Len(s) + 1, Len(file))

\* How much of the record s, written at p, may be in the file when the write is
\* cut short, by an error or by a crash: anything if Torn. Otherwise what is
\* there in the end is no header, or a whole one of a whole record.
Stops(file, p, s) ==
  {n \in 0 .. Len(s) :
     Torn \/ n \in {0, Len(s)} \/ (n < Header /\ Len(file) < p + Header)}

\* Write n cells of s behind the last record; any part of them may reach the disk.
WriteLog(f, s, n) ==
  LET p == Active.size IN
  [f EXCEPT
     !.log = Overwrite(@, p, SubSeq(s, 1, n)),
     !.disk = @ \cup {Overwrite(f.log, p, SubSeq(s, 1, m)) :
                         m \in {m \in Stops(f.log, p, s) : m <= n}}]

WriteIndex(f) == [f EXCEPT !.idx = Overwrite(@, Active.idxSize, <<Active.size>>)]

\* The write of the record, then that of its position in the index; m is all of
\* the record when only the second one fails.
AppendWrite ==
  LET b == Active.base
      record == Cells(nextOffset, value)
      n == Len(record)
  IN
  /\ pc = "write"
  /\ \/ /\ files' = [files EXCEPT ![b] = WriteIndex(WriteLog(@, record, n))]
        /\ segments' = [segments EXCEPT ![Len(segments)] =
                          [base |-> b, size |-> @.size + n,
                           idxSize |-> @.idxSize + 1]]
        /\ nextOffset' = nextOffset + 1
        /\ pc' = "sync"
     \/ /\ WritesMayFail
        /\ \E m \in Stops(files[b].log, Active.size, record) :
             files' = [files EXCEPT ![b] = WriteLog(@, record, m)]
        /\ pc' = "ready"
        /\ UNCHANGED <<segments, nextOffset>>
  /\ value' = None
  /\ UNCHANGED <<sync, closed, appends, restarts, acked>>

\* The end of Append: fsync of both files, or a signal to the flush loop. An
\* error may come after the log is synced.
AppendSync ==
  LET b == Active.base IN
  /\ pc = "sync"
  /\ pc' = "ready"
  /\ \/ /\ sync
        /\ files' = [files EXCEPT ![b] = Synced(@)]
        /\ acked' = nextOffset
     \/ /\ sync /\ WritesMayFail
        /\ files' \in {files, [files EXCEPT ![b] = Synced(@)]}
        /\ UNCHANGED acked
     \/ /\ ~sync
        /\ UNCHANGED <<files, acked>>
  /\ UNCHANGED <<segments, nextOffset, sync, closed, value, appends, restarts>>

-----------------------------------------------------------------------------
(* The flush loop and Close *)

Flush ==
  /\ ~sync /\ ~closed /\ pc # "sync"
  /\ files' = [files EXCEPT ![Active.base] = Synced(@)]
  /\ UNCHANGED <<segments, nextOffset, sync, closed, pc, value, appends, restarts,
                 acked>>

Bases == {segments[i].base : i \in 1 .. Len(segments)}

\* Close goes on when an fsync fails.
Close ==
  /\ pc = "ready" /\ ~closed
  /\ closed' = TRUE
  /\ \E S \in SUBSET Bases :
       /\ S = Bases \/ WritesMayFail
       /\ files' = [b \in DOMAIN files |->
                      IF b \in S THEN Synced(files[b]) ELSE files[b]]
  /\ UNCHANGED <<segments, nextOffset, sync, pc, value, appends, restarts, acked>>

-----------------------------------------------------------------------------
(* Recovery: loadSegments, verifyOrRebuildIndex, recoverNextOffset *)

\* What a header says; bytes of something else say any number.
OffsetIn(c) == IF c.piece = 1 THEN c.off ELSE Stray
SizeIn(c) == IF c.piece = 2 THEN Size(c.val) ELSE Header + Stray

\* The scan finds a record at p: a magic byte, and enough bytes for a header.
StartsAt(file, p) == p + Header <= Len(file) /\ file[p + 1] = Magic

\* Where the record at p ends, by the lengths in its header.
EndOf(file, p) == p + SizeIn(file[p + 3])

\* The positions of the records the scan finds; it never looks at a body.
Positions(file) ==
  LET from[p \in 0 .. Len(file)] ==
        IF ~StartsAt(file, p) THEN <<>>
        ELSE IF EndOf(file, p) > Len(file) THEN <<p>>
             ELSE <<p>> \o from[EndOf(file, p)]
  IN  from[0]

\* logPos when the scan stops.
ScanEnd(file) ==
  LET found == Positions(file)
  IN  IF found = <<>> THEN 0 ELSE EndOf(file, found[Len(found)])

\* Mutant: what follows the last record is not cut off.
TruncatedNot(file) == file

\* The log is cut where the scan stopped, if that is inside it.
Truncated(file) ==
  IF ScanEnd(file) < Len(file) THEN SubSeq(file, 1, ScanEnd(file)) ELSE file

\* The index is kept if it has the positions the scan found, else rebuilt.
VerifiedIndex(f) ==
  IF f.idx = Positions(f.log) THEN f.idx ELSE Positions(f.log)

\* Nothing is synced but a new index.
Recovered(f) ==
  [log |-> Truncated(f.log), disk |-> f.disk \cup {Truncated(f.log)},
   idx |-> VerifiedIndex(f)]

\* Mutant: the last offset, not the next one.
RecoveredLast(b, f) ==
  IF f.idx = <<>> THEN b - 1 ELSE OffsetIn(f.log[f.idx[Len(f.idx)] + 2])

\* The offset after the last record of the active segment.
RecoveredNext(b, f) ==
  IF f.idx = <<>> THEN b ELSE OffsetIn(f.log[f.idx[Len(f.idx)] + 2]) + 1

\* loadSegments sorts the base offsets, which are the names of the files.
SortedBases(S) ==
  [i \in 1 .. Cardinality(S) |->
     CHOOSE b \in S : Cardinality({a \in S : a < b}) = i - 1]

\* NewWAL on the files it finds.
Open(found) ==
  LET bases == SortedBases(DOMAIN found)
      last == bases[Len(bases)]
  IN
  /\ files' = [b \in DOMAIN found |-> Recovered(found[b])]
  /\ segments' = [i \in 1 .. Len(bases) |-> Segment(bases[i], files'[bases[i]])]
  /\ nextOffset' = RecoveredNext(last, files'[last])
  /\ sync' \in SyncModes
  /\ closed' = FALSE
  /\ pc' = "ready" /\ value' = None
  /\ restarts' = restarts + 1
  /\ UNCHANGED <<appends, acked>>

\* The process ends, after Close or not, and the files are as it wrote them.
Reopen ==
  /\ restarts < MaxRestarts
  /\ Open(files)

\* The machine goes down: each log is as some write or sync left it, and of an
\* index, synced or not, all or nothing is left: NewWAL makes no difference
\* between a part of it and nothing. What is there then is on disk.
PowerLoss ==
  /\ restarts < MaxRestarts
  /\ \E left \in [DOMAIN files -> UNION {files[b].disk : b \in DOMAIN files}],
        noIndex \in SUBSET DOMAIN files :
       /\ \A b \in DOMAIN files : left[b] \in files[b].disk
       /\ Open([b \in DOMAIN files |->
                  [log |-> left[b], disk |-> {left[b]},
                   idx |-> IF b \in noIndex THEN <<>> ELSE files[b].idx]])

Next ==
  \/ \E v \in Values : AppendBegin(v)
  \/ AppendWrite \/ AppendSync
  \/ Flush \/ Close \/ Reopen \/ PowerLoss

Spec == Init /\ [][Next]_vars

-----------------------------------------------------------------------------
(* Read *)

\* findSegment: the segment with the largest base that is not above o.
FindSegment(o) ==
  segments[CHOOSE i \in 1 .. Len(segments) :
             /\ segments[i].base <= o
             /\ \A j \in i + 1 .. Len(segments) : segments[j].base > o]

Corrupt == [off |-> 0, val |-> None]

\* Read(o): the record the index points to, or an error (Corrupt).
Read(o) ==
  LET s == FindSegment(o)
      f == files[s.base]
      p == f.idx[o - s.base + 1]
      h == f.log[p + 2]
  IN  IF o - s.base < s.idxSize /\ StartsAt(f.log, p)
           /\ EndOf(f.log, p) <= Len(f.log)
           /\ SubSeq(f.log, p + 1, EndOf(f.log, p)) = Cells(h.off, h.val)
      THEN [off |-> h.off, val |-> h.val] ELSE Corrupt

\* The value that Read returns for offset o, if it is the record of o.
ValueAt(o) == IF Read(o).off = o THEN Read(o).val ELSE None

\* No power loss can lose the record of o: whatever may be on disk is the same
\* as the log up to its end.
IsDurable(o) ==
  LET b == FindSegment(o).base
      log == files[b].log
      end == EndOf(log, files[b].idx[o - b + 1])
  IN  \A c \in files[b].disk : end <= Len(c) /\ SubSeq(c, 1, end) = SubSeq(log, 1, end)

-----------------------------------------------------------------------------
(* Properties *)

(***************************************************************************)
(* The segments tile the offsets: each begins where the one before it      *)
(* ends, the last ends at nextOffset (Append, roll, recoverNextOffset), so *)
(* findSegment and the index find every offset; and what is not in the     *)
(* active segment is durable (roll syncs before it switches), so that a    *)
(* crash can leave no hole between two segments.                           *)
(***************************************************************************)
SegmentsTile ==
  /\ \A i \in 1 .. Len(segments) :
       segments[i].base + segments[i].idxSize
         = IF i = Len(segments) THEN nextOffset ELSE segments[i + 1].base
  /\ \A i \in 1 .. Len(segments) - 1 :
       \A o \in segments[i].base .. segments[i + 1].base - 1 : IsDurable(o)

\* With sync-every-write, a record whose Append returned is durable, even if
\* the fsync of an earlier one failed or the segment was rolled meanwhile.
AckedDurable == acked <= nextOffset /\ \A o \in 0 .. acked - 1 : IsDurable(o)

\* The values of the records that recovery finds in a log file.
Found(file) ==
  LET at == Positions(file) IN [i \in 1 .. Len(at) |-> file[at[i] + 2].val]

\* The log, if the active segment's file is this one.
LogWith(file) == [i \in 1 .. Active.base |-> ValueAt(i - 1)] \o Found(file)

(***************************************************************************)
(* Append, Flush, Close, crashes at any point and recovery are what a      *)
(* DurableLog does, seen through Read: recovery loses no durable record,   *)
(* leaves no hole, changes no value, and brings back nothing but what the  *)
(* file held since its last sync, with the value of a failed Append in its *)
(* last place if at all.                                                   *)
(***************************************************************************)
Abstract == INSTANCE DurableLog WITH
  log <- [i \in 1 .. nextOffset |-> ValueAt(i - 1)],
  file <- LogWith(files[Active.base].log),
  disk <- {LogWith(c) : c \in files[Active.base].disk}

ImplementsDurableLog == Abstract!Spec

\* Recovery cuts a corrupt tail off: every offset below nextOffset can be
\* read. A record of which a part is missing is kept, if its header is there.
EveryRecordReadable == \A o \in 0 .. nextOffset - 1 : Read(o) # Corrupt
=============================================================================
