---------------------------- MODULE SegmentedLog ----------------------------
(***************************************************************************)
(* A partition of the broker: packages/storage/src/segmented_log.js with   *)
(* its segments, their sparse indexes, and recovery; opened and closed as  *)
(* partition_store.js does, with a new object each time.                   *)
(*                                                                         *)
(* The files are apart from what the process knows of them.  A death of    *)
(* the process leaves the files as the last completed operation left them, *)
(* or the record that was being written torn.  A record is known by its    *)
(* size; a time index, which nothing reads, is left out.                   *)
(***************************************************************************)
EXTENDS Integers, Sequences, FiniteSets, FiniteSetsExt, SequencesExt, Listing

CONSTANTS
    Payload,               \* records, known by their size
    Torn,                  \* what is left of a record that was being written
    MaxSegmentBytes, IndexIntervalBytes, RetentionBytes,
    MaxOffset, MaxLogCalls, MaxDeaths     \* bounds of the exploration

ASSUME LogAssumption == /\ Payload \subseteq Nat \ {0}
                        /\ Torn \in Nat \ Payload
                        /\ MaxSegmentBytes \in Nat \ {0}     \* or a file of no record would be full
                        /\ {IndexIntervalBytes, RetentionBytes} \subseteq Nat

VARIABLES
    logs,        \* logs[b]: the records of file <b>.log, each with its position
    indexes,     \* indexes[b]: the entries of file <b>.idx
    segments,    \* what an open log knows of its segments, <<>> when it is closed
    logPc,       \* the next file operation of the call, "ready" between calls
    payload,     \* the record that is being appended
    expired,     \* segments retention has still to delete
    cuts,        \* how often truncate was called
    logCalls, deaths

files == <<logs, indexes>>
call == <<logPc, payload, expired>>
logVars == <<files, segments, call, cuts, logCalls, deaths>>

-----------------------------------------------------------------------------
SizeOf(log) == IF log = <<>> THEN 0 ELSE Last(log).position + Last(log).size
IsOpen == segments # <<>>
Active == Last(segments)
IndexOf(b) == IF b \in DOMAIN indexes THEN indexes[b] ELSE <<>>
TotalBytes == FoldSeq(LAMBDA s, sum : sum + SizeOf(logs[s.base]), 0, segments)

\* The number of the record at a position of a file.
RecordAt(log, position) == CHOOSE i \in DOMAIN log : log[i].position = position

\* A function with a value for one more argument.
Adding(f, x, value) == [y \in DOMAIN f \cup {x} |-> IF y = x THEN value ELSE f[y]]

\* SparseIndex.truncate: what is before the first entry at or after an offset.  A log
\* has a record of every offset, so that its truncation keeps what is before it, too.
Below(list, offset) ==
    LET from == {i \in DOMAIN list : list[i].offset >= offset}
    IN  SubSeq(list, 1, IF from = {} THEN Len(list) ELSE Min(from) - 1)

\* SparseIndex.lookup, as the number of the record to scan from.
ScanFrom(b, offset) ==
    LET upTo == {i \in DOMAIN IndexOf(b) : IndexOf(b)[i].offset <= offset}
    IN  IF upTo = {} THEN 1 ELSE RecordAt(logs[b], IndexOf(b)[Max(upTo)].position)

\* A mutant: a torn tail is kept.
RecoveredWhole(b, log, index) ==
    [log |-> log, index |-> index,
     nextOffset |-> IF log = <<>> THEN b ELSE Last(log).offset + 1]

\* A mutant: of the records behind the last indexed one none is taken.
RecoveredToIndex(b, log, index) ==
    LET from == IF index = <<>> THEN 1 ELSE RecordAt(log, Last(index).position)
        kept == SubSeq(log, 1, Min({from, Len(log)}))
    IN  [log |-> kept, index |-> index,
         nextOffset |-> IF kept = <<>> THEN b ELSE Last(kept).offset + 1]

\* _recoverNextOffset: the file is scanned from the last indexed record and cut at
\* the first that cannot be decoded.
Recovered(b, log, index) ==
    LET from == IF index = <<>> THEN 1 ELSE RecordAt(log, Last(index).position)
        bad == {i \in from .. Len(log) : log[i].torn}
        kept == IF bad = {} THEN log ELSE SubSeq(log, 1, Min(bad) - 1)
        next == IF Len(kept) >= from THEN Last(kept).offset + 1 ELSE b
    IN  [log |-> kept, nextOffset |-> next,
         index |-> IF bad = {} THEN index ELSE Below(index, next)]

-----------------------------------------------------------------------------
\* _findSegmentForOffset: the last segment that begins at or before the offset.
SegmentFor(offset) ==
    LET before == {i \in DOMAIN segments : segments[i].base <= offset}
    IN  IF before # {} /\ offset < segments[Max(before)].nextOffset THEN Max(before) ELSE 0

\* The value read returns, or Torn for null.
Read(offset) ==
    IF SegmentFor(offset) = 0 THEN Torn
    ELSE LET b == segments[SegmentFor(offset)].base
             later == {i \in ScanFrom(b, offset) .. Len(logs[b]) : logs[b][i].offset >= offset}
         IN  IF later # {} /\ logs[b][Min(later)].offset = offset
             THEN logs[b][Min(later)].size ELSE Torn

\* The places of the records of some files, a file and a number each, and the records
\* of places in the order of the files.
Places(bases) == UNION {{b} \X DOMAIN logs[b] : b \in bases}

RowsOf(places) ==
    LET Earlier(p) == {q \in places : q[1] < p[1] \/ (q[1] = p[1] /\ q[2] < p[2])}
        Nth(k) == CHOOSE p \in places : Cardinality(Earlier(p)) = k - 1
    IN  [k \in 1 .. Cardinality(places) |-> LET p == Nth(k) IN logs[p[1]][p[2]].size]

\* readRange without a limit of bytes: the values of at most n records.
ReadRange(offset, n) ==
    LET within == {i \in DOMAIN segments :
                     offset \in segments[i].base .. segments[i].nextOffset - 1}
        first == IF within # {} THEN Min(within)
                 ELSE IF offset <= segments[1].base THEN 1 ELSE Len(segments) + 1
        bases == {segments[i].base : i \in first .. Len(segments)}
        rows == RowsOf({p \in Places(bases) : logs[p[1]][p[2]].offset >= offset})
    IN  SubSeq(rows, 1, Min({n, Len(rows)}))

-----------------------------------------------------------------------------
\* append: a full segment is followed by a new one, whose files are created.
BeginAppend(v) ==
    /\ IsOpen /\ logPc = "ready" /\ logCalls < MaxLogCalls /\ Active.nextOffset < MaxOffset
    /\ logPc' = "write" /\ payload' = v /\ logCalls' = logCalls + 1
    /\ IF SizeOf(logs[Active.base]) >= MaxSegmentBytes
       THEN LET b == Active.nextOffset
            IN  /\ logs' = Adding(logs, b, <<>>)
                /\ indexes' = Adding(indexes, b, IndexOf(b))
                /\ segments' = Append(segments, [base |-> b, nextOffset |-> b, since |-> 0])
       ELSE UNCHANGED <<logs, indexes, segments>>
    /\ UNCHANGED <<cuts, expired, deaths>>

Record(v, torn) == [offset |-> Active.nextOffset, position |-> SizeOf(logs[Active.base]),
                    size |-> v, torn |-> torn]

WriteRecord ==
    /\ logPc = "write"
    /\ logs' = [logs EXCEPT ![Active.base] = Append(@, Record(payload, FALSE))]
    /\ LET since == Active.since + payload
       IN  /\ segments' = [segments EXCEPT ![Len(segments)] =
                             [base |-> Active.base, nextOffset |-> Active.nextOffset + 1,
                              since |-> since]]
           /\ logPc' = IF since >= IndexIntervalBytes \/ IndexOf(Active.base) = <<>>
                       THEN "index" ELSE "ready"
    /\ UNCHANGED <<cuts, indexes, payload, expired, logCalls, deaths>>

WriteIndexEntry ==
    /\ logPc = "index"
    /\ LET r == Last(logs[Active.base])
       IN  indexes' = [indexes EXCEPT ![Active.base] =
                         Append(@, [offset |-> r.offset, position |-> r.position])]
    /\ segments' = [segments EXCEPT ![Len(segments)] =
                       [base |-> Active.base, nextOffset |-> Active.nextOffset, since |-> 0]]
    /\ logPc' = "ready"
    /\ UNCHANGED <<cuts, logs, payload, expired, logCalls, deaths>>

-----------------------------------------------------------------------------
\* applyRetention: n segments are older than the limit, and more may have to go for
\* the size.  Records age in order, so that the segments to delete come first.
ApplyRetention(n) ==
    /\ IsOpen /\ logPc = "ready" /\ Len(segments) > 1 /\ logCalls < MaxLogCalls
    /\ logCalls' = logCalls + 1
    /\ LET SizeBefore(i) == FoldSeq(LAMBDA s, sum : sum + SizeOf(logs[s.base]), 0,
                                    SubSeq(segments, 1, i - 1))
           due == {i \in 1 .. Len(segments) - 1 :
                     i <= n \/ TotalBytes - SizeBefore(i) > RetentionBytes}
       IN  /\ expired' = Cardinality(due)
           /\ logPc' = IF due = {} THEN "ready" ELSE "delete"
    /\ UNCHANGED <<cuts, files, segments, payload, deaths>>

DeleteOldest ==
    /\ logPc = "delete"
    /\ LET b == Head(segments).base
       IN  /\ logs' = Restrict(logs, DOMAIN logs \ {b})
           /\ indexes' = Restrict(indexes, DOMAIN indexes \ {b})
    /\ segments' = Tail(segments)
    /\ expired' = expired - 1
    /\ logPc' = IF expired = 1 THEN "ready" ELSE "delete"
    /\ UNCHANGED <<cuts, payload, logCalls, deaths>>

\* What truncate leaves of the list of segments, and of the index files by name.  An
\* index whose log is gone stays.
KeptSegments(offset) ==
    LET m == Max({i \in DOMAIN segments : segments[i].base < offset})
        last == [base |-> segments[m].base, since |-> segments[m].since,
                 nextOffset |-> Min({segments[m].nextOffset, offset})]
    IN  [SubSeq(segments, 1, m) EXCEPT ![m] = last]

KeptIndexes(offset) == {b \in DOMAIN indexes : b < offset}

\* A mutant: the index keeps the entries of records that are cut off.
CutLogOnly(offset) ==
    /\ IsOpen /\ logPc = "ready" /\ logCalls < MaxLogCalls
    /\ offset \in segments[1].base + 1 .. Active.nextOffset
    /\ logCalls' = logCalls + 1
    /\ logs' = [b \in {c \in DOMAIN logs : c < offset} |-> Below(logs[b], offset)]
    /\ indexes' = [b \in KeptIndexes(offset) |-> indexes[b]]
    /\ segments' = KeptSegments(offset)
    /\ cuts' = cuts + 1
    /\ UNCHANGED <<call, deaths>>

\* truncate, to an offset after the first record.  It is taken as one step.
Truncate(offset) ==
    /\ IsOpen /\ logPc = "ready" /\ logCalls < MaxLogCalls
    /\ offset \in segments[1].base + 1 .. Active.nextOffset
    /\ logCalls' = logCalls + 1
    /\ logs' = [b \in {c \in DOMAIN logs : c < offset} |-> Below(logs[b], offset)]
    /\ indexes' = [b \in KeptIndexes(offset) |-> Below(indexes[b], offset)]
    /\ segments' = KeptSegments(offset)
    /\ cuts' = cuts + 1
    /\ UNCHANGED <<call, deaths>>

\* truncate to the first record: every segment goes, one of no records comes.
TruncateAll ==
    /\ IsOpen /\ logPc = "ready" /\ logCalls < MaxLogCalls
    /\ logCalls' = logCalls + 1
    /\ LET b == segments[1].base
       IN  /\ logs' = [c \in {b} |-> <<>>]
           /\ indexes' = [c \in KeptIndexes(b) \cup {b} |-> IF c = b THEN <<>> ELSE indexes[c]]
           /\ segments' = <<[base |-> b, nextOffset |-> b, since |-> 0]>>
    /\ cuts' = cuts + 1
    /\ UNCHANGED <<call, deaths>>

-----------------------------------------------------------------------------
OpenLog ==
    /\ ~IsOpen
    /\ LET found == IF DOMAIN logs = {} THEN Adding(logs, 0, <<>>) ELSE logs
           bases == DOMAIN found
           order == Listed(bases, Upwards(bases))
           Opened(b) == Recovered(b, found[b], IndexOf(b))
       IN  /\ logs' = [b \in bases |-> Opened(b).log]
           /\ indexes' = [b \in DOMAIN indexes \cup bases |->
                            IF b \in bases THEN Opened(b).index ELSE indexes[b]]
           /\ segments' = [i \in DOMAIN order |->
                             [base |-> order[i], nextOffset |-> Opened(order[i]).nextOffset,
                              since |-> 0]]
    /\ UNCHANGED <<cuts, call, logCalls, deaths>>

CloseLog ==
    /\ IsOpen /\ logPc = "ready" /\ logCalls < MaxLogCalls
    /\ logCalls' = logCalls + 1 /\ segments' = <<>>
    /\ UNCHANGED <<cuts, files, call, deaths>>

\* The process dies between two file operations, in the write of a record, or between
\* the removal of a log file and that of its index.
Die ==
    /\ IsOpen /\ deaths < MaxDeaths
    /\ deaths' = deaths + 1
    /\ logs' \in {logs}
          \cup (IF logPc # "write" THEN {}
                ELSE {[logs EXCEPT ![Active.base] = Append(@, Record(payload, TRUE))]})
          \cup (IF logPc # "delete" THEN {}
                ELSE {Restrict(logs, DOMAIN logs \ {segments[1].base})})
    /\ segments' = <<>> /\ logPc' = "ready" /\ expired' = 0
    /\ UNCHANGED <<cuts, indexes, payload, logCalls>>

-----------------------------------------------------------------------------
LogInit ==
    /\ logs = <<>> /\ indexes = <<>> /\ segments = <<>>
    /\ logPc = "ready" /\ payload = Torn /\ expired = 0
    /\ cuts = 0 /\ logCalls = 0 /\ deaths = 0

LogNext ==
    \/ \E v \in Payload : BeginAppend(v)
    \/ WriteRecord \/ WriteIndexEntry \/ DeleteOldest
    \/ \E n \in 0 .. Len(segments) : ApplyRetention(n)
    \/ \E offset \in 1 .. MaxOffset : Truncate(offset)
    \/ TruncateAll \/ OpenLog \/ CloseLog \/ Die

LogSpec == LogInit /\ [][LogNext]_logVars

-----------------------------------------------------------------------------
\* Types; besides, the segments are those of the files, in order and without gaps, and
\* every index entry points to a record of its file.
LogTypeOK ==
    /\ logPc \in {"ready", "write", "index", "delete"}
    /\ payload \in Payload \cup {Torn}
    /\ expired \in Nat /\ (logPc = "delete" <=> expired # 0)
    /\ expired # 0 => expired < Len(segments)
    /\ IsOpen => {segments[i].base : i \in DOMAIN segments} = DOMAIN logs
    /\ \A i \in 1 .. Len(segments) - 1 : segments[i].nextOffset = segments[i + 1].base
    /\ \A b \in DOMAIN logs : \A i \in DOMAIN IndexOf(b) :
          \E j \in DOMAIN logs[b] : /\ logs[b][j].offset = IndexOf(b)[i].offset
                                    /\ logs[b][j].position = IndexOf(b)[i].position

\* The records of all files, those of a file that was torn left out.
Content == RowsOf({p \in Places(DOMAIN logs) : ~logs[p[1]][p[2]].torn})

FirstOffset == IF DOMAIN logs = {} THEN 0 ELSE Min(DOMAIN logs)

Log == INSTANCE OffsetLog WITH Value <- Payload, start <- FirstOffset, records <- Content

\* A partition is a sequence with a first offset, through rolls, truncation, retention,
\* deaths in any of them and recovery: an acknowledged record is never lost or moved.
KeepsLog == Log!Spec

\* A read by offset finds, by way of index and scan, the very record that was appended
\* there, and a range is a run of them without gap, over the borders of segments.
ReadsFind ==
    IsOpen /\ logPc = "ready" =>
        LET content == Content
            Offset(i) == FirstOffset + i - 1
        IN  /\ Active.nextOffset = Offset(1) + Len(content)
            /\ \A i \in DOMAIN content :
                  /\ Read(Offset(i)) = content[i]
                  /\ ReadRange(Offset(i), 2) = SubSeq(content, i, Min({i + 1, Len(content)}))
=============================================================================
