------------------------------- MODULE LsmTree -------------------------------
(***************************************************************************)
(* The key-value engine of packages/lsm/src/lsm_tree.js with its memtable, *)
(* tables and compactor.                                                   *)
(*                                                                         *)
(* Calls are synchronous, so that a call sees no other; but it is made of  *)
(* file operations, each a step here (pc says which is next), between      *)
(* which the process may die or a write may fail.  A table is a function   *)
(* from keys to rows: the sorted blocks, the sparse index and the Bloom    *)
(* filter of its file are left out.                                        *)
(***************************************************************************)
EXTENDS Integers, Sequences, FiniteSetsExt, SequencesExt

CONSTANTS
    Key, Value,
    None,                  \* no value, and the value of a tombstone
    NoRow,
    PutBytes, DeleteBytes, \* what a row adds to the size of the memtable
    MemTableMaxBytes, CompactionThreshold,
    TiesAllowed,           \* two tables may hold rows of a key of one millisecond
    CrashBetweenUnlinks,   \* the process may die between two removals
    MaxCalls, MaxCrashes, MaxFailures   \* bounds of the exploration

Row == [value : Value \cup {None}, timestamp : Nat]
Table == [Key -> Row \cup {NoRow}]

ASSUME LsmAssumption == /\ CompactionThreshold \in Nat \ {0}
                        /\ {PutBytes, DeleteBytes, MemTableMaxBytes} \subseteq Nat
                        /\ None \notin Value /\ NoRow \notin Row

VARIABLES
    isOpen,
    memTable, byteSize,
    frozen,             \* the memtable is read-only: its flush has failed
    level0, level1,     \* the readers, newest first: id and content of their table
    nextSSTableId,
    disk,               \* disk[id]: the file with this id, for the ids in use
    pc,                 \* the next file operation of the call, "ready" between calls
    doomed,             \* files the compaction has still to remove
    closing,            \* the call is close
    clock,              \* Date.now()
    calls, crashes, failures   \* counters for the bounds

memory == <<isOpen, memTable, byteSize, frozen, level0, level1, nextSSTableId>>
counters == <<calls, crashes, failures>>
lsmVars == <<memory, disk, pc, doomed, closing, clock, counters>>

Reader == [id : Nat, rows : Table]
EmptyTable == [k \in Key |-> NoRow]

-----------------------------------------------------------------------------
\* The first of a sequence of tables that has a row of the key decides.
FirstRow(tables, k) ==
    LET has == {i \in DOMAIN tables : tables[i][k] # NoRow}
    IN  IF has = {} THEN NoRow ELSE tables[Min(has)][k]

Rows(readers) == [i \in DOMAIN readers |-> readers[i].rows]

\* get, of an open tree.
Found(k) == FirstRow(<<memTable>> \o Rows(level0) \o Rows(level1), k)
Get(k) == IF Found(k) = NoRow THEN None ELSE Found(k).value

\* The readers open() makes of a level, files sorted by descending id.
ReadersOf(files, level) ==
    LET ids == {id \in DOMAIN files : files[id].level = level}
        Nth(i) == CHOOSE id \in ids : Cardinality({j \in ids : j > id}) = i - 1
    IN  [i \in 1 .. Cardinality(ids) |-> [id |-> Nth(i), rows |-> files[Nth(i)].rows]]

\* A mutant: the row of the oldest table is kept, whatever its time.
MergedOldest(tables) ==
    [k \in Key |-> LET has == {i \in DOMAIN tables : tables[i][k] # NoRow}
                   IN  IF has = {} THEN NoRow ELSE tables[Max(has)][k]]

\* compact: tables come newest first and a row replaces one that is not newer, so
\* that among rows of one time the oldest table has the last word.
Merged(tables) ==
    [k \in Key |->
        LET has == {i \in DOMAIN tables : tables[i][k] # NoRow}
            newest == {i \in has : \A j \in has : tables[j][k].timestamp <= tables[i][k].timestamp}
        IN  IF has = {} THEN NoRow ELSE tables[Max(newest)][k]]

-----------------------------------------------------------------------------
EndCall == /\ pc' = "ready" /\ closing' = FALSE
           /\ isOpen' = ~closing

\* put, and delete for v = None.
Write(k, v) ==
    /\ isOpen /\ pc = "ready" /\ ~frozen /\ calls < MaxCalls
    /\ clock' \in {clock + 1} \cup IF TiesAllowed THEN {clock} ELSE {}
    /\ memTable' = [memTable EXCEPT ![k] = [value |-> v, timestamp |-> clock']]
    /\ byteSize' = byteSize + IF v = None THEN DeleteBytes ELSE PutBytes
    /\ pc' = IF byteSize' >= MemTableMaxBytes THEN "flush" ELSE "ready"
    /\ calls' = calls + 1
    /\ UNCHANGED <<isOpen, frozen, level0, level1, nextSSTableId, disk, doomed, closing,
                   crashes, failures>>

CloseTree ==
    /\ isOpen /\ pc = "ready" /\ calls < MaxCalls
    /\ calls' = calls + 1
    /\ IF memTable # EmptyTable
       THEN /\ pc' = "flush" /\ closing' = TRUE /\ UNCHANGED isOpen
       ELSE /\ isOpen' = FALSE /\ UNCHANGED <<pc, closing>>
    /\ UNCHANGED <<memTable, byteSize, frozen, level0, level1, nextSSTableId, disk, doomed,
                   clock, crashes, failures>>

\* The disk with one more file.
With(file) == [id \in DOMAIN disk \cup {nextSSTableId} |->
                  IF id = nextSSTableId THEN file ELSE disk[id]]
File(level, rows) == [level |-> level, rows |-> rows, whole |-> TRUE]
TornFile(level) == [level |-> level, rows |-> EmptyTable, whole |-> FALSE]

\* flushMemTable, up to the question whether there is something to compact.
FlushMemTable ==
    /\ pc = "flush"
    /\ disk' = With(File(0, memTable))
    /\ level0' = <<[id |-> nextSSTableId, rows |-> memTable]>> \o level0
    /\ nextSSTableId' = nextSSTableId + 1
    /\ memTable' = EmptyTable /\ byteSize' = 0 /\ frozen' = FALSE
    /\ IF Len(level0') >= CompactionThreshold
       THEN pc' = "merge" /\ UNCHANGED <<isOpen, closing>>
       ELSE EndCall
    /\ UNCHANGED <<level1, doomed, clock, counters>>

\* triggerCompaction up to the new table.
MergeTables ==
    /\ pc = "merge"
    /\ disk' = With(File(1, Merged(Rows(level0))))
    /\ nextSSTableId' = nextSSTableId + 1
    /\ doomed' = [i \in DOMAIN level0 |-> level0[i].id]
    /\ pc' = "unlink"
    /\ UNCHANGED <<isOpen, memTable, byteSize, frozen, level0, level1, closing, clock, counters>>

\* A mutant: level 1 goes on without the new table.
UnlinkAndForget ==
    /\ pc = "unlink"
    /\ disk' = Restrict(disk, DOMAIN disk \ {Head(doomed)})
    /\ doomed' = Tail(doomed)
    /\ IF doomed' = <<>>
       THEN level0' = <<>> /\ UNCHANGED level1 /\ EndCall
       ELSE UNCHANGED <<level0, level1, isOpen, pc, closing>>
    /\ UNCHANGED <<memTable, byteSize, frozen, nextSSTableId, clock, counters>>

\* The compactor removes its inputs one by one; after the last the lists change.
UnlinkNext ==
    /\ pc = "unlink"
    /\ disk' = Restrict(disk, DOMAIN disk \ {Head(doomed)})
    /\ doomed' = Tail(doomed)
    /\ IF doomed' = <<>>
       THEN LET new == nextSSTableId - 1
            IN  /\ level0' = <<>>
                /\ level1' = <<[id |-> new, rows |-> disk[new].rows]>> \o level1
                /\ EndCall
       ELSE UNCHANGED <<level0, level1, isOpen, pc, closing>>
    /\ UNCHANGED <<memTable, byteSize, frozen, nextSSTableId, clock, counters>>

\* A write of a file fails, which may leave a part of it, and the call throws.  A
\* memtable that was to be flushed stays, frozen; close stays half-way.
WriteFails ==
    /\ pc \in {"flush", "merge"} /\ failures < MaxFailures
    /\ frozen' = (frozen \/ pc = "flush")
    /\ disk' \in {disk, With(TornFile(IF pc = "flush" THEN 0 ELSE 1))}
    /\ nextSSTableId' = nextSSTableId + 1
    /\ pc' = "ready" /\ closing' = FALSE /\ failures' = failures + 1
    /\ UNCHANGED <<isOpen, memTable, byteSize, level0, level1, doomed, clock, calls, crashes>>

\* The process dies, between two file operations or in one that writes a table.
CrashTree ==
    /\ crashes < MaxCrashes
    /\ isOpen
    /\ CrashBetweenUnlinks \/ pc # "unlink" \/ Len(doomed) = Len(level0)
    /\ disk' \in {disk} \cup IF pc \in {"flush", "merge"}
                             THEN {With(TornFile(IF pc = "flush" THEN 0 ELSE 1))} ELSE {}
    /\ isOpen' = FALSE /\ memTable' = EmptyTable /\ byteSize' = 0 /\ frozen' = FALSE
    /\ level0' = <<>> /\ level1' = <<>> /\ nextSSTableId' = 1
    /\ pc' = "ready" /\ doomed' = <<>> /\ closing' = FALSE
    /\ crashes' = crashes + 1
    /\ UNCHANGED <<clock, calls, failures>>

\* open: the readers are added to those the object has from before a close.  A file
\* that is not whole makes it throw.
Open ==
    /\ ~isOpen /\ \A id \in DOMAIN disk : disk[id].whole
    /\ level0' = level0 \o ReadersOf(disk, 0)
    /\ level1' = level1 \o ReadersOf(disk, 1)
    /\ nextSSTableId' = Max({nextSSTableId} \cup {id + 1 : id \in DOMAIN disk})
    /\ isOpen' = TRUE
    /\ UNCHANGED <<memTable, byteSize, frozen, disk, pc, doomed, closing, clock, counters>>

-----------------------------------------------------------------------------
LsmInit ==
    /\ isOpen = FALSE /\ memTable = EmptyTable /\ byteSize = 0 /\ frozen = FALSE
    /\ level0 = <<>> /\ level1 = <<>> /\ nextSSTableId = 1
    /\ disk = <<>> /\ pc = "ready" /\ doomed = <<>> /\ closing = FALSE
    /\ clock = 0 /\ calls = 0 /\ crashes = 0 /\ failures = 0

LsmNext ==
    \/ \E k \in Key, v \in Value \cup {None} : Write(k, v)
    \/ CloseTree \/ FlushMemTable \/ MergeTables \/ UnlinkNext
    \/ WriteFails \/ CrashTree \/ Open

LsmSpec == LsmInit /\ [][LsmNext]_lsmVars

-----------------------------------------------------------------------------
\* Types; besides, a table of level 1 is newer than those it replaces and older than
\* level 0, ids grow with age reversed, and a frozen memtable has rows to lose.
LsmTypeOK ==
    /\ isOpen \in BOOLEAN /\ frozen \in BOOLEAN /\ closing \in BOOLEAN
    /\ memTable \in Table /\ byteSize \in Nat /\ nextSSTableId \in Nat
    /\ level0 \in Seq(Reader) /\ level1 \in Seq(Reader) /\ clock \in Nat
    /\ \A id \in DOMAIN disk : disk[id] \in [level : {0, 1}, rows : Table, whole : BOOLEAN]
    /\ pc \in {"ready", "flush", "merge", "unlink"}
    /\ doomed \in Seq(Nat) /\ (pc = "unlink" <=> doomed # <<>>)
    /\ isOpen => \A id \in DOMAIN disk : id < nextSSTableId
    /\ frozen => memTable # EmptyTable

\* What open() would find on the disk: of the files of level 0, else of level 1, the
\* newest that has the key.  The removal of old tables is taken as one step if the
\* process cannot die within.
OnDisk ==
    LET Having(k, level) ==
            {id \in DOMAIN disk : disk[id].level = level /\ disk[id].rows[k] # NoRow}
        Kept(k, level) == Having(k, level) \
                          IF CrashBetweenUnlinks THEN {} ELSE Range(doomed)
        Newest(k) == Max(IF Kept(k, 0) # {} THEN Kept(k, 0) ELSE Kept(k, 1))
    IN  [k \in Key |-> IF Kept(k, 0) \cup Kept(k, 1) = {} THEN None
                       ELSE disk[Newest(k)].rows[k].value]

Contents == IF isOpen THEN [k \in Key |-> Get(k)] ELSE OnDisk

Store == INSTANCE KeyValueMap WITH map <- Contents, saved <- OnDisk

\* The tree is a map: reads return the last write through flushes, compactions, failed
\* calls, close and open, and a death takes it back to its last flush as a whole.
KeepsMap == Store!Spec

\* Of all rows of a key, in memory and in the files, reads find one that is newest.
NewestWins ==
    isOpen /\ pc = "ready" =>
        \A k \in Key : \A table \in {memTable} \cup {disk[id].rows : id \in DOMAIN disk} :
            table[k] # NoRow => Found(k) # NoRow /\ table[k].timestamp <= Found(k).timestamp
=============================================================================
