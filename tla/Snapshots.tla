------------------------------ MODULE Snapshots ------------------------------
(***************************************************************************)
(* packages/raft/src/snapshot_manager.js: snapshots are written to a file  *)
(* of another name, renamed, and older ones removed, each a step between   *)
(* which the process may die; a stream of chunks to a follower goes on     *)
(* meanwhile, one chunk a call.                                            *)
(***************************************************************************)
EXTENDS Integers, Sequences, FiniteSetsExt, SequencesExt

CONSTANTS
    Chunks,       \* Chunks[i]: the length in chunks of the state at log index i
    MaxDied       \* bound of the exploration

ASSUME SnapshotAssumption == \A i \in DOMAIN Chunks : {i, Chunks[i]} \subseteq Nat \ {0}

VARIABLES
    snapFiles,    \* indices of the snapshots in the directory
    latest,       \* latestSnapshot of an open manager, 0 if it has none
    snapOpen, snapPc,
    newest,       \* the highest index that was ever renamed into place
    stream,       \* the chunks the follower was sent so far
    died

snapVars == <<snapFiles, latest, snapOpen, snapPc, newest, stream, died>>

Index == DOMAIN Chunks

-----------------------------------------------------------------------------
\* open and _loadLatestSnapshot
OpenSnapshots ==
    /\ ~snapOpen
    /\ snapOpen' = TRUE
    /\ latest' = IF snapFiles = {} THEN 0 ELSE Max(snapFiles)
    /\ UNCHANGED <<snapFiles, snapPc, newest, stream, died>>

\* saveSnapshot: the state machine has gone on, so that each has a higher index.
SaveSnapshot(i) ==
    /\ snapOpen /\ snapPc = "ready" /\ i > newest
    /\ snapFiles' = snapFiles \cup {i} /\ newest' = i /\ latest' = i
    /\ snapPc' = IF snapFiles = {} THEN "ready" ELSE "cleanup"
    /\ UNCHANGED <<snapOpen, stream, died>>

\* _cleanupOldSnapshots removes one of the others.
RemoveOld(i) ==
    /\ snapPc = "cleanup" /\ i \in snapFiles \ {latest}
    /\ snapFiles' = snapFiles \ {i}
    /\ snapPc' = IF snapFiles' = {latest} THEN "ready" ELSE "cleanup"
    /\ UNCHANGED <<latest, snapOpen, newest, stream, died>>

SnapshotsDie ==
    /\ snapOpen /\ died < MaxDied
    /\ snapOpen' = FALSE /\ latest' = 0 /\ snapPc' = "ready" /\ died' = died + 1
    /\ UNCHANGED <<snapFiles, newest, stream>>

-----------------------------------------------------------------------------
\* A mutant: the header is that of the first chunk of the stream.
ChunkOfStream(offset) ==
    [index |-> IF stream = <<>> THEN latest ELSE stream[1].index,
     part |-> IF offset < Chunks[latest] THEN <<latest, offset>> ELSE <<0, 0>>,
     done |-> offset + 1 >= Chunks[latest]]

\* getSnapshotChunk: cut from what is the latest snapshot now.  Beyond its end the
\* chunk is empty and done.
SnapshotChunk(offset) ==
    [index |-> latest,
     part |-> IF offset < Chunks[latest] THEN <<latest, offset>> ELSE <<0, 0>>,
     done |-> offset + 1 >= Chunks[latest]]

\* A caller asks for the chunk behind the ones it has, and may begin anew.
SendChunk ==
    /\ snapOpen /\ snapPc = "ready" /\ latest # 0
    /\ stream # <<>> => ~Last(stream).done
    /\ stream' = Append(stream, SnapshotChunk(Len(stream)))
    /\ UNCHANGED <<snapFiles, latest, snapOpen, snapPc, newest, died>>

Restart == /\ stream # <<>> /\ stream' = <<>>
           /\ UNCHANGED <<snapFiles, latest, snapOpen, snapPc, newest, died>>

-----------------------------------------------------------------------------
SnapInit ==
    /\ snapFiles = {} /\ latest = 0 /\ snapOpen = FALSE /\ snapPc = "ready"
    /\ newest = 0 /\ stream = <<>> /\ died = 0

SnapNext ==
    \/ OpenSnapshots \/ SnapshotsDie \/ SendChunk \/ Restart
    \/ \E i \in Index : SaveSnapshot(i) \/ RemoveOld(i)

SnapSpec == SnapInit /\ [][SnapNext]_snapVars

-----------------------------------------------------------------------------
SnapTypeOK ==
    /\ snapFiles \subseteq Index /\ latest \in Index \cup {0}
    /\ snapPc \in {"ready", "cleanup"} /\ newest \in Index \cup {0}
    /\ stream \in Seq([index : Index, part : (Index \cup {0}) \X Nat, done : BOOLEAN])

\* The newest snapshot is the one an open manager serves, whatever a death left of older
\* ones, and a complete stream whose chunks bear one index is that state from its first
\* part to its last; a stream that met a newer one is told apart by its indices.
StreamsAreWhole ==
    /\ snapOpen => latest = newest
    /\ stream # <<>> /\ Last(stream).done /\ (\A n \in DOMAIN stream : stream[n].index = stream[1].index)
       => LET i == stream[1].index
          IN  stream = [n \in 1 .. Chunks[i] |->
                          [index |-> i, part |-> <<i, n - 1>>, done |-> n = Chunks[i]]]
=============================================================================
