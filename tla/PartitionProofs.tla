--------------------------- MODULE PartitionProofs --------------------------
(***************************************************************************)
(* Theorems about the segmented log, for records of any size, segments and *)
(* index intervals of any length, and any number of calls and deaths: its  *)
(* files and what it knows of them agree, it implements a sequence of      *)
(* records at consecutive offsets, and reads find the records.             *)
(*                                                                         *)
(* The invariant says that every file holds a record of each offset from   *)
(* its name on and ends where the next begins.  The sequence the files     *)
(* make is then known by its values at offsets, and the steps are compared *)
(* there, rather than by the counting that puts the records in order.      *)
(***************************************************************************)
EXTENDS SegmentedLog, OrderLemmas

USE LogAssumption

LogRecord == [offset : Nat, position : Nat, size : Payload, torn : BOOLEAN]
Entry == [offset : Nat, position : Nat]
Segment == [base : Nat, nextOffset : Nat, since : Nat]

\* A log file of base b: a record of every offset from b on, each behind the one before.
FileOK(b, log) ==
    /\ log \in Seq(LogRecord)
    /\ \A i \in DOMAIN log : log[i].offset = b + i - 1
    /\ \A i, j \in DOMAIN log : i < j => log[i].position + log[i].size <= log[j].position

\* Its index: entries of some of its records, in order.
IndexOK(log, index) ==
    /\ index \in Seq(Entry)
    /\ \A i \in DOMAIN index : \E j \in DOMAIN log :
          /\ ~log[j].torn
          /\ log[j].offset = index[i].offset /\ log[j].position = index[i].position
    /\ \A i, j \in DOMAIN index : i < j => index[i].offset < index[j].offset

\* The files: one ends where the next begins, only the last may be empty, and only the
\* last record of a log that is closed may be torn.
FilesAre(L, open) ==
    /\ L \in [DOMAIN L -> Seq(LogRecord)]
    /\ IsFiniteSet(DOMAIN L) /\ DOMAIN L \in SUBSET Nat
    /\ \A b \in DOMAIN L : FileOK(b, L[b])
    /\ \A b, c \in DOMAIN L : b < c =>
          L[b] # <<>> /\ b + Len(L[b]) <= c /\ b + Len(L[b]) \in DOMAIN L
    /\ \A b \in DOMAIN L : \A i \in DOMAIN L[b] : L[b][i].torn =>
          /\ ~open /\ i = Len(L[b])
          /\ \A c \in DOMAIN L : c <= b

\* The index files X of log files L: of a log file that is gone one may be left.
Entries(X, b) == IF b \in DOMAIN X THEN X[b] ELSE <<>>

IndexesAre(L, X) ==
    /\ X \in [DOMAIN X -> Seq(Entry)]
    /\ DOMAIN X \in SUBSET Nat
    /\ \A b \in DOMAIN X : b \in DOMAIN L \/ \A c \in DOMAIN L : b < c
    /\ DOMAIN L = {} => DOMAIN X = {}
    /\ \A b \in DOMAIN L : IndexOK(L[b], Entries(X, b))

\* What an open log knows of its files.
SegmentsAre(L, X, S) ==
    /\ S \in Seq(Segment)
    /\ S # <<>> =>
          /\ {S[i].base : i \in DOMAIN S} = DOMAIN L
          /\ DOMAIN L \subseteq DOMAIN X
          /\ \A i, j \in DOMAIN S : i < j => S[i].base < S[j].base
          /\ \A i \in DOMAIN S : S[i].nextOffset = S[i].base + Len(L[S[i].base])

\* Of logs L, indexes X and segments S.
State(L, X, S) == FilesAre(L, S # <<>>) /\ IndexesAre(L, X) /\ SegmentsAre(L, X, S)

\* What is so of the call that runs.
CallOK ==
    /\ logPc \in {"ready", "write", "index", "delete"}
    /\ payload \in Payload \cup {Torn}
    /\ logPc # "ready" => IsOpen
    /\ logPc = "write" => payload \in Payload
    /\ logPc = "index" =>
          /\ logs[Active.base] # <<>>
          /\ \A i \in DOMAIN IndexOf(Active.base) :
                IndexOf(Active.base)[i].offset < Last(logs[Active.base]).offset
    /\ expired \in Nat /\ (logPc = "delete" <=> expired # 0)
    /\ expired # 0 => expired < Len(segments)

\* The inductive invariant.
LogInv == State(logs, indexes, segments) /\ CallOK

-----------------------------------------------------------------------------
(* One file and its index.                                                  *)

LEMMA SequenceFacts ==
    ASSUME NEW S, NEW s \in Seq(S)
    PROVE  /\ Len(s) \in Nat /\ DOMAIN s = 1 .. Len(s)
           /\ \A i \in DOMAIN s : s[i] \in S
           /\ s # <<>> <=> Len(s) # 0
           /\ s # <<>> => Len(s) \in DOMAIN s /\ Last(s) = s[Len(s)]
<1>1. Len(s) \in Nat /\ s \in [1 .. Len(s) -> S]
    BY LenProperties
<1>2. s # <<>> <=> Len(s) # 0
    BY EmptySeq
<1>3. Last(s) = s[Len(s)]
    BY DEF Last
<1>4. QED
    BY <1>1, <1>2, <1>3

\* What the beginning of a sequence is.
LEMMA Beginning ==
    ASSUME NEW S, NEW s \in Seq(S), NEW n \in 0 .. Len(s)
    PROVE  /\ SubSeq(s, 1, n) \in Seq(S) /\ Len(SubSeq(s, 1, n)) = n
           /\ DOMAIN SubSeq(s, 1, n) = 1 .. n
           /\ \A i \in 1 .. n : SubSeq(s, 1, n)[i] = s[i]
<1>1. Len(s) \in Nat /\ \A i \in 1 .. Len(s) : s[i] \in S
    BY LenProperties
<1>2. \A i \in 1 .. n : s[i] \in S
    BY <1>1
<1>3. SubSeq(s, 1, n) \in Seq(S) /\ Len(SubSeq(s, 1, n)) = n
    BY <1>1, <1>2, SubSeqProperties
<1>4. \A i \in 1 .. n : SubSeq(s, 1, n)[i] = s[i]
    BY <1>1, <1>2, SubSeqProperties
<1>5. DOMAIN SubSeq(s, 1, n) = 1 .. n
    BY <1>3, LenProperties
<1>6. QED
    BY <1>3, <1>4, <1>5

LEMMA FileFacts ==
    ASSUME NEW b \in Nat, NEW log, FileOK(b, log)
    PROVE  /\ Len(log) \in Nat /\ DOMAIN log = 1 .. Len(log)
           /\ \A i \in DOMAIN log :
                /\ log[i] \in LogRecord /\ log[i].offset = b + i - 1
                /\ log[i].position \in Nat /\ log[i].size \in Nat \ {0}
           /\ SizeOf(log) \in Nat
           /\ \A i \in DOMAIN log : log[i].position + log[i].size <= SizeOf(log)
           /\ log = <<>> => SizeOf(log) = 0
           /\ log # <<>> <=> Len(log) # 0
<1>1. log \in Seq(LogRecord)
    BY DEF FileOK
<1>2. /\ Len(log) \in Nat /\ DOMAIN log = 1 .. Len(log)
      /\ \A i \in DOMAIN log : log[i] \in LogRecord
      /\ log # <<>> <=> Len(log) # 0
      /\ log # <<>> => Len(log) \in DOMAIN log /\ Last(log) = log[Len(log)]
    BY <1>1, SequenceFacts
<1>3. \A i \in DOMAIN log : log[i].position \in Nat /\ log[i].size \in Nat \ {0}
    BY <1>2 DEF LogRecord, LogAssumption
<1>4. CASE log = <<>>
    BY <1>2, <1>3, <1>4 DEF SizeOf, FileOK
<1>5. CASE log # <<>>
    <2>1. SizeOf(log) = log[Len(log)].position + log[Len(log)].size
        BY <1>2, <1>5 DEF SizeOf
    <2>2. SizeOf(log) \in Nat
        BY <1>2, <1>3, <1>5, <2>1
    <2>3. ASSUME NEW i \in DOMAIN log
          PROVE  log[i].position + log[i].size <= SizeOf(log)
        <3>1. CASE i = Len(log)
            BY <1>3, <2>1, <3>1
        <3>2. CASE i # Len(log)
            <4>1. i < Len(log)
                BY <1>2, <3>2
            <4>2. log[i].position + log[i].size <= log[Len(log)].position
                BY <1>2, <1>5, <4>1 DEF FileOK
            <4>3. QED
                BY SMTT(20), <1>2, <1>3, <1>5, <2>1, <4>2
        <3>3. QED
            BY <3>1, <3>2
    <2>4. QED
        BY <1>2, <1>3, <2>2, <2>3, <1>5 DEF FileOK
<1>6. QED
    BY <1>4, <1>5

LEMMA AppendedFile ==
    ASSUME NEW b \in Nat, NEW log, FileOK(b, log), NEW r \in LogRecord,
           r.offset = b + Len(log), r.position = SizeOf(log)
    PROVE  /\ FileOK(b, Append(log, r)) /\ Len(Append(log, r)) = Len(log) + 1
           /\ Append(log, r) # <<>> /\ Last(Append(log, r)) = r
           /\ \A i \in DOMAIN log : Append(log, r)[i] = log[i]
           /\ Append(log, r)[Len(log) + 1] = r
<1> DEFINE n == Len(log)
           more == Append(log, r)
<1>1. log \in Seq(LogRecord)
    BY DEF FileOK
<1>2. /\ n \in Nat /\ DOMAIN log = 1 .. n
      /\ \A i \in DOMAIN log :
           /\ log[i] \in LogRecord /\ log[i].offset = b + i - 1
           /\ log[i].position \in Nat /\ log[i].size \in Nat \ {0}
      /\ \A i \in DOMAIN log : log[i].position + log[i].size <= SizeOf(log)
    BY FileFacts
<1>3. /\ more \in Seq(LogRecord) /\ Len(more) = n + 1
      /\ \A i \in 1 .. n : more[i] = log[i]
      /\ more[n + 1] = r
    BY <1>1, AppendProperties
<1> HIDE DEF more, n
<1>4. DOMAIN more = 1 .. n + 1 /\ more # <<>> /\ Last(more) = r
    <2>1. /\ DOMAIN more = 1 .. Len(more)
          /\ more # <<>> <=> Len(more) # 0
          /\ more # <<>> => Last(more) = more[Len(more)]
        BY <1>3, SequenceFacts
    <2>2. QED
        BY <1>2, <1>3, <2>1
<1>5. \A i, j \in DOMAIN log : i < j => log[i].position + log[i].size <= log[j].position
    BY DEF FileOK
<1>6. \A i \in DOMAIN more : more[i].offset = b + i - 1
    <2> TAKE i \in DOMAIN more
    <2>1. CASE i = n + 1
        BY <1>2, <1>3, <2>1 DEF n
    <2>2. CASE i # n + 1
        BY <1>2, <1>3, <1>4, <2>2
    <2>3. QED
        BY <2>1, <2>2
<1>7. \A i, j \in DOMAIN more : i < j => more[i].position + more[i].size <= more[j].position
    <2> SUFFICES ASSUME NEW i \in DOMAIN more, NEW j \in DOMAIN more, i < j
                 PROVE  more[i].position + more[i].size <= more[j].position
        OBVIOUS
    <2>1. i \in DOMAIN log /\ more[i] = log[i]
        BY <1>2, <1>3, <1>4
    <2>2. CASE j = n + 1
        BY <1>2, <1>3, <2>1, <2>2
    <2>3. CASE j # n + 1
        <3>1. j \in DOMAIN log /\ more[j] = log[j]
            BY <1>2, <1>3, <1>4, <2>3
        <3>2. QED
            BY <1>5, <2>1, <3>1
    <2>4. QED
        BY <2>2, <2>3
<1>8. QED
    BY <1>2, <1>3, <1>4, <1>6, <1>7 DEF FileOK, more, n

LEMMA CutFile ==
    ASSUME NEW b \in Nat, NEW log, FileOK(b, log), NEW n \in 0 .. Len(log)
    PROVE  /\ FileOK(b, SubSeq(log, 1, n)) /\ Len(SubSeq(log, 1, n)) = n
           /\ DOMAIN SubSeq(log, 1, n) = 1 .. n
           /\ \A i \in 1 .. n : SubSeq(log, 1, n)[i] = log[i]
<1> DEFINE cut == SubSeq(log, 1, n)
<1>1. log \in Seq(LogRecord) /\ Len(log) \in Nat /\ DOMAIN log = 1 .. Len(log)
    BY FileFacts DEF FileOK
<1>2. /\ cut \in Seq(LogRecord) /\ Len(cut) = n /\ DOMAIN cut = 1 .. n
      /\ \A i \in 1 .. n : cut[i] = log[i]
    BY <1>1, Beginning
<1> HIDE DEF cut
<1>3. 1 .. n \subseteq DOMAIN log
    BY <1>1
<1>4. FileOK(b, cut)
    BY <1>2, <1>3 DEF FileOK
<1>5. QED
    BY <1>2, <1>4 DEF cut

\* What Below keeps of entries in the order of their offsets.
LEMMA BelowIs ==
    ASSUME NEW S, NEW list \in Seq(S), NEW offset \in Nat,
           \A i \in DOMAIN list : list[i].offset \in Nat,
           \A i, j \in DOMAIN list : i < j => list[i].offset < list[j].offset
    PROVE  \E n \in 0 .. Len(list) :
              /\ Below(list, offset) = SubSeq(list, 1, n)
              /\ \A i \in DOMAIN list : list[i].offset < offset <=> i <= n
<1> DEFINE from == {i \in DOMAIN list : list[i].offset >= offset}
<1>1. Len(list) \in Nat /\ DOMAIN list = 1 .. Len(list)
    BY SequenceFacts
<1>2. CASE from = {}
    <2>1. Below(list, offset) = SubSeq(list, 1, Len(list))
        BY <1>2 DEF Below
    <2>2. \A i \in DOMAIN list : list[i].offset < offset
        BY <1>2
    <2>3. Len(list) \in 0 .. Len(list) /\ \A i \in DOMAIN list : i <= Len(list)
        BY <1>1
    <2>4. \A i \in DOMAIN list : list[i].offset < offset <=> i <= Len(list)
        BY <2>2, <2>3
    <2>5. QED
        BY <2>1, <2>3, <2>4
<1>3. CASE from # {}
    <2> DEFINE n == Min(from) - 1
    <2>1. from \in SUBSET Nat
        BY <1>1
    <2>2. Below(list, offset) = SubSeq(list, 1, n)
        BY <1>3 DEF Below
    <2> HIDE DEF from
    <2>3. Min(from) \in from /\ \A i \in from : Min(from) <= i
        BY <1>3, <2>1, MinIsLeast
    <2>4. Min(from) \in 1 .. Len(list) /\ list[Min(from)].offset >= offset
        BY <1>1, <2>3 DEF from
    <2>5. n \in 0 .. Len(list)
        BY <1>1, <2>4
    <2>6. ASSUME NEW i \in DOMAIN list PROVE list[i].offset < offset <=> i <= n
        <3>1. CASE i < Min(from)
            <4>1. i \notin from
                BY <1>1, <2>3, <2>4, <3>1
            <4>2. QED
                BY <1>1, <2>4, <3>1, <4>1 DEF from
        <3>2. CASE i >= Min(from)
            <4>1. list[i].offset >= offset
                BY <1>1, <2>4, <3>2
            <4>2. QED
                BY <1>1, <2>4, <3>2, <4>1
        <3>3. QED
            BY <1>1, <2>4, <3>1, <3>2
    <2>7. QED
        BY <2>2, <2>5, <2>6
<1>4. QED
    BY <1>2, <1>3

\* How many records of a file are before an offset.
CountBelow(b, log, offset) == IF offset < b + Len(log) THEN offset - b ELSE Len(log)

LEMMA BelowFile ==
    ASSUME NEW b \in Nat, NEW log, FileOK(b, log), NEW offset \in Nat, offset >= b
    PROVE  /\ CountBelow(b, log, offset) \in 0 .. Len(log)
           /\ Below(log, offset) = SubSeq(log, 1, CountBelow(b, log, offset))
<1> DEFINE m == CountBelow(b, log, offset)
<1>1. /\ log \in Seq(LogRecord) /\ Len(log) \in Nat /\ DOMAIN log = 1 .. Len(log)
      /\ \A i \in DOMAIN log : log[i].offset = b + i - 1
    BY FileFacts DEF FileOK
<1>2. m \in 0 .. Len(log)
    BY <1>1 DEF CountBelow
<1>3. \A i \in DOMAIN log : log[i].offset \in Nat
    BY <1>1
<1>4. \A i, j \in DOMAIN log : i < j => log[i].offset < log[j].offset
    BY <1>1
<1>5. PICK n \in 0 .. Len(log) :
            /\ Below(log, offset) = SubSeq(log, 1, n)
            /\ \A i \in DOMAIN log : log[i].offset < offset <=> i <= n
    BY <1>1, <1>3, <1>4, BelowIs
<1>6. \A i \in 1 .. Len(log) : i <= m <=> i <= n
    BY <1>1, <1>5 DEF CountBelow
<1> HIDE DEF m
<1>7. n = m
    <2>1. n # 0 => n <= m
        BY <1>1, <1>2, <1>6
    <2>2. m # 0 => m <= n
        BY <1>1, <1>2, <1>6
    <2>3. QED
        BY <1>1, <1>2, <2>1, <2>2
<1>8. QED
    BY <1>2, <1>5, <1>7 DEF m

LEMMA IndexFacts ==
    ASSUME NEW b \in Nat, NEW log, FileOK(b, log), NEW index, IndexOK(log, index)
    PROVE  /\ Len(index) \in Nat /\ DOMAIN index = 1 .. Len(index)
           /\ index # <<>> <=> Len(index) # 0
           /\ index # <<>> => Len(index) \in DOMAIN index /\ Last(index) = index[Len(index)]
           /\ \A i \in DOMAIN index :
                /\ index[i].offset \in Nat /\ index[i].position \in Nat
                /\ index[i].offset - b + 1 \in DOMAIN log
                /\ ~log[index[i].offset - b + 1].torn
                /\ log[index[i].offset - b + 1].position = index[i].position
<1>1. index \in Seq(Entry)
    BY DEF IndexOK
<1>2. /\ Len(index) \in Nat /\ DOMAIN index = 1 .. Len(index)
      /\ index # <<>> <=> Len(index) # 0
      /\ index # <<>> => Len(index) \in DOMAIN index /\ Last(index) = index[Len(index)]
      /\ \A i \in DOMAIN index : index[i] \in Entry
    BY <1>1, SequenceFacts
<1>3. ASSUME NEW i \in DOMAIN index
      PROVE  /\ index[i].offset \in Nat /\ index[i].position \in Nat
             /\ index[i].offset - b + 1 \in DOMAIN log
             /\ ~log[index[i].offset - b + 1].torn
             /\ log[index[i].offset - b + 1].position = index[i].position
    <2>1. index[i].offset \in Nat /\ index[i].position \in Nat
        BY <1>2 DEF Entry
    <2>2. PICK j \in DOMAIN log : /\ ~log[j].torn
                                  /\ log[j].offset = index[i].offset
                                  /\ log[j].position = index[i].position
        BY DEF IndexOK
    <2>3. log[j].offset = b + j - 1 /\ j \in Nat
        BY FileFacts
    <2>4. index[i].offset - b + 1 = j
        BY <2>2, <2>3
    <2>5. QED
        BY <2>1, <2>2, <2>4
<1>4. QED
    BY <1>2, <1>3

\* The index of a file that is cut, when it is cut at the same offset.
LEMMA CutIndex ==
    ASSUME NEW b \in Nat, NEW log, FileOK(b, log), NEW index, IndexOK(log, index),
           NEW offset \in Nat, offset >= b
    PROVE  IndexOK(SubSeq(log, 1, CountBelow(b, log, offset)), Below(index, offset))
<1> DEFINE m == CountBelow(b, log, offset)
           cut == SubSeq(log, 1, m)
           less == Below(index, offset)
<1>1. Len(log) \in Nat /\ DOMAIN log = 1 .. Len(log)
    BY FileFacts
<1>2. m \in 0 .. Len(log)
    BY BelowFile
<1>3. DOMAIN cut = 1 .. m /\ \A i \in 1 .. m : cut[i] = log[i]
    BY <1>2, CutFile
<1>4. /\ index \in Seq(Entry) /\ Len(index) \in Nat /\ DOMAIN index = 1 .. Len(index)
      /\ \A i \in DOMAIN index :
            /\ index[i].offset \in Nat /\ index[i].position \in Nat
            /\ index[i].offset - b + 1 \in DOMAIN log
            /\ ~log[index[i].offset - b + 1].torn
            /\ log[index[i].offset - b + 1].position = index[i].position
    BY IndexFacts DEF IndexOK
<1>5. \A i, j \in DOMAIN index : i < j => index[i].offset < index[j].offset
    BY DEF IndexOK
<1>6. PICK n \in 0 .. Len(index) :
            /\ less = SubSeq(index, 1, n)
            /\ \A i \in DOMAIN index : index[i].offset < offset <=> i <= n
    BY <1>4, <1>5, BelowIs
<1>7. /\ less \in Seq(Entry) /\ DOMAIN less = 1 .. n
      /\ \A i \in 1 .. n : less[i] = index[i]
    BY <1>4, <1>6, Beginning
<1>8. ASSUME NEW i \in 1 .. n
      PROVE  \E j \in 1 .. m : /\ ~log[j].torn
                               /\ log[j].offset = index[i].offset
                               /\ log[j].position = index[i].position
    <2> DEFINE j == index[i].offset - b + 1
    <2>1. i \in DOMAIN index
        BY <1>4
    <2>2. index[i].offset < offset
        BY <1>4, <1>6, <2>1
    <2>3. j \in DOMAIN log /\ ~log[j].torn /\ log[j].position = index[i].position
          /\ index[i].offset \in Nat
        BY <1>4, <2>1
    <2>4. log[j].offset = b + j - 1
        BY SMTT(20), <2>3, FileFacts
    <2>5. j \in 1 .. m
        BY SMTT(20), <1>1, <2>2, <2>3 DEF CountBelow
    <2>6. log[j].offset = index[i].offset
        BY <2>3, <2>4
    <2>7. QED
        BY <2>3, <2>5, <2>6
<1>9. \A i \in DOMAIN less : \E j \in DOMAIN cut :
          /\ ~cut[j].torn
          /\ cut[j].offset = less[i].offset /\ cut[j].position = less[i].position
    <2> TAKE i \in DOMAIN less
    <2>1. PICK j \in 1 .. m : /\ ~log[j].torn
                              /\ log[j].offset = index[i].offset
                              /\ log[j].position = index[i].position
        BY <1>7, <1>8
    <2>2. j \in DOMAIN cut /\ cut[j] = log[j] /\ less[i] = index[i]
        BY <1>3, <1>7
    <2> HIDE DEF cut, less
    <2>3. QED
        BY <2>1, <2>2
<1>10. \A i, j \in DOMAIN less : i < j => less[i].offset < less[j].offset
    <2>1. 1 .. n \subseteq DOMAIN index
        BY <1>4
    <2> HIDE DEF less
    <2>2. QED
        BY <1>5, <1>7, <2>1
<1> HIDE DEF cut, less
<1>11. IndexOK(cut, less)
    BY <1>7, <1>9, <1>10 DEF IndexOK
<1>12. QED
    BY <1>11 DEF cut, less

\* A record is known by its position.
LEMMA RecordAtIs ==
    ASSUME NEW b \in Nat, NEW log, FileOK(b, log), NEW j \in DOMAIN log
    PROVE  RecordAt(log, log[j].position) = j
<1>1. \A i \in DOMAIN log : log[i].position = log[j].position => i = j
    <2> SUFFICES ASSUME NEW i \in DOMAIN log, log[i].position = log[j].position, i # j PROVE FALSE
        OBVIOUS
    <2>1. /\ i \in Nat /\ j \in Nat /\ log[i].position \in Nat /\ log[j].position \in Nat
          /\ log[i].size \in Nat \ {0} /\ log[j].size \in Nat \ {0}
        <3>1. /\ Len(log) \in Nat /\ DOMAIN log = 1 .. Len(log)
              /\ \A k \in DOMAIN log : log[k].position \in Nat /\ log[k].size \in Nat \ {0}
            BY FileFacts
        <3>2. QED
            BY <3>1
    <2>2. CASE i < j
        <3>1. log[i].position + log[i].size <= log[j].position
            BY <2>2 DEF FileOK
        <3>2. QED
            BY <2>1, <3>1
    <2>3. CASE j < i
        <3>1. log[j].position + log[j].size <= log[i].position
            BY <2>3 DEF FileOK
        <3>2. QED
            BY <2>1, <3>1
    <2>4. QED
        BY <2>1, <2>2, <2>3
<1>2. QED
    BY <1>1 DEF RecordAt

\* What recovery makes of a file and its index: the whole records, and their index.
LEMMA RecoveredIs ==
    ASSUME NEW b \in Nat, NEW log, FileOK(b, log), NEW index, IndexOK(log, index),
           \A i \in DOMAIN log : log[i].torn => i = Len(log)
    PROVE  LET r == Recovered(b, log, index)
               whole == IF log # <<>> /\ log[Len(log)].torn THEN Len(log) - 1 ELSE Len(log)
           IN  /\ whole \in 0 .. Len(log)
               /\ r.log = SubSeq(log, 1, whole)
               /\ r.nextOffset = b + whole
               /\ IndexOK(r.log, r.index)
<1> DEFINE n == Len(log)
           from == IF index = <<>> THEN 1 ELSE RecordAt(log, Last(index).position)
           bad == {i \in from .. n : log[i].torn}
           kept == IF bad = {} THEN log ELSE SubSeq(log, 1, Min(bad) - 1)
           next == IF Len(kept) >= from THEN Last(kept).offset + 1 ELSE b
           r == Recovered(b, log, index)
           whole == IF log # <<>> /\ log[n].torn THEN n - 1 ELSE n
<1>1. /\ n \in Nat /\ DOMAIN log = 1 .. n /\ log \in Seq(LogRecord)
      /\ \A i \in DOMAIN log : log[i].offset = b + i - 1
      /\ log # <<>> <=> n # 0
    BY FileFacts DEF FileOK
<1>2. r.log = kept /\ r.nextOffset = next /\ r.index = IF bad = {} THEN index ELSE Below(index, next)
    BY DEF Recovered
<1>3. whole \in 0 .. n
    BY <1>1
<1> HIDE DEF n
\* The scan begins at a record that is whole, or at the first.
<1>4. /\ from \in 1 .. n + 1
      /\ from # 1 => from <= n /\ ~log[from].torn
      /\ n = 0 => from = 1
    <2>1. CASE index = <<>>
        <3>1. from = 1
            BY <2>1
        <3> HIDE DEF from
        <3>2. QED
            BY <1>1, <3>1
    <2>2. CASE index # <<>>
        <3> DEFINE e == index[Len(index)]
                   j == e.offset - b + 1
        <3>1. Len(index) \in DOMAIN index /\ Last(index) = e
            BY <2>2, IndexFacts
        <3>2. j \in DOMAIN log /\ ~log[j].torn /\ log[j].position = e.position
            BY <3>1, IndexFacts
        <3>3. RecordAt(log, e.position) = j
            BY <3>2, RecordAtIs
        <3>4. from = j
            BY <2>2, <3>1, <3>3
        <3> HIDE DEF from, j
        <3>5. QED
            BY <1>1, <3>2, <3>4
    <2>3. QED
        BY <2>1, <2>2
<1> HIDE DEF from, r
<1>5. CASE n # 0 /\ log[n].torn
    <2>1. n \in from .. n
        BY <1>1, <1>4, <1>5
    <2>2. bad = {n}
        BY <1>1, <1>4, <1>5, <2>1
    <2>3. bad # {} /\ Min(bad) = n
        BY ZenonT(30), <1>1, <2>2, MinIsLeast
    <2>4. kept = SubSeq(log, 1, n - 1)
        BY <2>3
    <2>5. whole = n - 1 /\ n - 1 \in 0 .. n
        BY <1>1, <1>5
    <2> HIDE DEF bad, kept
    <2>6. /\ Len(kept) = n - 1 /\ DOMAIN kept = 1 .. n - 1
          /\ \A i \in 1 .. n - 1 : kept[i] = log[i]
          /\ kept \in Seq(LogRecord)
        <3>1. n - 1 \in 0 .. Len(log)
            BY <2>5 DEF n
        <3>2. /\ FileOK(b, SubSeq(log, 1, n - 1)) /\ Len(SubSeq(log, 1, n - 1)) = n - 1
              /\ DOMAIN SubSeq(log, 1, n - 1) = 1 .. n - 1
              /\ \A i \in 1 .. n - 1 : SubSeq(log, 1, n - 1)[i] = log[i]
            BY <3>1, CutFile
        <3>3. QED
            BY <2>4, <3>2 DEF FileOK
    <2>7. n \in Nat /\ n # 0 /\ from \in Nat /\ from >= 1
          /\ \A i \in 1 .. n : log[i].offset = b + i - 1
        <3>1. n \in Nat /\ n # 0 /\ from \in Nat /\ from >= 1
            BY <1>1, <1>4, <1>5
        <3>2. \A i \in 1 .. n : log[i].offset = b + i - 1
            BY <1>1
        <3>3. QED
            BY <3>1, <3>2
    <2>8. next = b + n - 1
        <3>1. CASE Len(kept) >= from
            <4>1. Len(kept) # 0 /\ Len(kept) \in 1 .. n - 1
                BY <2>7, <2>6, <3>1
            <4>2. Last(kept) = kept[Len(kept)]
                BY <2>6, <4>1, SequenceFacts
            <4>3. Last(kept) = log[n - 1] /\ n - 1 \in 1 .. n
                BY <2>7, <2>6, <4>1, <4>2
            <4>4. log[n - 1].offset = b + (n - 1) - 1
                BY <2>7, <4>3
            <4>5. next = log[n - 1].offset + 1
                BY <3>1, <4>3
            <4>6. QED
                BY <2>7, <4>4, <4>5
        <3>2. CASE ~(Len(kept) >= from)
            <4>1. n = 1
                BY <1>1, <1>4, <1>5, <2>6, <3>2
            <4>2. QED
                BY <3>2, <4>1
        <3>3. QED
            BY <3>1, <3>2
    <2> HIDE DEF next
    <2>9. next \in Nat /\ next >= b /\ CountBelow(b, log, next) = n - 1
        BY <2>7, <2>8 DEF CountBelow, n
    <2>10. IndexOK(SubSeq(log, 1, n - 1), Below(index, next))
        BY <2>9, CutIndex
    <2> HIDE DEF whole
    <2>11. QED
        BY <1>2, <1>3, <2>3, <2>4, <2>5, <2>8, <2>10 DEF r, whole, n
<1>6. CASE n = 0 \/ ~log[n].torn
    <2>1. bad = {}
        BY <1>1, <1>4, <1>6
    <2>2. kept = log
        BY <2>1
    <2>3. whole = n
        BY <1>1, <1>6
    <2>4. next = b + n
        <3>1. CASE n = 0
            BY <1>4, <2>2, <3>1 DEF n
        <3>2. CASE n # 0
            <4>1. n >= from
                BY <1>1, <1>4, <3>2
            <4>2. Last(log) = log[n] /\ n \in DOMAIN log
                BY <1>1, <3>2, SequenceFacts
            <4>3. next = Last(log).offset + 1
                BY <2>2, <4>1 DEF n
            <4>4. log[n].offset = b + n - 1 /\ n \in Nat
                BY <1>1, <4>2
            <4>5. next = log[n].offset + 1
                BY <4>2, <4>3
            <4> HIDE DEF next
            <4>6. QED
                BY <4>4, <4>5
        <3>3. QED
            BY <3>1, <3>2
    <2>5. SubSeq(log, 1, n) = log
        BY <1>1, SubSeqFull
    <2> HIDE DEF next, kept, bad, whole
    <2>6. QED
        BY <1>2, <1>3, <2>1, <2>2, <2>3, <2>4, <2>5 DEF r, whole, n
<1>7. QED
    BY <1>5, <1>6

-----------------------------------------------------------------------------
(* What the operations do to files, indexes and segments.                   *)

LEMMA SomeFile ==
    ASSUME NEW L, NEW open, FilesAre(L, open), NEW b \in DOMAIN L
    PROVE  /\ b \in Nat /\ FileOK(b, L[b]) /\ L[b] \in Seq(LogRecord)
           /\ Len(L[b]) \in Nat /\ DOMAIN L[b] = 1 .. Len(L[b])
           /\ L[b] # <<>> <=> Len(L[b]) # 0
<1>1. b \in Nat /\ FileOK(b, L[b])
    BY DEF FilesAre
<1>2. QED
    BY <1>1, FileFacts DEF FileOK

\* The segments of an open log: its files in order, of which the last is active.
LEMMA OpenFacts ==
    ASSUME NEW L, NEW X, NEW S, State(L, X, S), S # <<>>
    PROVE  /\ Len(S) \in Nat \ {0} /\ DOMAIN S = 1 .. Len(S) /\ Last(S) = S[Len(S)]
           /\ Last(S) \in Segment
           /\ \A i \in 1 .. Len(S) :
                /\ S[i] \in Segment /\ S[i].base \in DOMAIN L
                /\ S[1].base <= S[i].base /\ S[i].base <= Last(S).base
                /\ S[i].nextOffset = S[i].base + Len(L[S[i].base])
           /\ \A b \in DOMAIN L : \E i \in 1 .. Len(S) : b = S[i].base
           /\ \A b \in DOMAIN L : S[1].base <= b /\ b <= Last(S).base
           /\ Last(S).base \in DOMAIN L /\ Last(S).base \in Nat
           /\ Last(S).nextOffset = Last(S).base + Len(L[Last(S).base])
           /\ \A b \in DOMAIN L : b \in DOMAIN X /\ Entries(X, b) = X[b]
           /\ \A b \in DOMAIN L : \A i \in DOMAIN L[b] : ~L[b][i].torn
<1> DEFINE n == Len(S)
<1>1. S \in Seq(Segment)
    BY DEF State, SegmentsAre
<1>2. n \in Nat /\ DOMAIN S = 1 .. n /\ n # 0 /\ Last(S) = S[n]
      /\ \A i \in 1 .. n : S[i] \in Segment
    BY <1>1, SequenceFacts
<1>3. /\ {S[i].base : i \in DOMAIN S} = DOMAIN L /\ DOMAIN L \subseteq DOMAIN X
      /\ \A i, j \in DOMAIN S : i < j => S[i].base < S[j].base
      /\ \A i \in DOMAIN S : S[i].nextOffset = S[i].base + Len(L[S[i].base])
    BY DEF State, SegmentsAre
<1> HIDE DEF n
<1>4. 1 \in 1 .. n /\ n \in 1 .. n
    BY <1>2
<1>5. ASSUME NEW i \in 1 .. n
      PROVE  S[i].base \in Nat /\ S[1].base <= S[i].base /\ S[i].base <= S[n].base
    <2>1. S[i].base \in Nat /\ S[1].base \in Nat /\ S[n].base \in Nat
        BY <1>2, <1>4 DEF Segment
    <2>2. CASE i = 1 /\ i = n
        BY <2>1, <2>2
    <2>3. CASE i = 1 /\ i # n
        <3>1. i < n
            BY <1>2, <2>3
        <3>2. S[i].base < S[n].base
            BY <1>2, <1>3, <1>4, <3>1
        <3>3. QED
            BY <2>1, <2>3, <3>2
    <2>4. CASE i # 1
        <3>1. 1 < i
            BY <1>2, <2>4
        <3>2. S[1].base < S[i].base
            BY <1>2, <1>3, <1>4, <3>1
        <3>3. CASE i = n
            BY <2>1, <3>2, <3>3
        <3>4. CASE i # n
            <4>1. i < n
                BY <1>2, <3>4
            <4>2. S[i].base < S[n].base
                BY <1>2, <1>3, <1>4, <4>1
            <4>3. QED
                BY <2>1, <3>2, <4>2
        <3>5. QED
            BY <3>3, <3>4
    <2>5. QED
        BY <2>2, <2>3, <2>4
<1>6. \A b \in DOMAIN L : \E i \in 1 .. n : b = S[i].base
    BY <1>2, <1>3
<1>7. \A b \in DOMAIN L : S[1].base <= b /\ b <= S[n].base
    BY <1>5, <1>6
<1>8. \A i \in 1 .. n : S[i].base \in DOMAIN L
    BY <1>2, <1>3
<1>9. \A b \in DOMAIN L : \A i \in DOMAIN L[b] : ~L[b][i].torn
    BY DEF State, FilesAre
<1>10. \A b \in DOMAIN L : b \in DOMAIN X /\ Entries(X, b) = X[b]
    BY <1>3 DEF Entries
<1>11. QED
    BY <1>2, <1>3, <1>4, <1>5, <1>6, <1>7, <1>8, <1>9, <1>10 DEF n

\* A file of no record behind a full one.
LEMMA Rolled ==
    ASSUME NEW L, NEW X, NEW S, State(L, X, S), S # <<>>, L[Last(S).base] # <<>>
    PROVE  LET b == Last(S).nextOffset
           IN  State(Adding(L, b, <<>>), Adding(X, b, Entries(X, b)),
                     Append(S, [base |-> b, nextOffset |-> b, since |-> 0]))
<1> DEFINE n == Len(S)
           a == Last(S).base
           b == Last(S).nextOffset
           new == [base |-> b, nextOffset |-> b, since |-> 0]
           L2 == Adding(L, b, <<>>)
           X2 == Adding(X, b, Entries(X, b))
           S2 == Append(S, new)
<1>1. /\ n \in Nat \ {0} /\ DOMAIN S = 1 .. n
      /\ \A i \in 1 .. n : S[i] \in Segment /\ S[i].base \in DOMAIN L
                           /\ S[i].nextOffset = S[i].base + Len(L[S[i].base])
      /\ \A c \in DOMAIN L : \E i \in 1 .. n : c = S[i].base
      /\ \A c \in DOMAIN L : c <= a
      /\ a \in DOMAIN L /\ a \in Nat /\ b = a + Len(L[a])
      /\ \A c \in DOMAIN L : c \in DOMAIN X /\ Entries(X, c) = X[c]
      /\ \A c \in DOMAIN L : \A i \in DOMAIN L[c] : ~L[c][i].torn
    BY OpenFacts
<1>2. FilesAre(L, TRUE) /\ IndexesAre(L, X) /\ S \in Seq(Segment)
    BY DEF State, SegmentsAre
<1>3. Len(L[a]) \in Nat \ {0}
    BY <1>1, <1>2, SomeFile
<1> HIDE DEF a, b, n, new
<1>4. b \in Nat /\ \A c \in DOMAIN L : c < b /\ c \in Nat
    <2>1. \A c \in DOMAIN L : c \in Nat
        BY <1>2 DEF FilesAre
    <2>2. b \in Nat /\ a < b
        <3>1. a \in Nat /\ b = a + Len(L[a])
            BY <1>1
        <3>2. QED
            BY <1>3, <3>1
    <2>3. \A c \in DOMAIN L : c <= a
        BY <1>1
    <2>4. QED
        BY <1>1, <2>1, <2>2, <2>3
<1>5. b \notin DOMAIN L /\ b \notin DOMAIN X
    <2>1. b \notin DOMAIN L
        BY <1>4
    <2>2. b \in DOMAIN X => b < a
        BY <1>1, <1>2, <2>1 DEF IndexesAre
    <2>3. a < b
        BY <1>1, <1>4
    <2>4. QED
        BY <1>1, <1>4, <2>1, <2>2, <2>3
<1>6. /\ DOMAIN L2 = DOMAIN L \cup {b} /\ L2[b] = <<>> /\ \A c \in DOMAIN L : L2[c] = L[c]
      /\ L2 = [c \in DOMAIN L2 |-> L2[c]]
    BY <1>5 DEF Adding
<1>7. /\ DOMAIN X2 = DOMAIN X \cup {b} /\ X2[b] = <<>> /\ \A c \in DOMAIN X : X2[c] = X[c]
      /\ X2 = [c \in DOMAIN X2 |-> X2[c]]
    BY <1>5 DEF Adding, Entries
<1>8. new \in Segment /\ new.base = b /\ new.nextOffset = b
    BY <1>4 DEF Segment, new
<1>9. /\ S2 \in Seq(Segment) /\ Len(S2) = n + 1 /\ S2[n + 1] = new
      /\ \A i \in 1 .. n : S2[i] = S[i]
    BY <1>2, <1>8, AppendProperties DEF n
<1> HIDE DEF L2, X2, S2
<1>10. DOMAIN S2 = 1 .. n + 1 /\ S2 # <<>>
    <2>1. DOMAIN S2 = 1 .. Len(S2) /\ (S2 # <<>> <=> Len(S2) # 0)
        BY <1>9, SequenceFacts
    <2>2. QED
        BY <1>1, <1>9, <2>1
<1>11. <<>> \in Seq(LogRecord) /\ <<>> \in Seq(Entry) /\ Len(<<>>) = 0 /\ DOMAIN <<>> = {}
    BY EmptySeq
<1>12. FilesAre(L2, TRUE)
    <2>1. L2 \in [DOMAIN L2 -> Seq(LogRecord)]
        <3>1. \A c \in DOMAIN L : L[c] \in Seq(LogRecord)
            BY <1>2, SomeFile
        <3>2. \A c \in DOMAIN L2 : L2[c] \in Seq(LogRecord)
            BY <1>6, <1>11, <3>1
        <3>3. QED
            BY <1>6, <3>2
    <2>2. IsFiniteSet(DOMAIN L2) /\ DOMAIN L2 \in SUBSET Nat
        <3>1. IsFiniteSet(DOMAIN L) /\ DOMAIN L \in SUBSET Nat
            BY <1>2 DEF FilesAre
        <3>2. IsFiniteSet(DOMAIN L \cup {b})
            BY <3>1, FS_AddElement
        <3>3. QED
            BY <1>4, <1>6, <3>1, <3>2
    <2>3. \A c \in DOMAIN L2 : FileOK(c, L2[c])
        <3>1. FileOK(b, <<>>)
            BY <1>11 DEF FileOK
        <3>2. QED
            BY <1>2, <1>6, <3>1 DEF FilesAre
    <2>4. ASSUME NEW c \in DOMAIN L2, NEW d \in DOMAIN L2, c < d
          PROVE  L2[c] # <<>> /\ c + Len(L2[c]) <= d /\ c + Len(L2[c]) \in DOMAIN L2
        <3>1. c \in DOMAIN L /\ L2[c] = L[c]
            BY <1>4, <1>6, <2>4
        <3>2. CASE d \in DOMAIN L
            BY <1>2, <1>6, <2>4, <3>1, <3>2 DEF FilesAre
        <3>3. CASE d = b /\ c = a
            BY <1>1, <1>3, <1>6, <3>1, <3>3, SomeFile
        <3>4. CASE d = b /\ c # a
            <4>1. c < a
                BY <1>1, <1>4, <3>1, <3>4
            <4>2. L[c] # <<>> /\ c + Len(L[c]) <= a /\ c + Len(L[c]) \in DOMAIN L
                BY <1>1, <1>2, <3>1, <4>1 DEF FilesAre
            <4>3. QED
                BY <1>1, <1>4, <1>6, <3>1, <3>4, <4>2
        <3>5. QED
            BY <1>6, <3>2, <3>3, <3>4
    <2>5. \A c \in DOMAIN L2 : \A i \in DOMAIN L2[c] : ~L2[c][i].torn
        BY <1>1, <1>6, <1>11
    <2>6. QED
        BY <2>1, <2>2, <2>3, <2>4, <2>5 DEF FilesAre
<1>13. IndexesAre(L2, X2)
    <2>1. X2 \in [DOMAIN X2 -> Seq(Entry)]
        <3>1. \A c \in DOMAIN X : X[c] \in Seq(Entry)
            BY <1>2 DEF IndexesAre
        <3>2. \A c \in DOMAIN X2 : X2[c] \in Seq(Entry)
            BY <1>7, <1>11, <3>1
        <3>3. QED
            BY <1>7, <3>2
    <2>2. DOMAIN X2 \in SUBSET Nat /\ DOMAIN L2 # {}
        BY <1>2, <1>4, <1>6, <1>7 DEF IndexesAre
    <2>3. \A c \in DOMAIN X2 : c \in DOMAIN L2 \/ \A d \in DOMAIN L2 : c < d
        <3> SUFFICES ASSUME NEW c \in DOMAIN X2, c \notin DOMAIN L2, NEW d \in DOMAIN L2
                     PROVE  c < d
            OBVIOUS
        <3>1. c \in DOMAIN X /\ c \notin DOMAIN L /\ c \in Nat
            BY <1>2, <1>6, <1>7 DEF IndexesAre
        <3>2. \A e \in DOMAIN L : c < e
            BY <1>2, <3>1 DEF IndexesAre
        <3>3. QED
            BY <1>1, <1>4, <1>6, <3>1, <3>2
    <2>4. \A c \in DOMAIN L2 : IndexOK(L2[c], Entries(X2, c))
        <3>1. IndexOK(<<>>, <<>>)
            BY <1>11 DEF IndexOK
        <3>2. Entries(X2, b) = <<>>
            BY <1>7 DEF Entries
        <3>3. \A c \in DOMAIN L : Entries(X2, c) = Entries(X, c)
            BY <1>1, <1>7 DEF Entries
        <3>4. QED
            BY <1>2, <1>6, <3>1, <3>2, <3>3 DEF IndexesAre
    <2>5. QED
        BY <2>1, <2>2, <2>3, <2>4 DEF IndexesAre
<1>14. SegmentsAre(L2, X2, S2)
    <2>1. {S2[i].base : i \in DOMAIN S2} = DOMAIN L2
        <3>1. \A i \in DOMAIN S2 : S2[i].base \in DOMAIN L2
            <4> TAKE i \in DOMAIN S2
            <4>1. CASE i = n + 1
                BY <1>6, <1>8, <1>9, <4>1
            <4>2. CASE i # n + 1
                <5>1. i \in 1 .. n
                    BY <1>1, <1>10, <4>2
                <5>2. QED
                    BY <1>1, <1>6, <1>9, <5>1
            <4>3. QED
                BY <4>1, <4>2
        <3>2. \A c \in DOMAIN L2 : \E i \in DOMAIN S2 : c = S2[i].base
            <4> TAKE c \in DOMAIN L2
            <4>1. CASE c = b
                <5>1. n + 1 \in DOMAIN S2
                    BY <1>1, <1>10
                <5>2. QED
                    BY <1>8, <1>9, <4>1, <5>1
            <4>2. CASE c # b
                <5>1. PICK i \in 1 .. n : c = S[i].base
                    BY <1>1, <1>6, <4>2
                <5>2. i \in DOMAIN S2 /\ S2[i] = S[i]
                    BY <1>1, <1>9, <1>10
                <5>3. QED
                    BY <5>1, <5>2
            <4>3. QED
                BY <4>1, <4>2
        <3>3. QED
            BY <3>1, <3>2
    <2>2. DOMAIN L2 \subseteq DOMAIN X2
        BY <1>1, <1>6, <1>7
    <2>3. ASSUME NEW i \in DOMAIN S2, NEW j \in DOMAIN S2, i < j PROVE S2[i].base < S2[j].base
        <3>1. i \in 1 .. n
            <4>1. i \in 1 .. n + 1 /\ j \in 1 .. n + 1
                BY <1>10
            <4>2. n \in Nat
                BY <1>1
            <4>3. QED
                BY <2>3, <4>1, <4>2
        <3>2. i \in 1 .. n /\ S2[i] = S[i] /\ S[i].base \in DOMAIN L
            BY <1>1, <1>9, <3>1
        <3>3. CASE j = n + 1
            BY <1>4, <1>8, <1>9, <3>2, <3>3
        <3>4. CASE j # n + 1
            <4>1. j \in 1 .. n + 1 /\ n \in Nat
                BY <1>1, <1>10
            <4>2. j \in 1 .. n /\ S2[j] = S[j]
                BY <1>9, <3>4, <4>1
            <4>3. S[i].base < S[j].base
                <5>1. \A p, q \in DOMAIN S : p < q => S[p].base < S[q].base
                    BY DEF State, SegmentsAre
                <5>2. QED
                    BY <1>1, <2>3, <3>2, <4>2, <5>1
            <4>4. QED
                BY <3>2, <4>2, <4>3
        <3>5. QED
            BY <3>3, <3>4
    <2>4. ASSUME NEW i \in DOMAIN S2
          PROVE  S2[i].nextOffset = S2[i].base + Len(L2[S2[i].base])
        <3>1. CASE i = n + 1
            BY <1>4, <1>6, <1>8, <1>9, <1>11, <3>1
        <3>2. CASE i # n + 1
            <4>1. i \in 1 .. n
                BY <1>1, <1>10, <3>2
            <4>2. /\ S2[i] = S[i] /\ S[i].base \in DOMAIN L
                  /\ S[i].nextOffset = S[i].base + Len(L[S[i].base])
                BY <1>1, <1>9, <4>1
            <4>3. QED
                BY <1>6, <4>2
        <3>3. QED
            BY <3>1, <3>2
    <2>5. QED
        BY <1>9, <2>1, <2>2, <2>3, <2>4 DEF SegmentsAre
<1>15. State(L2, X2, S2)
    BY <1>10, <1>12, <1>13, <1>14 DEF State
<1>16. QED
    BY <1>15 DEF L2, X2, S2, new, b

\* One more record in the active file; whether the log is open afterwards says T.
LEMMA LongerFiles ==
    ASSUME NEW L, NEW X, NEW S, State(L, X, S), S # <<>>, NEW r \in LogRecord,
           r.offset = Last(S).nextOffset, r.position = SizeOf(L[Last(S).base]),
           NEW open, open => ~r.torn
    PROVE  LET a == Last(S).base
               L2 == [L EXCEPT ![a] = Append(@, r)]
           IN  FilesAre(L2, open) /\ IndexesAre(L2, X)
<1> DEFINE a == Last(S).base
           log == L[a]
           more == Append(log, r)
           L2 == [L EXCEPT ![a] = Append(@, r)]
<1>1. /\ a \in DOMAIN L /\ a \in Nat /\ Last(S).nextOffset = a + Len(log)
      /\ \A c \in DOMAIN L : c <= a
      /\ \A c \in DOMAIN L : \A i \in DOMAIN L[c] : ~L[c][i].torn
    BY OpenFacts
<1>2. FilesAre(L, TRUE) /\ IndexesAre(L, X)
    BY DEF State
<1>3. FileOK(a, log) /\ log \in Seq(LogRecord) /\ Len(log) \in Nat /\ DOMAIN log = 1 .. Len(log)
    BY <1>1, <1>2, SomeFile
<1>4. /\ FileOK(a, more) /\ Len(more) = Len(log) + 1 /\ more # <<>>
      /\ \A i \in DOMAIN log : more[i] = log[i]
      /\ more[Len(log) + 1] = r
    BY SMTT(20), <1>1, <1>3, AppendedFile
<1>5. DOMAIN more = 1 .. Len(log) + 1 /\ more \in Seq(LogRecord)
    BY <1>1, <1>4, FileFacts DEF FileOK
<1>6. /\ DOMAIN L2 = DOMAIN L /\ L2[a] = more
      /\ \A c \in DOMAIN L : c # a => L2[c] = L[c]
      /\ L2 = [c \in DOMAIN L2 |-> L2[c]]
    BY <1>1, <1>2 DEF FilesAre
<1> HIDE DEF a, L2, more
<1>7. FilesAre(L2, open)
    <2>1. L2 \in [DOMAIN L2 -> Seq(LogRecord)]
        <3>1. \A c \in DOMAIN L : L[c] \in Seq(LogRecord)
            BY <1>2, SomeFile
        <3>2. \A c \in DOMAIN L2 : L2[c] \in Seq(LogRecord)
            BY <1>5, <1>6, <3>1
        <3>3. QED
            BY <1>6, <3>2
    <2>2. IsFiniteSet(DOMAIN L2) /\ DOMAIN L2 \in SUBSET Nat
        BY <1>2, <1>6 DEF FilesAre
    <2>3. \A c \in DOMAIN L2 : FileOK(c, L2[c])
        BY <1>2, <1>4, <1>6 DEF FilesAre
    <2>4. ASSUME NEW c \in DOMAIN L2, NEW d \in DOMAIN L2, c < d
          PROVE  L2[c] # <<>> /\ c + Len(L2[c]) <= d /\ c + Len(L2[c]) \in DOMAIN L2
        <3>1. c # a
            <4>1. d <= a /\ c \in Nat /\ d \in Nat
                BY <1>1, <1>2, <1>6 DEF FilesAre
            <4>2. QED
                BY <1>1, <2>4, <4>1
        <3>2. L2[c] = L[c] /\ c \in DOMAIN L /\ d \in DOMAIN L
            BY <1>6, <3>1
        <3>3. QED
            BY <1>2, <1>6, <2>4, <3>2 DEF FilesAre
    <2>5. ASSUME NEW c \in DOMAIN L2, NEW i \in DOMAIN L2[c], L2[c][i].torn
          PROVE  ~open /\ i = Len(L2[c]) /\ \A d \in DOMAIN L2 : d <= c
        <3>1. c = a
            BY <1>1, <1>6, <2>5
        <3>2. L2[c] = more /\ i \in 1 .. Len(log) + 1
            BY <1>5, <1>6, <3>1
        <3>3. i = Len(log) + 1
            <4>1. i \notin DOMAIN log
                BY <1>1, <1>4, <2>5, <3>2
            <4>2. QED
                BY <1>3, <3>2, <4>1
        <3>4. QED
            BY <1>1, <1>4, <1>6, <2>5, <3>1, <3>2, <3>3
    <2>6. QED
        BY <2>1, <2>2, <2>3, <2>4, <2>5 DEF FilesAre
<1>8. IndexesAre(L2, X)
    <2>1. IndexOK(log, Entries(X, a))
        BY <1>1, <1>2 DEF IndexesAre
    <2>2. IndexOK(more, Entries(X, a))
        <3>1. DOMAIN log \subseteq DOMAIN more
            BY <1>3, <1>5
        <3>2. QED
            BY <1>4, <2>1, <3>1 DEF IndexOK
    <2>3. \A c \in DOMAIN L2 : IndexOK(L2[c], Entries(X, c))
        BY <1>2, <1>6, <2>2 DEF IndexesAre
    <2>4. QED
        BY <1>2, <1>6, <2>3 DEF IndexesAre
<1>9. QED
    BY <1>7, <1>8 DEF L2, a

LEMMA Written ==
    ASSUME NEW L, NEW X, NEW S, State(L, X, S), S # <<>>, NEW r \in LogRecord,
           r.offset = Last(S).nextOffset, r.position = SizeOf(L[Last(S).base]), ~r.torn,
           NEW since \in Nat, NEW S2,
           S2 = [S EXCEPT ![Len(S)] = [base |-> Last(S).base, since |-> since,
                                       nextOffset |-> Last(S).nextOffset + 1]]
    PROVE  State([L EXCEPT ![Last(S).base] = Append(@, r)], X, S2)
<1> DEFINE n == Len(S)
           a == Last(S).base
           L2 == [L EXCEPT ![a] = Append(@, r)]
<1>1. /\ n \in Nat \ {0} /\ DOMAIN S = 1 .. n /\ Last(S) = S[n]
      /\ \A i \in 1 .. n : /\ S[i] \in Segment /\ S[i].base \in DOMAIN L
                           /\ S[i].nextOffset = S[i].base + Len(L[S[i].base])
      /\ a \in DOMAIN L /\ a \in Nat /\ Last(S).nextOffset = a + Len(L[a])
    BY OpenFacts
<1>2. /\ S \in Seq(Segment) /\ {S[i].base : i \in DOMAIN S} = DOMAIN L
      /\ DOMAIN L \subseteq DOMAIN X
      /\ \A i, j \in DOMAIN S : i < j => S[i].base < S[j].base
    BY DEF State, SegmentsAre
<1>3. FilesAre(L2, TRUE) /\ IndexesAre(L2, X)
    BY LongerFiles
<1>4. FilesAre(L, TRUE)
    BY DEF State
<1>5. Len(Append(L[a], r)) = Len(L[a]) + 1 /\ Len(L[a]) \in Nat
    BY <1>1, <1>4, SomeFile, AppendedFile
<1>6. /\ DOMAIN L2 = DOMAIN L /\ Len(L2[a]) = Len(L[a]) + 1
      /\ \A c \in DOMAIN L : c # a => L2[c] = L[c]
    BY <1>1, <1>5
<1> DEFINE e == [base |-> a, since |-> since, nextOffset |-> Last(S).nextOffset + 1]
<1>7. e \in Segment /\ e.base = a /\ e.nextOffset = S[n].nextOffset + 1
    <2>1. S[n] \in Segment
        BY <1>1
    <2>2. e \in Segment /\ e.base = S[n].base /\ e.nextOffset = S[n].nextOffset + 1
        BY <1>1, <2>1 DEF Segment
    <2>3. QED
        BY <1>1, <2>2
<1>8. S2 = [S EXCEPT ![n] = e]
    OBVIOUS
<1> HIDE DEF e, L2
<1>9. /\ S2 \in Seq(Segment) /\ Len(S2) = n /\ S2[n] = e
      /\ \A i \in 1 .. n : i # n => S2[i] = S[i]
    <2>1. n \in 1 .. Len(S)
        BY <1>1
    <2>2. S \in Seq(Segment)
        BY <1>2
    <2>3. S2 \in Seq(Segment) /\ Len(S2) = Len(S)
          /\ \A i \in 1 .. Len(S) : S2[i] = IF i = n THEN e ELSE S[i]
        BY <1>7, <1>8, <2>1, <2>2, ExceptSeq
    <2>4. QED
        BY <2>1, <2>3
<1> HIDE DEF n, a
<1>10. DOMAIN S2 = 1 .. n /\ S2 # <<>>
    <2>1. DOMAIN S2 = 1 .. Len(S2) /\ (S2 # <<>> <=> Len(S2) # 0)
        BY <1>9, SequenceFacts
    <2>2. QED
        BY <1>1, <1>9, <2>1
<1>11. \A i \in 1 .. n : S2[i].base = S[i].base
    BY <1>1, <1>7, <1>9 DEF a
<1>12. \A i \in 1 .. n : S2[i].nextOffset = S2[i].base + Len(L2[S2[i].base])
    <2> TAKE i \in 1 .. n
    <2>1. CASE i = n
        <3>1. S2[i].nextOffset = S[n].nextOffset + 1 /\ S2[i].base = a
            BY <1>7, <1>9, <2>1
        <3>2. S[n].nextOffset = a + Len(L[a]) /\ a \in Nat
            BY <1>1
        <3>3. Len(L2[a]) = Len(L[a]) + 1 /\ Len(L[a]) \in Nat
            BY <1>5, <1>6
        <3>4. L2[S2[i].base] = L2[a]
            BY <3>1
        <3>5. S2[i].nextOffset = a + (Len(L[a]) + 1)
            BY <3>1, <3>2, <3>3
        <3>6. S2[i].base + Len(L2[S2[i].base]) = a + (Len(L[a]) + 1)
            BY <3>1, <3>3, <3>4
        <3>7. QED
            BY <3>5, <3>6
    <2>2. CASE i # n
        <3>1. S2[i] = S[i] /\ S[i].base # a
            <4>1. i < n /\ i \in DOMAIN S /\ n \in DOMAIN S
                BY <1>1, <2>2
            <4>2. S[i].base < a
                BY <1>1, <1>2, <4>1 DEF a
            <4>3. QED
                BY <1>1, <1>9, <2>2, <4>2
        <3>2. /\ S[i].base \in DOMAIN L
              /\ S[i].nextOffset = S[i].base + Len(L[S[i].base])
            BY <1>1
        <3>3. QED
            BY <1>6, <3>1, <3>2
    <2>3. QED
        BY <2>1, <2>2
<1>13. SegmentsAre(L2, X, S2)
    <2>1. {S2[i].base : i \in DOMAIN S2} = DOMAIN L2
        <3>1. {S2[i].base : i \in DOMAIN S2} = {S[i].base : i \in DOMAIN S}
            BY SMTT(20), <1>1, <1>10, <1>11
        <3>2. QED
            BY <1>2, <1>6, <3>1
    <2>2. \A i, j \in DOMAIN S2 : i < j => S2[i].base < S2[j].base
        BY <1>1, <1>2, <1>10, <1>11
    <2>3. QED
        BY <1>2, <1>6, <1>9, <1>10, <1>12, <2>1, <2>2 DEF SegmentsAre
<1>14. State(L2, X, S2)
    BY <1>3, <1>10, <1>13 DEF State
<1>15. QED
    BY <1>14 DEF L2, a

\* The last segment is replaced by one of the same base.
LEMMA LastReplaced ==
    ASSUME NEW S \in Seq(Segment), S # <<>>, NEW e \in Segment, e.base = Last(S).base
    PROVE  LET S2 == [S EXCEPT ![Len(S)] = e]
           IN  /\ S2 \in Seq(Segment) /\ DOMAIN S2 = DOMAIN S /\ Len(S2) = Len(S) /\ S2 # <<>>
               /\ S2[Len(S)] = e /\ Last(S2) = e
               /\ \A i \in DOMAIN S : S2[i].base = S[i].base /\ (i # Len(S) => S2[i] = S[i])
               /\ {S2[i].base : i \in DOMAIN S2} = {S[i].base : i \in DOMAIN S}
<1> DEFINE n == Len(S)
           S2 == [S EXCEPT ![Len(S)] = e]
<1>1. n \in Nat /\ n # 0 /\ DOMAIN S = 1 .. n /\ Last(S) = S[n] /\ n \in 1 .. Len(S)
    BY SequenceFacts
<1>2. /\ S2 \in Seq(Segment) /\ Len(S2) = n
      /\ \A i \in 1 .. Len(S) : S2[i] = IF i = n THEN e ELSE S[i]
    BY <1>1, ExceptSeq
<1> HIDE DEF S2
<1>3. DOMAIN S2 = 1 .. Len(S2) /\ (S2 # <<>> <=> Len(S2) # 0)
      /\ (S2 # <<>> => Last(S2) = S2[Len(S2)])
    BY <1>2, SequenceFacts
<1>4. DOMAIN S2 = DOMAIN S /\ S2 # <<>> /\ S2[n] = e /\ Last(S2) = e
    BY <1>1, <1>2, <1>3
<1>5. \A i \in DOMAIN S : S2[i].base = S[i].base /\ (i # n => S2[i] = S[i])
    BY <1>1, <1>2
<1>6. {S2[i].base : i \in DOMAIN S2} = {S[i].base : i \in DOMAIN S}
    BY <1>4, <1>5
<1>7. QED
    BY <1>2, <1>4, <1>5, <1>6 DEF S2

\* An entry for the last record.
LEMMA Indexed ==
    ASSUME NEW L, NEW X, NEW S, State(L, X, S), S # <<>>, L[Last(S).base] # <<>>,
           \A i \in DOMAIN X[Last(S).base] :
              X[Last(S).base][i].offset < Last(L[Last(S).base]).offset,
           NEW e, e = [offset |-> Last(L[Last(S).base]).offset,
                       position |-> Last(L[Last(S).base]).position],
           NEW S2, S2 = [S EXCEPT ![Len(S)] = [base |-> Last(S).base,
                                               nextOffset |-> Last(S).nextOffset, since |-> 0]]
    PROVE  State(L, [X EXCEPT ![Last(S).base] = Append(@, e)], S2)
<1> DEFINE n == Len(S)
           a == Last(S).base
           log == L[a]
           index == X[a]
           more == Append(index, e)
           X2 == [X EXCEPT ![a] = Append(@, e)]
           new == [base |-> a, nextOffset |-> Last(S).nextOffset, since |-> 0]
<1>1. /\ n \in Nat \ {0} /\ DOMAIN S = 1 .. n /\ Last(S) = S[n] /\ Last(S) \in Segment
      /\ \A i \in 1 .. n : /\ S[i].base \in DOMAIN L
                           /\ S[i].nextOffset = S[i].base + Len(L[S[i].base])
      /\ a \in DOMAIN L /\ a \in Nat /\ Last(S).nextOffset = a + Len(L[a])
      /\ \A b \in DOMAIN L : b \in DOMAIN X /\ Entries(X, b) = X[b]
      /\ \A b \in DOMAIN L : \A i \in DOMAIN L[b] : ~L[b][i].torn
    BY OpenFacts
<1>2. FilesAre(L, TRUE) /\ IndexesAre(L, X) /\ S \in Seq(Segment)
    BY DEF State, SegmentsAre
<1>3. FileOK(a, log) /\ log \in Seq(LogRecord) /\ Len(log) \in DOMAIN log /\ Last(log) = log[Len(log)]
      /\ ~Last(log).torn
    <2>1. FileOK(a, log) /\ log \in Seq(LogRecord)
        BY <1>1, <1>2, SomeFile
    <2>2. Len(log) \in DOMAIN log /\ Last(log) = log[Len(log)]
        BY <2>1, SequenceFacts
    <2>3. QED
        BY <1>1, <2>1, <2>2
<1>4. e \in Entry /\ e.offset = Last(log).offset /\ e.position = Last(log).position
    <2>1. log[Len(log)] \in LogRecord
        BY <1>3, SequenceFacts
    <2>2. QED
        BY <1>3, <2>1 DEF LogRecord, Entry
<1>5. IndexOK(log, index) /\ index \in Seq(Entry)
    <2>1. IndexOK(L[a], Entries(X, a)) /\ Entries(X, a) = X[a]
        BY <1>1, <1>2 DEF IndexesAre
    <2>2. QED
        BY <2>1 DEF IndexOK
<1>6. Len(index) \in Nat /\ DOMAIN index = 1 .. Len(index)
    BY <1>5, SequenceFacts
<1>7. /\ more \in Seq(Entry) /\ Len(more) = Len(index) + 1
      /\ \A i \in 1 .. Len(index) : more[i] = index[i]
      /\ more[Len(index) + 1] = e
    BY <1>4, <1>5, AppendProperties
<1> HIDE DEF more
<1>8. DOMAIN more = 1 .. Len(index) + 1
    BY <1>7, SequenceFacts
<1>9. \A i \in DOMAIN index : index[i].offset < e.offset
    BY <1>4
<1>10. IndexOK(log, more)
    <2>1. \A i \in DOMAIN more : \E j \in DOMAIN log :
             ~log[j].torn /\ log[j].offset = more[i].offset /\ log[j].position = more[i].position
        <3> TAKE i \in DOMAIN more
        <3>1. CASE i = Len(index) + 1
            BY <1>3, <1>4, <1>7, <3>1
        <3>2. CASE i # Len(index) + 1
            <4>1. i \in 1 .. Len(index)
                BY <1>6, <1>8, <3>2
            <4>2. i \in DOMAIN index /\ more[i] = index[i]
                BY <1>6, <1>7, <4>1
            <4>3. QED
                BY <1>5, <4>2 DEF IndexOK
        <3>3. QED
            BY <3>1, <3>2
    <2>2. ASSUME NEW i \in DOMAIN more, NEW j \in DOMAIN more, i < j
          PROVE  more[i].offset < more[j].offset
        <3>1. i \in DOMAIN index /\ more[i] = index[i]
            BY <1>6, <1>7, <1>8, <2>2
        <3>2. CASE j = Len(index) + 1
            BY <1>7, <1>9, <3>1, <3>2
        <3>3. CASE j # Len(index) + 1
            <4>1. j \in 1 .. Len(index)
                <5> HIDE DEF index
                <5>1. QED
                    BY <1>6, <1>8, <3>3
            <4>2. j \in DOMAIN index /\ more[j] = index[j]
                BY <1>6, <1>7, <4>1
            <4>3. QED
                BY <1>5, <2>2, <3>1, <4>2 DEF IndexOK
        <3>4. QED
            BY <3>2, <3>3
    <2>3. QED
        BY <1>7, <2>1, <2>2 DEF IndexOK
<1>11. /\ DOMAIN X2 = DOMAIN X /\ X2[a] = more
       /\ \A b \in DOMAIN X : b # a => X2[b] = X[b]
       /\ X2 = [b \in DOMAIN X2 |-> X2[b]]
    BY <1>1, <1>2 DEF IndexesAre, more
<1> HIDE DEF X2, new
<1>12. IndexesAre(L, X2)
    <2>1. X2 \in [DOMAIN X2 -> Seq(Entry)]
        <3>1. \A b \in DOMAIN X2 : X2[b] \in Seq(Entry)
            BY <1>2, <1>7, <1>11 DEF IndexesAre
        <3>2. QED
            BY <1>11, <3>1
    <2>2. \A b \in DOMAIN L : IndexOK(L[b], Entries(X2, b))
        <3> TAKE b \in DOMAIN L
        <3>1. b \in DOMAIN X2 /\ Entries(X2, b) = X2[b]
            BY <1>1, <1>11 DEF Entries
        <3>2. CASE b = a
            BY <1>10, <1>11, <3>1, <3>2
        <3>3. CASE b # a
            BY <1>1, <1>2, <1>11, <3>1, <3>3 DEF IndexesAre
        <3>4. QED
            BY <3>2, <3>3
    <2>3. QED
        BY <1>2, <1>11, <2>1, <2>2 DEF IndexesAre
<1>13. new \in Segment /\ new.base = Last(S).base /\ new.nextOffset = Last(S).nextOffset
    BY <1>1 DEF Segment, new
<1>14. S2 = [S EXCEPT ![Len(S)] = new]
    BY DEF new
<1>15. /\ S2 \in Seq(Segment) /\ DOMAIN S2 = DOMAIN S /\ S2 # <<>>
       /\ S2[Len(S)] = new
       /\ \A i \in DOMAIN S : S2[i].base = S[i].base /\ (i # Len(S) => S2[i] = S[i])
       /\ {S2[i].base : i \in DOMAIN S2} = {S[i].base : i \in DOMAIN S}
    BY <1>2, <1>13, <1>14, LastReplaced
<1>16. \A i \in DOMAIN S : S2[i].nextOffset = S[i].nextOffset
    BY <1>1, <1>13, <1>15
<1>17. SegmentsAre(L, X2, S2)
    <2>1. /\ {S[i].base : i \in DOMAIN S} = DOMAIN L /\ DOMAIN L \subseteq DOMAIN X
          /\ \A i, j \in DOMAIN S : i < j => S[i].base < S[j].base
          /\ \A i \in DOMAIN S : S[i].nextOffset = S[i].base + Len(L[S[i].base])
        BY DEF State, SegmentsAre
    <2>2. \A i, j \in DOMAIN S2 : i < j => S2[i].base < S2[j].base
        BY <1>15, <2>1
    <2>3. \A i \in DOMAIN S2 : S2[i].nextOffset = S2[i].base + Len(L[S2[i].base])
        BY <1>15, <1>16, <2>1
    <2>4. QED
        BY <1>11, <1>15, <2>1, <2>2, <2>3 DEF SegmentsAre
<1>18. State(L, X2, S2)
    BY <1>2, <1>12, <1>15, <1>17 DEF State
<1>19. QED
    BY <1>18 DEF X2, a

\* The first of several files is removed, and perhaps its index is left.
LEMMA FirstGone ==
    ASSUME NEW L, NEW X, NEW S, State(L, X, S), Len(S) > 1, S # <<>>
    PROVE  LET b == S[1].base
               L2 == Restrict(L, DOMAIN L \ {b})
           IN  /\ FilesAre(L2, TRUE) /\ FilesAre(L2, FALSE)
               /\ IndexesAre(L2, X) /\ IndexesAre(L2, Restrict(X, DOMAIN X \ {b}))
               /\ DOMAIN L2 = DOMAIN L \ {b} /\ \A c \in DOMAIN L2 : L2[c] = L[c]
<1> DEFINE b == S[1].base
           L2 == Restrict(L, DOMAIN L \ {b})
           X2 == Restrict(X, DOMAIN X \ {b})
<1>1. /\ b \in DOMAIN L /\ S[2].base \in DOMAIN L
      /\ \A c \in DOMAIN L : b <= c
      /\ \A c \in DOMAIN L : \A i \in DOMAIN L[c] : ~L[c][i].torn
      /\ Len(S) \in Nat /\ DOMAIN S = 1 .. Len(S)
    <2>1. 1 \in 1 .. Len(S) /\ 2 \in 1 .. Len(S)
        BY OpenFacts
    <2>2. QED
        BY <2>1, OpenFacts
<1>2. b < S[2].base
    <2>1. \A i, j \in DOMAIN S : i < j => S[i].base < S[j].base
        BY DEF State, SegmentsAre
    <2>2. QED
        BY <1>1, <2>1
<1>3. FilesAre(L, TRUE) /\ IndexesAre(L, X)
    BY DEF State
<1>4. DOMAIN L2 = DOMAIN L \ {b} /\ (\A c \in DOMAIN L2 : L2[c] = L[c])
      /\ L2 = [c \in DOMAIN L2 |-> L2[c]]
    BY DEF Restrict
<1>5. DOMAIN X2 = DOMAIN X \ {b} /\ (\A c \in DOMAIN X2 : X2[c] = X[c])
      /\ X2 = [c \in DOMAIN X2 |-> X2[c]]
    BY DEF Restrict
<1> HIDE DEF L2, X2, b
<1>6. \A c \in DOMAIN L : c \in Nat
    BY <1>3 DEF FilesAre
<1>7. S[2].base \in DOMAIN L2 /\ \A c \in DOMAIN L2 : b < c
    BY <1>1, <1>2, <1>4, <1>6
<1>8. ASSUME NEW open PROVE FilesAre(L2, open)
    <2>1. L2 \in [DOMAIN L2 -> Seq(LogRecord)]
        BY <1>3, <1>4 DEF FilesAre
    <2>2. IsFiniteSet(DOMAIN L2) /\ DOMAIN L2 \in SUBSET Nat
        BY <1>3, <1>4, FS_Subset DEF FilesAre
    <2>3. \A c \in DOMAIN L2 : FileOK(c, L2[c])
        BY <1>3, <1>4 DEF FilesAre
    <2>4. ASSUME NEW c \in DOMAIN L2, NEW d \in DOMAIN L2, c < d
          PROVE  L2[c] # <<>> /\ c + Len(L2[c]) <= d /\ c + Len(L2[c]) \in DOMAIN L2
        <3>1. /\ c \in DOMAIN L /\ d \in DOMAIN L /\ L2[c] = L[c] /\ b < c /\ b \in Nat /\ c \in Nat
            BY <1>1, <1>4, <1>6, <1>7
        <3>2. L[c] # <<>> /\ c + Len(L[c]) <= d /\ c + Len(L[c]) \in DOMAIN L
            BY <1>3, <2>4, <3>1 DEF FilesAre
        <3>3. Len(L[c]) \in Nat
            BY <1>3, <3>1, SomeFile
        <3>4. c + Len(L[c]) # b
            BY <3>1, <3>3
        <3>5. QED
            BY <1>4, <3>1, <3>2, <3>4
    <2>5. \A c \in DOMAIN L2 : \A i \in DOMAIN L2[c] : ~L2[c][i].torn
        BY <1>1, <1>4
    <2>6. QED
        BY <2>1, <2>2, <2>3, <2>4, <2>5 DEF FilesAre
<1>9. IndexesAre(L2, X)
    <2>1. \A c \in DOMAIN X : c \in DOMAIN L2 \/ \A d \in DOMAIN L2 : c < d
        <3> TAKE c \in DOMAIN X
        <3>1. CASE c \in DOMAIN L
            BY <1>4, <1>7, <3>1
        <3>2. CASE c \notin DOMAIN L
            BY <1>3, <1>4, <3>2 DEF IndexesAre
        <3>3. QED
            BY <3>1, <3>2
    <2>2. \A c \in DOMAIN L2 : IndexOK(L2[c], Entries(X, c))
        BY <1>3, <1>4 DEF IndexesAre
    <2>3. QED
        BY <1>3, <1>7, <2>1, <2>2 DEF IndexesAre
<1>10. IndexesAre(L2, X2)
    <2>1. X2 \in [DOMAIN X2 -> Seq(Entry)]
        BY <1>3, <1>5 DEF IndexesAre
    <2>2. \A c \in DOMAIN L2 : Entries(X2, c) = Entries(X, c)
        <3>1. b \notin DOMAIN L2
            BY <1>4
        <3>2. QED
            BY <1>5, <3>1 DEF Entries
    <2>3. QED
        BY <1>5, <1>7, <1>9, <2>1, <2>2 DEF IndexesAre
<1>11. QED
    BY <1>4, <1>8, <1>9, <1>10 DEF L2, X2, b

LEMMA Dropped ==
    ASSUME NEW L, NEW X, NEW S, State(L, X, S), Len(S) > 1, S # <<>>
    PROVE  LET b == S[1].base
           IN  /\ State(Restrict(L, DOMAIN L \ {b}), Restrict(X, DOMAIN X \ {b}), Tail(S))
               /\ Tail(S) # <<>> /\ Len(Tail(S)) = Len(S) - 1
<1> DEFINE b == S[1].base
           n == Len(S)
           L2 == Restrict(L, DOMAIN L \ {b})
           X2 == Restrict(X, DOMAIN X \ {b})
           S2 == Tail(S)
<1>1. /\ FilesAre(L2, TRUE) /\ IndexesAre(L2, X2)
      /\ DOMAIN L2 = DOMAIN L \ {b} /\ \A c \in DOMAIN L2 : L2[c] = L[c]
    BY FirstGone
<1>2. DOMAIN X2 = DOMAIN X \ {b}
    BY DEF Restrict
<1>3. /\ S \in Seq(Segment) /\ {S[i].base : i \in DOMAIN S} = DOMAIN L /\ DOMAIN L \subseteq DOMAIN X
      /\ \A i, j \in DOMAIN S : i < j => S[i].base < S[j].base
      /\ \A i \in DOMAIN S : S[i].nextOffset = S[i].base + Len(L[S[i].base])
    BY DEF State, SegmentsAre
<1>4. n \in Nat /\ DOMAIN S = 1 .. n
    BY <1>3, SequenceFacts
<1>5. S2 \in Seq(Segment) /\ Len(S2) = n - 1 /\ \A i \in 1 .. Len(S2) : S2[i] = S[i + 1]
    BY <1>3, HeadTailProperties
<1> HIDE DEF L2, X2, S2
<1>6. DOMAIN S2 = 1 .. n - 1 /\ S2 # <<>>
    <2>1. DOMAIN S2 = 1 .. Len(S2) /\ (S2 # <<>> <=> Len(S2) # 0)
        BY <1>5, SequenceFacts
    <2>2. QED
        BY <1>4, <1>5, <2>1
<1> HIDE DEF n
<1>7. \A i \in 1 .. n - 1 : S2[i] = S[i + 1] /\ i + 1 \in 1 .. n /\ S[i + 1].base # b
    <2> TAKE i \in 1 .. n - 1
    <2>1. i + 1 \in 1 .. n /\ 1 \in 1 .. n /\ 1 < i + 1 /\ i \in 1 .. Len(S2)
        BY <1>4, <1>5
    <2>2. S[1].base < S[i + 1].base
        BY <1>3, <1>4, <2>1
    <2>3. S[1].base \in Nat /\ S[i + 1].base \in Nat
        <3>1. S[1] \in Segment /\ S[i + 1] \in Segment
            BY <1>3, <1>4, <2>1, SequenceFacts
        <3>2. QED
            BY <3>1 DEF Segment
    <2>4. QED
        BY <1>5, <2>1, <2>2, <2>3
<1>8. SegmentsAre(L2, X2, S2)
    <2>1. {S2[i].base : i \in DOMAIN S2} = DOMAIN L2
        <3>1. \A i \in DOMAIN S2 : S2[i].base \in DOMAIN L2
            BY <1>1, <1>3, <1>4, <1>6, <1>7
        <3>2. \A c \in DOMAIN L2 : \E i \in DOMAIN S2 : c = S2[i].base
            <4> TAKE c \in DOMAIN L2
            <4>1. PICK i \in 1 .. n : c = S[i].base
                BY <1>1, <1>3, <1>4
            <4>2. i # 1
                BY <1>1, <4>1
            <4>3. i - 1 \in 1 .. n - 1 /\ (i - 1) + 1 = i
                BY <1>4, <4>2
            <4>4. S2[i - 1] = S[i]
                BY <1>7, <4>3
            <4>5. QED
                BY <1>6, <4>1, <4>3, <4>4
        <3>3. QED
            BY <3>1, <3>2
    <2>2. DOMAIN L2 \subseteq DOMAIN X2
        BY <1>1, <1>2, <1>3
    <2>3. \A i, j \in DOMAIN S2 : i < j => S2[i].base < S2[j].base
        <3> SUFFICES ASSUME NEW i \in 1 .. n - 1, NEW j \in 1 .. n - 1, i < j
                     PROVE  S2[i].base < S2[j].base
            BY <1>6
        <3>1. S2[i] = S[i + 1] /\ S2[j] = S[j + 1] /\ i + 1 \in DOMAIN S /\ j + 1 \in DOMAIN S
            BY <1>4, <1>7
        <3>2. i + 1 < j + 1
            BY <1>4
        <3>3. QED
            BY <1>3, <3>1, <3>2
    <2>4. \A i \in DOMAIN S2 : S2[i].nextOffset = S2[i].base + Len(L2[S2[i].base])
        <3> TAKE i \in DOMAIN S2
        <3>1. S2[i] = S[i + 1] /\ i + 1 \in DOMAIN S /\ S[i + 1].base # b
            BY <1>4, <1>6, <1>7
        <3>2. S[i + 1].base \in DOMAIN L2
            BY <1>1, <1>3, <3>1
        <3>3. QED
            BY <1>1, <1>3, <3>1, <3>2
    <2>5. QED
        BY <1>5, <2>1, <2>2, <2>3, <2>4 DEF SegmentsAre
<1>9. State(L2, X2, S2)
    BY <1>1, <1>6, <1>8 DEF State
<1>10. QED
    BY <1>5, <1>6, <1>9 DEF L2, X2, S2, b, n

LEMMA BelowType ==
    ASSUME NEW S, NEW list \in Seq(S), NEW offset
    PROVE  Below(list, offset) \in Seq(S)
<1> DEFINE from == {i \in DOMAIN list : list[i].offset >= offset}
<1>1. Len(list) \in Nat /\ DOMAIN list = 1 .. Len(list)
    BY SequenceFacts
<1>2. Below(list, offset) = SubSeq(list, 1, IF from = {} THEN Len(list) ELSE Min(from) - 1)
    BY DEF Below
<1>3. CASE from = {}
    BY <1>1, <1>2, <1>3, SubSeqFull
<1>4. CASE from # {}
    <2>1. from \in SUBSET Nat
        BY <1>1
    <2>2. Min(from) \in from
        BY <1>4, <2>1, MinIsLeast
    <2>3. Min(from) - 1 \in 0 .. Len(list)
        BY <1>1, <2>2
    <2>4. Below(list, offset) = SubSeq(list, 1, Min(from) - 1)
        BY <1>2, <1>4
    <2> HIDE DEF from
    <2>5. QED
        BY <2>3, <2>4, Beginning
<1>5. QED
    BY <1>3, <1>4

\* What a cut leaves of lists by name.
CutTo(f, offset) == [b \in {c \in DOMAIN f : c < offset} |-> Below(f[b], offset)]

LEMMA CutFiles ==
    ASSUME NEW L, NEW X, FilesAre(L, TRUE), IndexesAre(L, X), DOMAIN L \subseteq DOMAIN X,
           NEW offset \in Nat, NEW first \in DOMAIN L, first < offset
    PROVE  /\ FilesAre(CutTo(L, offset), TRUE) /\ IndexesAre(CutTo(L, offset), CutTo(X, offset))
           /\ DOMAIN CutTo(L, offset) = {c \in DOMAIN L : c < offset}
           /\ \A b \in DOMAIN CutTo(L, offset) :
                /\ CountBelow(b, L[b], offset) \in 0 .. Len(L[b])
                /\ CutTo(L, offset)[b] = SubSeq(L[b], 1, CountBelow(b, L[b], offset))
                /\ Len(CutTo(L, offset)[b]) = CountBelow(b, L[b], offset)
<1> DEFINE L2 == CutTo(L, offset)
           X2 == CutTo(X, offset)
<1>1. /\ DOMAIN L2 = {c \in DOMAIN L : c < offset} /\ DOMAIN X2 = {c \in DOMAIN X : c < offset}
      /\ L2 \in [DOMAIN L2 -> Seq(LogRecord)] /\ \A b \in DOMAIN L2 : L2[b] = Below(L[b], offset)
      /\ X2 \in [DOMAIN X2 -> Seq(Entry)] /\ \A b \in DOMAIN X2 : X2[b] = Below(X[b], offset)
    <2>1. \A b \in DOMAIN L : Below(L[b], offset) \in Seq(LogRecord)
        BY SomeFile, BelowType
    <2>2. \A b \in DOMAIN X : Below(X[b], offset) \in Seq(Entry)
        <3>1. \A b \in DOMAIN X : X[b] \in Seq(Entry)
            BY DEF IndexesAre
        <3>2. QED
            BY <3>1, BelowType
    <2>3. QED
        BY <2>1, <2>2 DEF CutTo
<1> HIDE DEF L2, X2
<1>2. ASSUME NEW b \in DOMAIN L2
      PROVE  /\ b \in DOMAIN L /\ b \in Nat /\ b < offset /\ FileOK(b, L[b])
             /\ CountBelow(b, L[b], offset) \in 0 .. Len(L[b])
             /\ L2[b] = SubSeq(L[b], 1, CountBelow(b, L[b], offset))
             /\ Len(L2[b]) = CountBelow(b, L[b], offset)
             /\ FileOK(b, L2[b])
             /\ \A i \in DOMAIN L2[b] : i \in DOMAIN L[b] /\ L2[b][i] = L[b][i]
    <2>1. b \in DOMAIN L /\ b \in Nat /\ b < offset /\ FileOK(b, L[b]) /\ L2[b] = Below(L[b], offset)
        BY <1>1, SomeFile
    <2>2. /\ CountBelow(b, L[b], offset) \in 0 .. Len(L[b])
          /\ L2[b] = SubSeq(L[b], 1, CountBelow(b, L[b], offset))
        BY <2>1, BelowFile
    <2> DEFINE m == CountBelow(b, L[b], offset)
    <2> HIDE DEF m
    <2>3. /\ m \in 0 .. Len(L[b]) /\ L2[b] = SubSeq(L[b], 1, m)
        BY <2>2 DEF m
    <2>4. /\ FileOK(b, L2[b]) /\ Len(L2[b]) = m /\ DOMAIN L2[b] = 1 .. m
          /\ \A i \in 1 .. m : L2[b][i] = L[b][i]
        <3> DEFINE cut == SubSeq(L[b], 1, m)
        <3>1. /\ FileOK(b, cut) /\ Len(cut) = m /\ DOMAIN cut = 1 .. m
              /\ \A i \in 1 .. m : cut[i] = L[b][i]
            BY <2>1, <2>3, CutFile
        <3>2. L2[b] = cut
            BY <2>3
        <3> HIDE DEF cut
        <3>3. QED
            BY <3>1, <3>2
    <2>5. DOMAIN L[b] = 1 .. Len(L[b]) /\ Len(L[b]) \in Nat
        BY <2>1, FileFacts
    <2>6. 1 .. m \subseteq DOMAIN L[b]
        BY <2>3, <2>5
    <2>7. QED
        BY <2>1, <2>2, <2>4, <2>6 DEF m
<1>3. FilesAre(L2, TRUE)
    <2>1. IsFiniteSet(DOMAIN L2) /\ DOMAIN L2 \in SUBSET Nat
        <3>1. IsFiniteSet(DOMAIN L) /\ DOMAIN L \in SUBSET Nat /\ DOMAIN L2 \in SUBSET (DOMAIN L)
            BY <1>1 DEF FilesAre
        <3>2. IsFiniteSet(DOMAIN L2)
            BY <3>1, FS_Subset
        <3>3. QED
            BY <3>1, <3>2
    <2>2. ASSUME NEW b \in DOMAIN L2, NEW c \in DOMAIN L2, b < c
          PROVE  L2[b] # <<>> /\ b + Len(L2[b]) <= c /\ b + Len(L2[b]) \in DOMAIN L2
        <3>1. b \in DOMAIN L /\ c \in DOMAIN L /\ b \in Nat /\ c \in Nat /\ c < offset
              /\ FileOK(b, L2[b])
            BY <1>2
        <3>2. L[b] # <<>> /\ b + Len(L[b]) <= c /\ b + Len(L[b]) \in DOMAIN L
            BY <2>2, <3>1 DEF FilesAre
        <3>3. Len(L[b]) \in Nat /\ (L[b] # <<>> <=> Len(L[b]) # 0)
            BY <3>1, SomeFile
        <3>4. CountBelow(b, L[b], offset) = Len(L[b])
            BY <3>1, <3>2, <3>3 DEF CountBelow
        <3>5. Len(L2[b]) = Len(L[b])
            BY <1>2, <3>4
        <3>6. L2[b] # <<>>
            BY <3>1, <3>2, <3>3, <3>5, FileFacts
        <3>7. b + Len(L[b]) < offset
            BY <3>1, <3>2, <3>3
        <3>8. QED
            BY <1>1, <3>2, <3>5, <3>6, <3>7
    <2>3. \A b \in DOMAIN L2 : \A i \in DOMAIN L2[b] : ~L2[b][i].torn
        BY <1>2 DEF FilesAre
    <2>4. QED
        BY <1>1, <1>2, <2>1, <2>2, <2>3 DEF FilesAre
<1>4. IndexesAre(L2, X2)
    <2>1. DOMAIN X2 \in SUBSET Nat /\ DOMAIN L2 # {}
        BY <1>1 DEF IndexesAre
    <2>2. \A b \in DOMAIN X2 : b \in DOMAIN L2 \/ \A c \in DOMAIN L2 : b < c
        BY <1>1 DEF IndexesAre
    <2>3. \A b \in DOMAIN L2 : IndexOK(L2[b], Entries(X2, b))
        <3> TAKE b \in DOMAIN L2
        <3>1. /\ b \in DOMAIN L /\ b \in Nat /\ b < offset /\ FileOK(b, L[b])
              /\ L2[b] = SubSeq(L[b], 1, CountBelow(b, L[b], offset))
            BY <1>2
        <3>2. IndexOK(L[b], X[b])
            BY <3>1 DEF IndexesAre, Entries
        <3>3. Entries(X2, b) = Below(X[b], offset)
            BY <1>1, <3>1 DEF Entries
        <3>4. IndexOK(SubSeq(L[b], 1, CountBelow(b, L[b], offset)), Below(X[b], offset))
            BY <3>1, <3>2, CutIndex
        <3>5. QED
            BY <3>1, <3>3, <3>4
    <2>4. QED
        BY <1>1, <2>1, <2>2, <2>3 DEF IndexesAre
<1>5. QED
    BY <1>1, <1>2, <1>3, <1>4 DEF L2, X2

\* The segments that stay.
LEMMA KeptAre ==
    ASSUME NEW L, NEW X, NEW S, State(L, X, S), S # <<>>,
           NEW offset \in Nat, S[1].base < offset
    PROVE  LET m == Max({i \in DOMAIN S : S[i].base < offset})
           IN  m \in 1 .. Len(S) /\ \A i \in DOMAIN S : S[i].base < offset <=> i <= m
<1> DEFINE low == {i \in DOMAIN S : S[i].base < offset}
           m == Max(low)
<1>1. Len(S) \in Nat \ {0} /\ DOMAIN S = 1 .. Len(S) /\ 1 \in DOMAIN S
      /\ \A i \in 1 .. Len(S) : S[i] \in Segment
    BY OpenFacts
<1>2. IsFiniteSet(low) /\ low \in SUBSET Nat /\ low # {}
    <2>1. IsFiniteSet(1 .. Len(S))
        BY <1>1, FirstNumbers
    <2>2. low \in SUBSET (1 .. Len(S)) /\ 1 \in low
        BY <1>1
    <2> HIDE DEF low
    <2>3. QED
        <3>1. IsFiniteSet(low)
            BY <2>1, <2>2, FS_Subset
        <3>2. QED
            BY <1>1, <2>2, <3>1
<1>3. m \in low /\ \A i \in low : m >= i
    <2> HIDE DEF low
    <2>1. QED
        BY <1>2, MaxIsGreatest
<1> HIDE DEF m
<1>4. m \in DOMAIN S /\ S[m].base < offset
    BY <1>3
<1>5. ASSUME NEW i \in DOMAIN S PROVE S[i].base < offset <=> i <= m
    <2>1. CASE i > m
        <3>1. i \notin low
            BY <1>1, <1>3, <1>4, <2>1
        <3>2. QED
            BY <1>1, <1>4, <2>1, <3>1
    <2>2. CASE i <= m
        <3>1. \A p, q \in DOMAIN S : p < q => S[p].base < S[q].base
            BY DEF State, SegmentsAre
        <3>2. S[i].base \in Nat /\ S[m].base \in Nat
            BY <1>1, <1>4 DEF Segment
        <3>3. i = m \/ S[i].base < S[m].base
            BY <1>1, <1>4, <2>2, <3>1
        <3>4. QED
            BY <1>1, <1>4, <2>2, <3>2, <3>3
    <2>3. QED
        BY <1>1, <1>4, <2>1, <2>2
<1>6. QED
    BY <1>1, <1>4, <1>5 DEF m

KeptOf(S, offset) ==
    LET m == Max({i \in DOMAIN S : S[i].base < offset})
        last == [base |-> S[m].base, since |-> S[m].since,
                 nextOffset |-> Min({S[m].nextOffset, offset})]
    IN  [SubSeq(S, 1, m) EXCEPT ![m] = last]

LEMMA Cut ==
    ASSUME NEW L, NEW X, NEW S, State(L, X, S), S # <<>>,
           NEW offset \in Nat, S[1].base < offset
    PROVE  /\ State(CutTo(L, offset), CutTo(X, offset), KeptOf(S, offset))
           /\ KeptOf(S, offset) # <<>>
<1> DEFINE L2 == CutTo(L, offset)
           X2 == CutTo(X, offset)
           m == Max({i \in DOMAIN S : S[i].base < offset})
           s == SubSeq(S, 1, m)
           e == [base |-> S[m].base, since |-> S[m].since,
                 nextOffset |-> Min({S[m].nextOffset, offset})]
           S2 == [s EXCEPT ![m] = e]
<1>1. /\ Len(S) \in Nat \ {0} /\ DOMAIN S = 1 .. Len(S)
      /\ \A i \in 1 .. Len(S) :
            /\ S[i] \in Segment /\ S[i].base \in DOMAIN L
            /\ S[i].nextOffset = S[i].base + Len(L[S[i].base])
      /\ \A b \in DOMAIN L : \E i \in 1 .. Len(S) : b = S[i].base
      /\ \A b \in DOMAIN L : b \in DOMAIN X
    <2> HIDE DEF L2, X2, m, s, e, S2
    <2>1. /\ Len(S) \in Nat \ {0} /\ DOMAIN S = 1 .. Len(S)
          /\ \A b \in DOMAIN L : \E i \in 1 .. Len(S) : b = S[i].base
          /\ \A b \in DOMAIN L : b \in DOMAIN X
        BY OpenFacts
    <2>2. \A i \in 1 .. Len(S) :
             /\ S[i] \in Segment /\ S[i].base \in DOMAIN L
             /\ S[i].nextOffset = S[i].base + Len(L[S[i].base])
        BY OpenFacts
    <2>3. QED
        BY <2>1, <2>2
<1>2. m \in 1 .. Len(S) /\ \A i \in 1 .. Len(S) : S[i].base < offset <=> i <= m
    BY <1>1, KeptAre
<1>3. e = [base |-> S[m].base, since |-> S[m].since, nextOffset |-> Min({S[m].nextOffset, offset})]
    OBVIOUS
<1> HIDE DEF m, e
<1>4. FilesAre(L, TRUE) /\ IndexesAre(L, X) /\ S \in Seq(Segment)
    BY DEF State, SegmentsAre
<1>5. S[1].base \in DOMAIN L /\ DOMAIN L \subseteq DOMAIN X
    BY <1>1
<1>6. DOMAIN X2 = {c \in DOMAIN X : c < offset}
    BY DEF CutTo
<1>7. /\ FilesAre(L2, TRUE) /\ IndexesAre(L2, X2)
      /\ DOMAIN L2 = {c \in DOMAIN L : c < offset}
      /\ \A b \in DOMAIN L2 : /\ CountBelow(b, L[b], offset) \in 0 .. Len(L[b])
                              /\ Len(L2[b]) = CountBelow(b, L[b], offset)
    BY <1>4, <1>5, CutFiles
<1> HIDE DEF L2, X2
<1>8. s \in Seq(Segment) /\ Len(s) = m /\ DOMAIN s = 1 .. m /\ \A i \in 1 .. m : s[i] = S[i]
    BY SMTT(20), <1>1, <1>2, <1>4, Beginning
<1>9. /\ S[m].base \in Nat /\ S[m].nextOffset \in Nat /\ S[m].since \in Nat
      /\ S[m].base < offset /\ S[m].nextOffset = S[m].base + Len(L[S[m].base])
    BY SMTT(20), <1>1, <1>2 DEF Segment
<1>10. Min({S[m].nextOffset, offset}) = IF S[m].nextOffset <= offset THEN S[m].nextOffset ELSE offset
    <2>1. {S[m].nextOffset, offset} \in SUBSET Nat /\ {S[m].nextOffset, offset} # {}
        BY <1>9
    <2>2. Min({S[m].nextOffset, offset}) \in {S[m].nextOffset, offset}
          /\ \A y \in {S[m].nextOffset, offset} : Min({S[m].nextOffset, offset}) <= y
        BY <2>1, MinIsLeast
    <2>3. QED
        BY <1>9, <2>2
<1>11. e \in Segment /\ e.base = S[m].base
      /\ e.nextOffset = IF S[m].nextOffset <= offset THEN S[m].nextOffset ELSE offset
    BY <1>3, <1>9, <1>10 DEF Segment
<1> HIDE DEF s
<1>12. s # <<>> /\ Last(s) = S[m]
    <2>1. (s # <<>> <=> Len(s) # 0) /\ (s # <<>> => Last(s) = s[Len(s)])
        BY <1>8, SequenceFacts
    <2>2. QED
        BY <1>2, <1>8, <2>1
<1>13. /\ S2 \in Seq(Segment) /\ DOMAIN S2 = DOMAIN s /\ S2 # <<>> /\ S2[m] = e
       /\ \A i \in DOMAIN s : S2[i].base = s[i].base /\ (i # m => S2[i] = s[i])
    <2>1. S2 = [s EXCEPT ![Len(s)] = e]
        BY <1>8
    <2> HIDE DEF S2
    <2>2. /\ S2 \in Seq(Segment) /\ DOMAIN S2 = DOMAIN s /\ S2 # <<>> /\ S2[Len(s)] = e
          /\ \A i \in DOMAIN s : S2[i].base = s[i].base /\ (i # Len(s) => S2[i] = s[i])
        BY <1>8, <1>11, <1>12, <2>1, LastReplaced
    <2>3. QED
        BY <1>8, <2>2
<1> HIDE DEF S2
<1>14. \A i \in 1 .. m : i \in 1 .. Len(S) /\ S2[i].base = S[i].base /\ (i # m => S2[i] = S[i])
    <2> TAKE i \in 1 .. m
    <2>1. i \in 1 .. Len(S) /\ i \in DOMAIN s /\ s[i] = S[i]
        BY <1>1, <1>2, <1>8
    <2>2. QED
        BY <1>13, <2>1
<1>15. \A i, j \in DOMAIN S : i < j => S[i].base < S[j].base
    BY DEF State, SegmentsAre
<1>16. SegmentsAre(L2, X2, S2)
    <2>1. {S2[i].base : i \in DOMAIN S2} = DOMAIN L2
        <3>1. \A i \in DOMAIN S2 : S2[i].base \in DOMAIN L2
            <4> TAKE i \in DOMAIN S2
            <4>1. i \in 1 .. m /\ i <= m /\ i \in 1 .. Len(S) /\ S2[i].base = S[i].base
                BY SMTT(20), <1>1, <1>2, <1>8, <1>13, <1>14
            <4>2. S[i].base \in DOMAIN L /\ S[i].base < offset
                BY <1>1, <1>2, <4>1
            <4>3. QED
                BY <1>7, <4>1, <4>2
        <3>2. \A c \in DOMAIN L2 : \E i \in DOMAIN S2 : c = S2[i].base
            <4> TAKE c \in DOMAIN L2
            <4>1. c \in DOMAIN L /\ c < offset
                BY <1>7
            <4>2. PICK i \in 1 .. Len(S) : c = S[i].base
                BY <1>1, <4>1
            <4>3. i <= m
                BY <1>2, <4>1, <4>2
            <4>4. i \in 1 .. m
                BY <1>1, <1>2, <4>3
            <4>5. QED
                BY <1>8, <1>13, <1>14, <4>2, <4>4
        <3>3. QED
            BY <3>1, <3>2
    <2>2. DOMAIN L2 \subseteq DOMAIN X2
        BY <1>1, <1>7, <1>6
    <2>3. \A i, j \in DOMAIN S2 : i < j => S2[i].base < S2[j].base
        BY <1>1, <1>8, <1>13, <1>14, <1>15
    <2>4. \A i \in 1 .. m : S2[i].nextOffset = S2[i].base + Len(L2[S2[i].base])
        <3> TAKE i \in 1 .. m
        <3> DEFINE b == S[i].base
        <3>1. /\ i \in 1 .. Len(S) /\ S2[i].base = b /\ b \in DOMAIN L /\ i <= m
              /\ S[i].nextOffset = b + Len(L[b]) /\ S[i] \in Segment
            BY <1>1, <1>2, <1>14
        <3>2. b < offset /\ b \in Nat /\ Len(L[b]) \in Nat
            <4>1. b < offset
                BY <1>2, <3>1
            <4>2. QED
                BY <1>4, <3>1, <4>1, SomeFile
        <3>3. b \in DOMAIN L2 /\ Len(L2[b]) = CountBelow(b, L[b], offset)
            BY <1>7, <3>1, <3>2
        <3>4. CASE i = m
            <4>1. S2[i].nextOffset = IF b + Len(L[b]) <= offset THEN b + Len(L[b]) ELSE offset
                BY <1>11, <1>13, <3>1, <3>4
            <4>2. b + Len(L2[b]) = IF b + Len(L[b]) <= offset THEN b + Len(L[b]) ELSE offset
                BY SMTT(20), <3>2, <3>3 DEF CountBelow
            <4>3. QED
                BY <3>1, <4>1, <4>2
        <3>5. CASE i # m
            <4>1. i < m /\ i \in DOMAIN S /\ m \in DOMAIN S
                BY <1>1, <1>2, <3>1, <3>5
            <4>2. b < S[m].base /\ S[m].base \in DOMAIN L
                BY <1>1, <1>2, <1>15, <4>1
            <4>3. b + Len(L[b]) <= S[m].base
                BY <1>4, <3>1, <4>2 DEF FilesAre
            <4>4. Len(L2[b]) = Len(L[b])
                <5>1. b + Len(L[b]) < offset
                    BY SMTT(20), <1>9, <3>2, <4>3
                <5>2. ~(offset < b + Len(L[b]))
                    BY <3>2, <5>1
                <5>3. QED
                    BY <3>3, <5>2 DEF CountBelow
            <4>5. S2[i] = S[i]
                BY <1>14, <3>5
            <4>6. QED
                BY <3>1, <4>4, <4>5
        <3>6. QED
            BY <3>4, <3>5
    <2>5. QED
        BY <1>8, <1>13, <2>1, <2>2, <2>3, <2>4 DEF SegmentsAre
<1>17. State(L2, X2, S2)
    BY <1>7, <1>13, <1>16 DEF State
<1>18. QED
    BY <1>13, <1>17 DEF S2, s, m, e, L2, X2, KeptOf

\* What is left when a log is cut at its first record.
EmptiedLogs(b) == [c \in {b} |-> <<>>]
EmptiedIndexes(X, b) == [c \in {d \in DOMAIN X : d < b} \cup {b} |-> IF c = b THEN <<>> ELSE X[c]]

LEMMA Emptied ==
    ASSUME NEW L, NEW X, NEW S, State(L, X, S), S # <<>>,
           NEW b, b = S[1].base
    PROVE  State(EmptiedLogs(b), EmptiedIndexes(X, b), <<[base |-> b, nextOffset |-> b, since |-> 0]>>)
<1> DEFINE L2 == EmptiedLogs(b)
           X2 == EmptiedIndexes(X, b)
<1> DEFINE e == [base |-> b, nextOffset |-> b, since |-> 0]
           S2 == <<e>>
<1>1. b \in DOMAIN L /\ b \in Nat /\ e \in Segment
    <2>1. 1 \in 1 .. Len(S)
        BY OpenFacts
    <2>2. b \in DOMAIN L /\ S[1] \in Segment
        BY <2>1, OpenFacts
    <2>3. b \in Nat
        BY <2>2 DEF Segment
    <2>4. QED
        BY <2>2, <2>3 DEF Segment
<1>2. IndexesAre(L, X)
    BY DEF State
<1>3. <<>> \in Seq(LogRecord) /\ <<>> \in Seq(Entry) /\ Len(<<>>) = 0 /\ DOMAIN <<>> = {}
    BY EmptySeq
<1>4. DOMAIN L2 = {b} /\ L2[b] = <<>> /\ L2 = [c \in DOMAIN L2 |-> L2[c]]
    BY DEF EmptiedLogs
<1>5. FilesAre(L2, TRUE)
    <2>1. FileOK(b, <<>>)
        BY <1>3 DEF FileOK
    <2>2. IsFiniteSet({b})
        BY FS_Singleton
    <2>3. L2 \in [DOMAIN L2 -> Seq(LogRecord)]
        BY <1>3 DEF EmptiedLogs
    <2>4. ~(b < b)
        BY <1>1
    <2>5. \A c, d \in DOMAIN L2 : ~(c < d)
        BY <1>4, <2>4
    <2>6. \A c \in DOMAIN L2 : DOMAIN L2[c] = {}
        BY <1>3, <1>4
    <2>7. DOMAIN L2 \in SUBSET Nat /\ IsFiniteSet(DOMAIN L2) /\ \A c \in DOMAIN L2 : FileOK(c, L2[c])
        BY <1>1, <1>4, <2>1, <2>2
    <2>8. QED
        BY <2>3, <2>5, <2>6, <2>7 DEF FilesAre
<1>6. /\ DOMAIN X2 = {d \in DOMAIN X : d < b} \cup {b} /\ X2[b] = <<>>
      /\ \A c \in DOMAIN X2 : c # b => c \in DOMAIN X /\ c < b /\ X2[c] = X[c]
      /\ X2 = [c \in DOMAIN X2 |-> X2[c]]
    BY DEF EmptiedIndexes
<1>7. IndexesAre(L2, X2)
    <2>1. \A c \in DOMAIN X2 : X2[c] \in Seq(Entry) /\ c \in Nat
        BY <1>1, <1>2, <1>3, <1>6 DEF IndexesAre
    <2>2. X2 \in [DOMAIN X2 -> Seq(Entry)] /\ DOMAIN X2 \in SUBSET Nat
        BY <1>6, <2>1
    <2>3. \A c \in DOMAIN X2 : c \in DOMAIN L2 \/ \A d \in DOMAIN L2 : c < d
        BY <1>4, <1>6
    <2>4. IndexOK(<<>>, <<>>)
        BY <1>3 DEF IndexOK
    <2>5. Entries(X2, b) = <<>>
        BY <1>6 DEF Entries
    <2>6. \A c \in DOMAIN L2 : IndexOK(L2[c], Entries(X2, c))
        BY <1>4, <2>4, <2>5
    <2>7. QED
        BY <1>4, <2>2, <2>3, <2>6 DEF IndexesAre
<1>8. S2 \in Seq(Segment) /\ DOMAIN S2 = {1} /\ S2[1] = e /\ S2 # <<>>
    BY <1>1
<1>9. e.base = b /\ e.nextOffset = b
    OBVIOUS
<1> HIDE DEF S2, e, L2, X2
<1>10. SegmentsAre(L2, X2, S2)
    <2>1. {S2[i].base : i \in DOMAIN S2} = DOMAIN L2
        BY <1>4, <1>8, <1>9
    <2>2. \A i, j \in DOMAIN S2 : ~(i < j)
        BY <1>8
    <2>3. \A i \in DOMAIN S2 : S2[i].nextOffset = S2[i].base + Len(L2[S2[i].base])
        BY <1>1, <1>3, <1>4, <1>8, <1>9
    <2>4. DOMAIN L2 \subseteq DOMAIN X2
        BY <1>4, <1>6
    <2>5. QED
        BY <1>8, <2>1, <2>2, <2>3, <2>4 DEF SegmentsAre
<1>11. State(L2, X2, S2)
    BY <1>5, <1>7, <1>8, <1>10 DEF State
<1>12. QED
    BY <1>11 DEF S2, e, L2, X2

\* What opening makes of the files.
Reopened(L, X, b) == Recovered(b, L[b], Entries(X, b))
OpenedLogs(L, X) == [b \in DOMAIN L |-> Reopened(L, X, b).log]
OpenedIndexes(L, X) == [b \in DOMAIN X \cup DOMAIN L |->
                          IF b \in DOMAIN L THEN Reopened(L, X, b).index ELSE X[b]]
Order(L) == Listed(DOMAIN L, Upwards(DOMAIN L))
OpenedSegments(L, X) ==
    [i \in DOMAIN Order(L) |->
       [base |-> Order(L)[i], nextOffset |-> Reopened(L, X, Order(L)[i]).nextOffset, since |-> 0]]

\* Opening keeps of every file what is whole, and only of the last may something go.
LEMMA OpenedFile ==
    ASSUME NEW L, NEW X, FilesAre(L, FALSE), IndexesAre(L, X), NEW b \in DOMAIN L
    PROVE  LET m == Len(OpenedLogs(L, X)[b])
           IN  /\ m \in 0 .. Len(L[b]) /\ OpenedLogs(L, X)[b] = SubSeq(L[b], 1, m)
               /\ FileOK(b, OpenedLogs(L, X)[b])
               /\ \A i \in 1 .. m : OpenedLogs(L, X)[b][i] = L[b][i]
               /\ \A i \in 1 .. Len(L[b]) : ~L[b][i].torn <=> i <= m
               /\ (\E c \in DOMAIN L : b < c) => m = Len(L[b])
               /\ Reopened(L, X, b).nextOffset = b + m
               /\ IndexOK(OpenedLogs(L, X)[b], OpenedIndexes(L, X)[b])
<1> DEFINE log == L[b]
           index == Entries(X, b)
           r == Recovered(b, log, index)
           whole == IF log # <<>> /\ log[Len(log)].torn THEN Len(log) - 1 ELSE Len(log)
<1>1. /\ b \in Nat /\ FileOK(b, log) /\ Len(log) \in Nat /\ DOMAIN log = 1 .. Len(log)
      /\ (log # <<>> <=> Len(log) # 0) /\ IndexOK(log, index)
    BY SomeFile DEF IndexesAre
<1>2. \A i \in DOMAIN log : log[i].torn => i = Len(log) /\ \A c \in DOMAIN L : c <= b
    BY DEF FilesAre
<1>3. /\ whole \in 0 .. Len(log) /\ r.log = SubSeq(log, 1, whole) /\ r.nextOffset = b + whole
      /\ IndexOK(r.log, r.index)
    <2> HIDE DEF log, index
    <2>1. QED
        BY <1>1, <1>2, RecoveredIs
<1>4. /\ OpenedLogs(L, X)[b] = r.log /\ OpenedIndexes(L, X)[b] = r.index
      /\ Reopened(L, X, b) = r
    BY DEF OpenedLogs, OpenedIndexes, Reopened
<1>5. \A i \in 1 .. Len(log) : ~log[i].torn <=> i <= whole
    <2> HIDE DEF log
    <2> TAKE i \in 1 .. Len(log)
    <2>1. CASE log[Len(log)].torn
        BY <1>1, <1>2, <2>1
    <2>2. CASE ~log[Len(log)].torn
        BY <1>1, <1>2, <2>2
    <2>3. QED
        BY <2>1, <2>2
<1>6. (\E c \in DOMAIN L : b < c) => whole = Len(log)
    <2> SUFFICES ASSUME NEW c \in DOMAIN L, b < c PROVE whole = Len(log)
        OBVIOUS
    <2>1. c \in Nat /\ b \in Nat
        BY SomeFile
    <2>2. ~(c <= b)
        BY <2>1
    <2> HIDE DEF log
    <2>3. \A i \in DOMAIN log : ~log[i].torn
        BY <1>2, <2>2
    <2>4. log # <<>> => Len(log) \in DOMAIN log
        BY <1>1
    <2>5. QED
        BY <2>3, <2>4
<1> HIDE DEF log, index, r, whole
<1>7. /\ FileOK(b, SubSeq(log, 1, whole)) /\ Len(SubSeq(log, 1, whole)) = whole
      /\ \A i \in 1 .. whole : SubSeq(log, 1, whole)[i] = log[i]
    BY <1>1, <1>3, CutFile
<1>8. /\ Len(r.log) = whole /\ FileOK(b, r.log) /\ \A i \in 1 .. whole : r.log[i] = log[i]
    BY <1>3, <1>7
<1>9. L[b] = log
    BY DEF log
<1>10. QED
    BY <1>3, <1>4, <1>5, <1>6, <1>8, <1>9

LEMMA Opened ==
    ASSUME NEW L, NEW X, FilesAre(L, FALSE), IndexesAre(L, X), DOMAIN L # {}
    PROVE  /\ State(OpenedLogs(L, X), OpenedIndexes(L, X), OpenedSegments(L, X))
           /\ OpenedSegments(L, X) # <<>>
<1> DEFINE L2 == OpenedLogs(L, X)
           X2 == OpenedIndexes(L, X)
           S2 == OpenedSegments(L, X)
           order == Order(L)
<1>1. /\ L2 = [b \in DOMAIN L |-> L2[b]] /\ DOMAIN L2 = DOMAIN L
      /\ X2 = [b \in DOMAIN X2 |-> X2[b]] /\ DOMAIN X2 = DOMAIN X \cup DOMAIN L
      /\ \A b \in DOMAIN X \ DOMAIN L : X2[b] = X[b]
    BY DEF OpenedLogs, OpenedIndexes
<1>2. DOMAIN S2 = DOMAIN order
      /\ \A i \in DOMAIN order :
            S2[i] = [base |-> order[i], nextOffset |-> Reopened(L, X, order[i]).nextOffset,
                     since |-> 0]
    BY DEF OpenedSegments
<1>3. S2 = [i \in DOMAIN order |-> S2[i]]
    BY DEF OpenedSegments
<1> HIDE DEF L2, X2, S2, order
<1>4. \A b \in DOMAIN L :
        /\ b \in Nat /\ Len(L2[b]) \in 0 .. Len(L[b]) /\ FileOK(b, L2[b])
        /\ \A i \in 1 .. Len(L2[b]) : L2[b][i] = L[b][i]
        /\ \A i \in 1 .. Len(L[b]) : ~L[b][i].torn <=> i <= Len(L2[b])
        /\ (\E c \in DOMAIN L : b < c) => Len(L2[b]) = Len(L[b]) /\ L2[b] = L[b]
        /\ Reopened(L, X, b).nextOffset = b + Len(L2[b])
        /\ IndexOK(L2[b], X2[b])
        /\ L2[b] \in Seq(LogRecord) /\ X2[b] \in Seq(Entry)
        /\ Len(L2[b]) \in Nat /\ DOMAIN L2[b] = 1 .. Len(L2[b])
    <2> TAKE b \in DOMAIN L
    <2>1. /\ Len(L2[b]) \in 0 .. Len(L[b]) /\ L2[b] = SubSeq(L[b], 1, Len(L2[b]))
          /\ FileOK(b, L2[b])
          /\ \A i \in 1 .. Len(L2[b]) : L2[b][i] = L[b][i]
          /\ \A i \in 1 .. Len(L[b]) : ~L[b][i].torn <=> i <= Len(L2[b])
          /\ (\E c \in DOMAIN L : b < c) => Len(L2[b]) = Len(L[b])
          /\ Reopened(L, X, b).nextOffset = b + Len(L2[b])
          /\ IndexOK(L2[b], X2[b])
        BY OpenedFile DEF L2, X2
    <2>2. b \in Nat /\ L[b] \in Seq(LogRecord)
        BY SomeFile
    <2>3. SubSeq(L[b], 1, Len(L[b])) = L[b]
        BY <2>2, SubSeqFull
    <2>4. L2[b] \in Seq(LogRecord) /\ X2[b] \in Seq(Entry)
        BY <2>1 DEF FileOK, IndexOK
    <2>5. Len(L2[b]) \in Nat /\ DOMAIN L2[b] = 1 .. Len(L2[b])
        BY <2>4, SequenceFacts
    <2>6. QED
        BY <2>1, <2>2, <2>3, <2>4, <2>5
<1>5. FilesAre(L2, TRUE)
    <2>1. L2 \in [DOMAIN L2 -> Seq(LogRecord)]
        BY <1>1, <1>4
    <2>2. IsFiniteSet(DOMAIN L2) /\ DOMAIN L2 \in SUBSET Nat
        BY <1>1 DEF FilesAre
    <2>3. ASSUME NEW b \in DOMAIN L2, NEW c \in DOMAIN L2, b < c
          PROVE  L2[b] # <<>> /\ b + Len(L2[b]) <= c /\ b + Len(L2[b]) \in DOMAIN L2
        <3>1. b \in DOMAIN L /\ c \in DOMAIN L
            BY <1>1
        <3>2. L[b] # <<>> /\ b + Len(L[b]) <= c /\ b + Len(L[b]) \in DOMAIN L
            BY <2>3, <3>1 DEF FilesAre
        <3>3. L2[b] = L[b]
            BY <1>4, <2>3, <3>1
        <3>4. QED
            BY <1>1, <3>2, <3>3
    <2>4. ASSUME NEW b \in DOMAIN L2, NEW i \in DOMAIN L2[b] PROVE ~L2[b][i].torn
        <3>1. b \in DOMAIN L /\ i \in 1 .. Len(L2[b])
            BY <1>1, <1>4
        <3>2. i <= Len(L2[b]) /\ i \in 1 .. Len(L[b]) /\ L2[b][i] = L[b][i]
            <4>1. Len(L2[b]) \in 0 .. Len(L[b]) /\ Len(L[b]) \in Nat /\ Len(L2[b]) \in Nat
                BY <1>4, <3>1, SomeFile
            <4>2. L2[b][i] = L[b][i]
                BY <1>4, <3>1
            <4>3. QED
                BY <3>1, <4>1, <4>2
        <3>3. QED
            BY <1>4, <3>1, <3>2
    <2>5. \A b \in DOMAIN L2 : FileOK(b, L2[b])
        BY <1>1, <1>4
    <2>6. QED
        BY <2>1, <2>2, <2>3, <2>4, <2>5 DEF FilesAre
<1>6. IndexesAre(L2, X2)
    <2>1. \A b \in DOMAIN X2 : X2[b] \in Seq(Entry) /\ b \in Nat
        BY <1>1, <1>4 DEF IndexesAre
    <2>2. X2 \in [DOMAIN X2 -> Seq(Entry)] /\ DOMAIN X2 \in SUBSET Nat
        BY <1>1, <2>1
    <2>3. \A b \in DOMAIN X2 : b \in DOMAIN L2 \/ \A c \in DOMAIN L2 : b < c
        BY <1>1 DEF IndexesAre
    <2>4. \A b \in DOMAIN L2 : IndexOK(L2[b], Entries(X2, b))
        BY <1>1, <1>4 DEF Entries
    <2>5. QED
        BY <1>1, <2>2, <2>3, <2>4 DEF IndexesAre
<1>7. /\ order \in Seq(DOMAIN L)
      /\ \A b \in DOMAIN L : \E k \in DOMAIN order : order[k] = b
      /\ \A j, k \in DOMAIN order : j < k <=> order[j] < order[k]
    <2>1. IsFiniteSet(DOMAIN L) /\ DOMAIN L \in SUBSET Nat
        BY DEF FilesAre
    <2>2. StrictOrder(Upwards(DOMAIN L), DOMAIN L)
        BY <2>1, UpwardsIsOrder
    <2>3. /\ order \in Seq(DOMAIN L)
          /\ \A b \in DOMAIN L : \E k \in DOMAIN order : order[k] = b
          /\ \A j, k \in DOMAIN order : j < k <=> <<order[j], order[k]>> \in Upwards(DOMAIN L)
        BY <2>1, <2>2, ListedIsInOrder DEF order, Order
    <2>4. \A k \in DOMAIN order : order[k] \in DOMAIN L
        BY <2>3, SequenceFacts
    <2>5. QED
        BY <2>3, <2>4 DEF Upwards
<1>8. /\ Len(order) \in Nat /\ DOMAIN order = 1 .. Len(order)
      /\ \A i \in DOMAIN order : order[i] \in DOMAIN L
    BY <1>7, SequenceFacts
<1>9. \A i \in DOMAIN order : /\ S2[i] \in Segment /\ S2[i].base = order[i]
                              /\ S2[i].nextOffset = order[i] + Len(L2[order[i]])
    <2> TAKE i \in DOMAIN order
    <2> DEFINE b == order[i]
    <2>1. b \in DOMAIN L
        BY <1>8
    <2>2. /\ b \in Nat /\ Len(L2[b]) \in Nat
          /\ Reopened(L, X, b).nextOffset = b + Len(L2[b])
        BY <1>4, <2>1
    <2>3. S2[i] = [base |-> b, nextOffset |-> Reopened(L, X, b).nextOffset, since |-> 0]
        BY <1>2
    <2> HIDE DEF b
    <2>4. S2[i] \in Segment /\ S2[i].base = b /\ S2[i].nextOffset = b + Len(L2[b])
        BY <2>2, <2>3 DEF Segment
    <2>5. QED
        BY <2>4 DEF b
<1>10. S2 \in Seq(Segment)
    <2>1. S2 \in [1 .. Len(order) -> Segment]
        <3>1. \A i \in DOMAIN order : S2[i] \in Segment
            BY <1>9
        <3>2. DOMAIN order = 1 .. Len(order)
            BY <1>8
        <3>3. QED
            BY <1>3, <3>1, <3>2
    <2>2. QED
        BY <1>8, <2>1, SeqDef
<1>11. SegmentsAre(L2, X2, S2)
    <2>1. \A i \in DOMAIN S2 : S2[i].base \in DOMAIN L2
        BY <1>1, <1>2, <1>8, <1>9
    <2>2. \A b \in DOMAIN L2 : \E i \in DOMAIN S2 : b = S2[i].base
        BY <1>1, <1>2, <1>7, <1>9
    <2>3. {S2[i].base : i \in DOMAIN S2} = DOMAIN L2
        BY <2>1, <2>2
    <2>4. \A i, j \in DOMAIN S2 : i < j => S2[i].base < S2[j].base
        BY <1>2, <1>7, <1>9
    <2>5. \A i \in DOMAIN S2 : S2[i].nextOffset = S2[i].base + Len(L2[S2[i].base])
        BY <1>2, <1>9
    <2>6. DOMAIN L2 \subseteq DOMAIN X2
        BY <1>1
    <2>7. QED
        BY <1>10, <2>3, <2>4, <2>5, <2>6 DEF SegmentsAre
<1>12. S2 # <<>>
    <2>1. PICK b \in DOMAIN L : TRUE
        OBVIOUS
    <2>2. DOMAIN S2 # {}
        BY <1>2, <1>7, <2>1
    <2>3. QED
        BY <1>10, <2>2, SequenceFacts
<1>13. QED
    BY <1>5, <1>6, <1>11, <1>12 DEF State, L2, X2, S2

\* A log that has no file yet gets one.
LEMMA FirstFile ==
    ASSUME NEW L, NEW X, FilesAre(L, FALSE), IndexesAre(L, X), DOMAIN L = {}
    PROVE  LET L2 == Adding(L, 0, <<>>)
           IN  /\ FilesAre(L2, FALSE) /\ IndexesAre(L2, X) /\ DOMAIN L2 = {0} /\ L2[0] = <<>>
<1> DEFINE L2 == Adding(L, 0, <<>>)
<1>1. DOMAIN L2 = {0} /\ L2[0] = <<>> /\ L2 = [b \in DOMAIN L2 |-> L2[b]]
    BY DEF Adding
<1>2. DOMAIN X = {} /\ X \in [DOMAIN X -> Seq(Entry)]
    BY DEF IndexesAre
<1> HIDE DEF L2
<1>3. <<>> \in Seq(LogRecord) /\ <<>> \in Seq(Entry) /\ Len(<<>>) = 0 /\ DOMAIN <<>> = {}
    BY EmptySeq
<1>4. FileOK(0, <<>>) /\ IndexOK(<<>>, <<>>)
    BY <1>3 DEF FileOK, IndexOK
<1>5. FilesAre(L2, FALSE)
    <2>1. IsFiniteSet({0})
        BY FS_Singleton
    <2>2. L2 \in [DOMAIN L2 -> Seq(LogRecord)]
        BY <1>1, <1>3
    <2>3. \A b, c \in DOMAIN L2 : ~(b < c)
        BY <1>1
    <2>4. \A b \in DOMAIN L2 : DOMAIN L2[b] = {}
        BY <1>1, <1>3
    <2>5. DOMAIN L2 \in SUBSET Nat /\ IsFiniteSet(DOMAIN L2) /\ \A b \in DOMAIN L2 : FileOK(b, L2[b])
        BY <1>1, <1>4, <2>1
    <2>6. QED
        BY <2>2, <2>3, <2>4, <2>5 DEF FilesAre
<1>6. IndexesAre(L2, X)
    <2>1. Entries(X, 0) = <<>>
        BY <1>2 DEF Entries
    <2>2. \A b \in DOMAIN L2 : IndexOK(L2[b], Entries(X, b))
        BY <1>1, <1>4, <2>1
    <2>3. QED
        BY <1>2, <2>2 DEF IndexesAre
<1>7. QED
    BY <1>1, <1>5, <1>6 DEF L2

-----------------------------------------------------------------------------
(* Every action preserves the invariant.                                    *)

LEMMA CallWhenReady ==
    ASSUME logPc' = "ready", payload' \in Payload \cup {Torn}, expired' = 0
    PROVE  CallOK'
BY DEF CallOK

LEMMA BeginAppendKeeps ==
    ASSUME LogInv, NEW v \in Payload, BeginAppend(v)
    PROVE  LogInv'
<1>1. State(logs, indexes, segments) /\ segments # <<>> /\ expired = 0
    BY DEF LogInv, CallOK, BeginAppend, IsOpen
<1>2. State(logs', indexes', segments') /\ segments' # <<>>
    <2>1. CASE SizeOf(logs[Active.base]) >= MaxSegmentBytes
        <3> DEFINE b == Last(segments).nextOffset
        <3>1. /\ logs' = Adding(logs, b, <<>>)
              /\ indexes' = Adding(indexes, b, Entries(indexes, b))
              /\ segments' = Append(segments, [base |-> b, nextOffset |-> b, since |-> 0])
            BY <2>1 DEF BeginAppend, Active, IndexOf, Entries
        <3>2. logs[Last(segments).base] # <<>>
            <4>1. /\ Last(segments).base \in DOMAIN logs /\ Last(segments).base \in Nat
                  /\ FileOK(Last(segments).base, logs[Last(segments).base])
                BY <1>1, OpenFacts, SomeFile DEF State
            <4>2. logs[Last(segments).base] = <<>> => SizeOf(logs[Last(segments).base]) = 0
                BY <4>1, FileFacts
            <4>3. MaxSegmentBytes \in Nat /\ MaxSegmentBytes # 0
                BY DEF LogAssumption
            <4>4. QED
                BY <2>1, <4>2, <4>3 DEF Active
        <3>3. State(Adding(logs, b, <<>>), Adding(indexes, b, Entries(indexes, b)),
                    Append(segments, [base |-> b, nextOffset |-> b, since |-> 0]))
            BY <1>1, <3>2, Rolled
        <3>4. segments' # <<>>
            <4>1. segments \in Seq(Segment) /\ [base |-> b, nextOffset |-> b, since |-> 0] \in Segment
                <5>1. b \in Nat
                    BY <1>1, OpenFacts DEF Segment
                <5>2. QED
                    BY <1>1, <5>1 DEF State, SegmentsAre, Segment
            <4>2. Len(segments') = Len(segments) + 1 /\ Len(segments) \in Nat /\ segments' \in Seq(Segment)
                BY <3>1, <4>1, LenProperties
            <4>3. QED
                BY <4>2, SequenceFacts
        <3>5. QED
            BY <3>1, <3>3, <3>4
    <2>2. CASE ~(SizeOf(logs[Active.base]) >= MaxSegmentBytes)
        BY <1>1, <2>2 DEF BeginAppend
    <2>3. QED
        BY <2>1, <2>2
<1>3. CallOK'
    BY <1>1, <1>2 DEF BeginAppend, CallOK, IsOpen
<1>4. QED
    BY <1>2, <1>3 DEF LogInv

LEMMA WriteRecordKeeps ==
    ASSUME LogInv, WriteRecord
    PROVE  LogInv'
<1> DEFINE a == Last(segments).base
           log == logs[a]
           r == Record(payload, FALSE)
           since == Last(segments).since + payload
<1>1. State(logs, indexes, segments) /\ segments # <<>> /\ expired = 0 /\ payload \in Payload
    BY DEF LogInv, CallOK, WriteRecord, IsOpen
<1>2. /\ a \in DOMAIN logs /\ a \in Nat /\ Last(segments) \in Segment
      /\ Last(segments).nextOffset = a + Len(log)
      /\ a \in DOMAIN indexes /\ Entries(indexes, a) = indexes[a]
    BY <1>1, OpenFacts
<1>3. FileOK(a, log) /\ Len(log) \in Nat /\ SizeOf(log) \in Nat /\ log \in Seq(LogRecord)
    BY <1>1, <1>2, SomeFile, FileFacts DEF State
<1>4. /\ r = [offset |-> Last(segments).nextOffset, position |-> SizeOf(log),
              size |-> payload, torn |-> FALSE]
      /\ logs' = [logs EXCEPT ![a] = Append(@, r)]
      /\ segments' = [segments EXCEPT ![Len(segments)] =
                        [base |-> a, nextOffset |-> Last(segments).nextOffset + 1, since |-> since]]
      /\ indexes' = indexes
      /\ logPc' = IF since >= IndexIntervalBytes \/ IndexOf(a) = <<>> THEN "index" ELSE "ready"
      /\ payload' = payload /\ expired' = expired
    BY DEF WriteRecord, Record, Active
<1>5. since \in Nat /\ Last(segments).nextOffset \in Nat
    BY <1>1, <1>2 DEF Segment, LogAssumption
<1>6. /\ r \in LogRecord /\ r.offset = Last(segments).nextOffset /\ r.position = SizeOf(log) /\ ~r.torn
    <2>1. /\ Last(segments).nextOffset \in Nat /\ SizeOf(log) \in Nat /\ payload \in Payload
          /\ FALSE \in BOOLEAN
        BY <1>1, <1>3, <1>5
    <2> HIDE DEF log, r
    <2>2. QED
        BY <1>4, <2>1 DEF LogRecord
<1> HIDE DEF r, since
<1> DEFINE e == [base |-> a, nextOffset |-> Last(segments).nextOffset + 1, since |-> since]
<1>7. e \in Segment /\ e.base = a
    BY <1>2, <1>5 DEF Segment
<1>8. State(logs', indexes', segments')
    <2>1. segments' = [segments EXCEPT ![Len(segments)] =
                         [base |-> Last(segments).base, since |-> since,
                          nextOffset |-> Last(segments).nextOffset + 1]]
        BY <1>4
    <2>2. State([logs EXCEPT ![a] = Append(@, r)], indexes, segments')
        BY <1>1, <1>5, <1>6, <2>1, Written
    <2>3. QED
        BY <1>4, <2>2
<1>9. segments' # <<>> /\ Last(segments').base = a
    <2>1. segments \in Seq(Segment)
        BY <1>1 DEF State, SegmentsAre
    <2>2. segments' = [segments EXCEPT ![Len(segments)] = e]
        BY <1>4
    <2> HIDE DEF e
    <2>3. /\ [segments EXCEPT ![Len(segments)] = e] # <<>>
          /\ Last([segments EXCEPT ![Len(segments)] = e]) = e
        BY <1>1, <1>7, <2>1, LastReplaced
    <2>4. QED
        BY <1>7, <2>2, <2>3
<1>10. logs'[a] # <<>> /\ Last(logs'[a]) = r
    <2>1. Append(log, r) # <<>> /\ Last(Append(log, r)) = r
        BY <1>2, <1>3, <1>6, AppendedFile
    <2>2. logs'[a] = Append(log, r)
        BY <1>2, <1>4
    <2>3. QED
        BY <2>1, <2>2
<1>11. \A i \in DOMAIN indexes[a] : indexes[a][i].offset < r.offset
    <2>1. IndexOK(log, indexes[a])
        BY <1>1, <1>2 DEF State, IndexesAre
    <2>2. \A i \in DOMAIN indexes[a] :
             indexes[a][i].offset \in Nat /\ indexes[a][i].offset - a + 1 \in DOMAIN log
        BY <1>2, <1>3, <2>1, IndexFacts
    <2>3. DOMAIN log = 1 .. Len(log)
        BY <1>3, LenProperties
    <2>4. r.offset = a + Len(log)
        BY <1>2, <1>6
    <2> HIDE DEF log, a
    <2>5. a \in Nat /\ Len(log) \in Nat
        BY <1>2, <1>3
    <2>6. QED
        BY <2>2, <2>3, <2>4, <2>5
<1>12. CallOK'
    <2>1. Active'.base = a /\ IndexOf(Active.base)' = indexes[a]
        BY <1>2, <1>4, <1>9 DEF Active, IndexOf
    <2>2. logPc' \in {"index", "ready"}
        BY <1>4
    <2>3. payload' \in Payload /\ expired' = 0 /\ IsOpen'
        BY <1>1, <1>4, <1>9 DEF IsOpen
    <2>4. /\ logs'[Active'.base] # <<>>
          /\ \A i \in DOMAIN IndexOf(Active.base)' :
                IndexOf(Active.base)'[i].offset < Last(logs'[Active'.base]).offset
        BY <1>10, <1>11, <2>1
    <2>5. QED
        BY <2>2, <2>3, <2>4 DEF CallOK
<1>13. QED
    BY <1>8, <1>12 DEF LogInv

LEMMA WriteIndexEntryKeeps ==
    ASSUME LogInv, WriteIndexEntry
    PROVE  LogInv'
<1> DEFINE a == Last(segments).base
           r == Last(logs[a])
           e == [offset |-> r.offset, position |-> r.position]
<1>1. /\ State(logs, indexes, segments) /\ segments # <<>> /\ expired = 0
      /\ payload \in Payload \cup {Torn} /\ logs[a] # <<>>
      /\ \A i \in DOMAIN IndexOf(a) : IndexOf(a)[i].offset < r.offset
    BY DEF LogInv, CallOK, WriteIndexEntry, IsOpen, Active
<1>2. a \in DOMAIN indexes /\ IndexOf(a) = indexes[a]
    BY <1>1, OpenFacts DEF IndexOf
<1>3. /\ indexes' = [indexes EXCEPT ![a] = Append(@, e)]
      /\ segments' = [segments EXCEPT ![Len(segments)] =
                        [base |-> a, nextOffset |-> Last(segments).nextOffset, since |-> 0]]
      /\ logs' = logs /\ logPc' = "ready" /\ payload' = payload /\ expired' = expired
    BY DEF WriteIndexEntry, Active
<1>4. \A i \in DOMAIN indexes[a] : indexes[a][i].offset < r.offset
    BY <1>1, <1>2
<1>5. e = [offset |-> r.offset, position |-> r.position]
    OBVIOUS
<1> HIDE DEF e
<1>6. State(logs, [indexes EXCEPT ![a] = Append(@, e)], segments')
    BY <1>1, <1>3, <1>4, <1>5, Indexed
<1>7. QED
    BY <1>1, <1>3, <1>6, CallWhenReady DEF LogInv

LEMMA ApplyRetentionKeeps ==
    ASSUME LogInv, NEW n, ApplyRetention(n)
    PROVE  LogInv'
<1>1. State(logs, indexes, segments) /\ segments # <<>> /\ payload \in Payload \cup {Torn}
    BY DEF LogInv, CallOK, ApplyRetention, IsOpen
<1> DEFINE SizeBefore(i) == FoldSeq(LAMBDA s, sum : sum + SizeOf(logs[s.base]), 0,
                                    SubSeq(segments, 1, i - 1))
           due == {i \in 1 .. Len(segments) - 1 :
                     i <= n \/ TotalBytes - SizeBefore(i) > RetentionBytes}
<1>2. /\ expired' = Cardinality(due) /\ logPc' = IF due = {} THEN "ready" ELSE "delete"
      /\ logs' = logs /\ indexes' = indexes /\ segments' = segments /\ payload' = payload
      /\ Len(segments) > 1
    BY DEF ApplyRetention, files
<1>3. due \in SUBSET (1 .. Len(segments) - 1)
    OBVIOUS
<1> HIDE DEF due, SizeBefore
<1>4. Len(segments) \in Nat
    BY <1>1, OpenFacts
<1>5. /\ expired' \in Nat /\ expired' <= Len(segments) - 1 /\ (expired' = 0 <=> due = {})
    <2>1. Len(segments) - 1 \in Nat
        BY <1>2, <1>4
    <2> DEFINE early == 1 .. Len(segments) - 1
    <2>2. IsFiniteSet(early) /\ Cardinality(early) = Len(segments) - 1 /\ due \in SUBSET early
        BY <1>3, <2>1, FirstNumbers
    <2> HIDE DEF early
    <2>3. IsFiniteSet(due) /\ Cardinality(due) <= Cardinality(early)
        BY <2>2, FS_Subset
    <2>4. QED
        BY <1>2, <2>2, <2>3, FS_CardinalityType, FS_EmptySet
<1>6. State(logs', indexes', segments')
    BY <1>1, <1>2
<1>7. CallOK'
    BY <1>1, <1>2, <1>4, <1>5 DEF CallOK, IsOpen
<1>8. QED
    BY <1>6, <1>7 DEF LogInv

LEMMA DeleteOldestKeeps ==
    ASSUME LogInv, DeleteOldest
    PROVE  LogInv'
<1> DEFINE b == segments[1].base
<1>1. /\ State(logs, indexes, segments) /\ segments # <<>> /\ payload \in Payload \cup {Torn}
      /\ expired \in Nat /\ expired # 0 /\ expired < Len(segments)
    BY DEF LogInv, CallOK, DeleteOldest, IsOpen
<1>2. Head(segments) = segments[1]
    <2>1. segments \in Seq(Segment) /\ Len(segments) \in Nat \ {0}
        BY <1>1, OpenFacts DEF State, SegmentsAre
    <2>2. SubSeq(segments, 1, Len(segments)) = segments
        BY <2>1, SubSeqFull
    <2>3. 1 \in 1 .. Len(segments) /\ Len(segments) \in 1 .. Len(segments)
        BY <2>1
    <2>4. QED
        BY <2>1, <2>2, <2>3, HeadTailOfSubSeq
<1>3. /\ logs' = Restrict(logs, DOMAIN logs \ {b})
      /\ indexes' = Restrict(indexes, DOMAIN indexes \ {b})
      /\ segments' = Tail(segments) /\ expired' = expired - 1 /\ payload' = payload
      /\ logPc' = IF expired = 1 THEN "ready" ELSE "delete"
    BY <1>2 DEF DeleteOldest
<1>4. Len(segments) \in Nat /\ Len(segments) > 1
    <2>1. Len(segments) \in Nat
        BY <1>1, OpenFacts
    <2>2. QED
        BY <1>1, <2>1
<1>5. /\ State(Restrict(logs, DOMAIN logs \ {b}), Restrict(indexes, DOMAIN indexes \ {b}), Tail(segments))
      /\ Tail(segments) # <<>> /\ Len(Tail(segments)) = Len(segments) - 1
    BY <1>1, <1>4, Dropped
<1>6. State(logs', indexes', segments')
    BY <1>3, <1>5
<1>7. CallOK'
    BY <1>1, <1>3, <1>4, <1>5 DEF CallOK, IsOpen
<1>8. QED
    BY <1>6, <1>7 DEF LogInv

LEMMA TruncateKeeps ==
    ASSUME LogInv, NEW offset \in Nat, Truncate(offset)
    PROVE  LogInv'
<1>1. /\ State(logs, indexes, segments) /\ segments # <<>> /\ payload \in Payload \cup {Torn}
      /\ expired = 0 /\ logPc = "ready"
    BY DEF LogInv, CallOK, Truncate, IsOpen
<1>2. logs' = CutTo(logs, offset)
    BY Zenon DEF Truncate, CutTo
<1>3. indexes' = CutTo(indexes, offset)
    BY Zenon DEF Truncate, CutTo, KeptIndexes
<1>4. segments' = KeptSegments(offset) /\ payload' = payload /\ expired' = expired /\ logPc' = logPc
    BY DEF Truncate, call
<1>5. segments[1].base < offset
    <2>1. /\ offset \in segments[1].base + 1 .. Active.nextOffset
        BY DEF Truncate
    <2>2. 1 \in 1 .. Len(segments)
        BY <1>1, OpenFacts
    <2>3. segments[1].base \in Nat
        BY <1>1, <2>2, OpenFacts DEF Segment
    <2>4. QED
        BY <2>1, <2>3
<1>6. State(CutTo(logs, offset), CutTo(indexes, offset), KeptOf(segments, offset))
    BY <1>1, <1>5, Cut
<1>7. KeptSegments(offset) = KeptOf(segments, offset)
    BY Zenon DEF KeptSegments, KeptOf
<1>8. QED
    BY <1>1, <1>2, <1>3, <1>4, <1>6, <1>7, CallWhenReady DEF LogInv

LEMMA TruncateAllKeeps ==
    ASSUME LogInv, TruncateAll
    PROVE  LogInv'
<1> DEFINE b == segments[1].base
<1>1. /\ State(logs, indexes, segments) /\ segments # <<>> /\ payload \in Payload \cup {Torn}
      /\ expired = 0 /\ logPc = "ready"
    BY DEF LogInv, CallOK, TruncateAll, IsOpen
<1>2. logs' = EmptiedLogs(b) /\ indexes' = EmptiedIndexes(indexes, b)
    BY Zenon DEF TruncateAll, EmptiedLogs, EmptiedIndexes, KeptIndexes
<1>3. /\ segments' = <<[base |-> b, nextOffset |-> b, since |-> 0]>>
      /\ payload' = payload /\ expired' = expired /\ logPc' = logPc
    BY DEF TruncateAll, call
<1>4. State(EmptiedLogs(b), EmptiedIndexes(indexes, b), <<[base |-> b, nextOffset |-> b, since |-> 0]>>)
    BY <1>1, Emptied
<1>5. QED
    BY <1>1, <1>2, <1>3, <1>4, CallWhenReady DEF LogInv

LEMMA OpenLogKeeps ==
    ASSUME LogInv, OpenLog
    PROVE  LogInv'
<1> DEFINE found == IF DOMAIN logs = {} THEN Adding(logs, 0, <<>>) ELSE logs
<1>1. /\ State(logs, indexes, segments) /\ segments = <<>> /\ payload \in Payload \cup {Torn}
      /\ expired = 0 /\ logPc = "ready"
    BY DEF LogInv, CallOK, OpenLog, IsOpen
<1>2. FilesAre(logs, FALSE) /\ IndexesAre(logs, indexes)
    BY <1>1 DEF State
<1>3. FilesAre(found, FALSE) /\ IndexesAre(found, indexes) /\ DOMAIN found # {}
    BY <1>2, FirstFile
<1>4. /\ State(OpenedLogs(found, indexes), OpenedIndexes(found, indexes), OpenedSegments(found, indexes))
    <2> HIDE DEF found
    <2>1. QED
        BY <1>3, Opened
<1>5. logs' = OpenedLogs(found, indexes)
    BY Zenon DEF OpenLog, OpenedLogs, Reopened, IndexOf, Entries
<1>6. indexes' = OpenedIndexes(found, indexes)
    BY Zenon DEF OpenLog, OpenedIndexes, Reopened, IndexOf, Entries
<1>7. segments' = OpenedSegments(found, indexes)
    BY Zenon DEF OpenLog, OpenedSegments, Reopened, IndexOf, Entries, Order
<1>8. payload' = payload /\ expired' = expired /\ logPc' = logPc
    BY DEF OpenLog, call
<1>9. QED
    BY <1>1, <1>4, <1>5, <1>6, <1>7, <1>8, CallWhenReady DEF LogInv

LEMMA ClosedState ==
    ASSUME NEW L, NEW X, FilesAre(L, FALSE), IndexesAre(L, X)
    PROVE  State(L, X, <<>>)
BY EmptySeq DEF State, SegmentsAre

LEMMA CloseLogKeeps ==
    ASSUME LogInv, CloseLog
    PROVE  LogInv'
<1>1. /\ State(logs, indexes, segments) /\ segments # <<>> /\ payload \in Payload \cup {Torn}
      /\ expired = 0 /\ logPc = "ready"
    BY DEF LogInv, CallOK, CloseLog, IsOpen
<1>2. FilesAre(logs, FALSE) /\ IndexesAre(logs, indexes)
    BY <1>1 DEF State, FilesAre
<1>3. /\ logs' = logs /\ indexes' = indexes /\ segments' = <<>>
      /\ payload' = payload /\ expired' = expired /\ logPc' = logPc
    BY DEF CloseLog, call, files
<1>4. QED
    BY <1>1, <1>2, <1>3, ClosedState, CallWhenReady DEF LogInv

LEMMA DieKeeps ==
    ASSUME LogInv, Die
    PROVE  LogInv'
<1>1. /\ State(logs, indexes, segments) /\ segments # <<>> /\ payload \in Payload \cup {Torn}
      /\ (logPc = "write" => payload \in Payload)
      /\ expired \in Nat /\ (logPc = "delete" => expired # 0) /\ (expired # 0 => expired < Len(segments))
    BY DEF LogInv, CallOK, Die, IsOpen
<1>2. segments' = <<>> /\ logPc' = "ready" /\ expired' = 0 /\ indexes' = indexes /\ payload' = payload
    BY DEF Die
<1>3. FilesAre(logs', FALSE) /\ IndexesAre(logs', indexes)
    <2>1. CASE logs' = logs
        <3>1. FilesAre(logs, FALSE) /\ IndexesAre(logs, indexes)
            BY <1>1 DEF State, FilesAre
        <3>2. QED
            BY <2>1, <3>1
    <2>2. CASE logPc = "write" /\ logs' = [logs EXCEPT ![Active.base] = Append(@, Record(payload, TRUE))]
        <3> DEFINE a == Last(segments).base
                   r == Record(payload, TRUE)
        <3>1. r = [offset |-> Last(segments).nextOffset, position |-> SizeOf(logs[a]),
                   size |-> payload, torn |-> TRUE]
            BY DEF Record, Active
        <3>2. a \in DOMAIN logs /\ Last(segments).nextOffset \in Nat
            BY <1>1, OpenFacts DEF Segment
        <3>3. SizeOf(logs[a]) \in Nat
            BY <1>1, <3>2, SomeFile, FileFacts DEF State
        <3> HIDE DEF r, a
        <3>4. r \in LogRecord /\ r.offset = Last(segments).nextOffset /\ r.position = SizeOf(logs[a])
            BY <1>1, <2>2, <3>1, <3>2, <3>3 DEF LogRecord
        <3>5. FilesAre([logs EXCEPT ![a] = Append(@, r)], FALSE)
              /\ IndexesAre([logs EXCEPT ![a] = Append(@, r)], indexes)
            BY <1>1, <3>4, LongerFiles DEF a
        <3>6. logs' = [logs EXCEPT ![a] = Append(@, r)]
            BY <2>2 DEF a, r, Active
        <3>7. QED
            BY <3>5, <3>6
    <2>3. CASE logPc = "delete" /\ logs' = Restrict(logs, DOMAIN logs \ {segments[1].base})
        <3>1. Len(segments) > 1
            <4>1. Len(segments) \in Nat
                BY <1>1, OpenFacts
            <4>2. QED
                BY <1>1, <2>3, <4>1
        <3>2. QED
            BY <1>1, <2>3, <3>1, FirstGone
    <2>4. QED
        BY <2>1, <2>2, <2>3 DEF Die
<1>4. QED
    BY <1>1, <1>2, <1>3, ClosedState, CallWhenReady DEF LogInv

LEMMA LogInvInit == LogInit => LogInv
<1> SUFFICES ASSUME LogInit PROVE LogInv
    OBVIOUS
<1>1. logs = <<>> /\ indexes = <<>> /\ segments = <<>>
    BY DEF LogInit
<1>2. DOMAIN <<>> = {} /\ <<>> = [x \in {} |-> x]
    OBVIOUS
<1>3. FilesAre(<<>>, FALSE)
    <2>1. <<>> \in [{} -> Seq(LogRecord)] /\ IsFiniteSet({})
        BY FS_EmptySet
    <2>2. QED
        BY <1>2, <2>1 DEF FilesAre
<1>4. IndexesAre(<<>>, <<>>)
    BY <1>2 DEF IndexesAre
<1>5. QED
    BY <1>1, <1>3, <1>4, ClosedState DEF LogInit, LogInv, CallOK, IsOpen

LEMMA LogInvStep == LogInv /\ [LogNext]_logVars => LogInv'
<1> SUFFICES ASSUME LogInv, [LogNext]_logVars PROVE LogInv'
    OBVIOUS
<1>1. CASE \E v \in Payload : BeginAppend(v)
    BY <1>1, BeginAppendKeeps
<1>2. CASE WriteRecord
    BY <1>2, WriteRecordKeeps
<1>3. CASE WriteIndexEntry
    BY <1>3, WriteIndexEntryKeeps
<1>4. CASE DeleteOldest
    BY <1>4, DeleteOldestKeeps
<1>5. CASE \E n \in 0 .. Len(segments) : ApplyRetention(n)
    BY <1>5, ApplyRetentionKeeps
<1>6. CASE \E offset \in 1 .. MaxOffset : Truncate(offset)
    <2>1. PICK offset \in 1 .. MaxOffset : Truncate(offset)
        BY <1>6
    <2>2. offset \in Nat
        OBVIOUS
    <2>3. QED
        BY <2>1, <2>2, TruncateKeeps
<1>7. CASE TruncateAll
    BY <1>7, TruncateAllKeeps
<1>8. CASE OpenLog
    BY <1>8, OpenLogKeeps
<1>9. CASE CloseLog
    BY <1>9, CloseLogKeeps
<1>10. CASE Die
    BY <1>10, DieKeeps
<1>11. CASE UNCHANGED logVars
    BY <1>11 DEF logVars, files, call, LogInv, CallOK, IsOpen, IndexOf, Active
<1>12. QED
    BY <1>1, <1>2, <1>3, <1>4, <1>5, <1>6, <1>7, <1>8, <1>9, <1>10, <1>11 DEF LogNext

LEMMA LogInvAlways == LogSpec => []LogInv
BY LogInvInit, LogInvStep, PTL DEF LogSpec

LEMMA LogInvTypes == LogInv => LogTypeOK
<1> SUFFICES ASSUME LogInv PROVE LogTypeOK
    OBVIOUS
<1>1. State(logs, indexes, segments) /\ CallOK
    BY DEF LogInv
<1>2. IsOpen => {segments[i].base : i \in DOMAIN segments} = DOMAIN logs
    BY <1>1 DEF State, SegmentsAre, IsOpen
<1>3. \A i \in 1 .. Len(segments) - 1 : segments[i].nextOffset = segments[i + 1].base
    <2> TAKE i \in 1 .. Len(segments) - 1
    <2>1. segments \in Seq(Segment)
        BY <1>1 DEF State, SegmentsAre
    <2>2. Len(segments) \in Nat /\ (segments # <<>> <=> Len(segments) # 0)
        BY <2>1, SequenceFacts
    <2>3. segments # <<>> /\ i \in 1 .. Len(segments) /\ i + 1 \in 1 .. Len(segments) /\ i \in Nat
        BY <2>2
    <2> DEFINE b == segments[i].base
               c == segments[i + 1].base
    <2>4. /\ b \in DOMAIN logs /\ c \in DOMAIN logs /\ segments[i].nextOffset = b + Len(logs[b])
          /\ \A d \in DOMAIN logs : \E j \in 1 .. Len(segments) : d = segments[j].base
        BY <1>1, <2>3, OpenFacts
    <2>5. \A j, k \in 1 .. Len(segments) : j < k => segments[j].base < segments[k].base
        BY <1>1, <2>1, <2>3, LenProperties DEF State, SegmentsAre
    <2>6. b < c
        BY <2>3, <2>5
    <2>7. b + Len(logs[b]) <= c /\ b + Len(logs[b]) \in DOMAIN logs /\ logs[b] # <<>>
        BY <1>1, <2>4, <2>6 DEF State, FilesAre
    <2>8. PICK j \in 1 .. Len(segments) : b + Len(logs[b]) = segments[j].base
        BY <2>4, <2>7
    <2>9. b \in Nat /\ c \in Nat /\ Len(logs[b]) \in Nat /\ Len(logs[b]) # 0
        BY <1>1, <2>4, <2>7, SomeFile DEF State
    <2> HIDE DEF b, c
    <2>10. b < segments[j].base /\ segments[j].base <= c
        BY <2>7, <2>8, <2>9
    <2>11. ~(j < i) /\ j # i /\ ~(i + 1 < j)
        <3>1. j < i => segments[j].base < b
            BY <2>3, <2>5 DEF b
        <3>2. j = i => segments[j].base = b
            BY DEF b
        <3>3. i + 1 < j => c < segments[j].base
            BY <2>3, <2>5 DEF c
        <3>4. segments[j].base \in Nat
            BY <2>8, <2>9
        <3>5. QED
            BY <2>9, <2>10, <3>1, <3>2, <3>3, <3>4
    <2>12. j = i + 1
        BY <2>3, <2>11
    <2>13. QED
        BY <2>4, <2>8, <2>12 DEF b, c
<1>4. \A b \in DOMAIN logs : \A i \in DOMAIN IndexOf(b) :
         \E j \in DOMAIN logs[b] : /\ logs[b][j].offset = IndexOf(b)[i].offset
                                   /\ logs[b][j].position = IndexOf(b)[i].position
    <2> TAKE b \in DOMAIN logs
    <2>1. IndexOK(logs[b], IndexOf(b))
        BY <1>1 DEF State, IndexesAre, IndexOf, Entries
    <2>2. QED
        BY <2>1 DEF IndexOK
<1>5. QED
    BY <1>1, <1>2, <1>3, <1>4 DEF LogTypeOK, CallOK

\* The segments of an open log are its files, in order and without a gap, and what an
\* index says of a record is so, whatever was appended, truncated or lost in a death.
THEOREM LogTypes == LogSpec => []LogTypeOK
BY LogInvAlways, LogInvTypes, PTL

-----------------------------------------------------------------------------
(* The records of the files, one for every offset.                          *)

\* RowsOf of files L, with names for its parts.
PlacesIn(L, bases) == UNION {{b} \X DOMAIN L[b] : b \in bases}
OffsetAt(L, p) == L[p[1]][p[2]].offset
Earlier(places, p) == {q \in places : q[1] < p[1] \/ (q[1] = p[1] /\ q[2] < p[2])}
Nth(places, k) == CHOOSE p \in places : Cardinality(Earlier(places, p)) = k - 1
LogRows(L, places) ==
    [k \in 1 .. Cardinality(places) |-> L[Nth(places, k)[1]][Nth(places, k)[2]].size]

\* A set that is numbered through has as many members as there are numbers.
LEMMA NumberedThrough ==
    ASSUME NEW S, NEW lo \in Int, NEW hi \in Int, lo <= hi, NEW f \in [S -> lo .. hi - 1],
           \A x, y \in S : f[x] = f[y] => x = y, \A n \in lo .. hi - 1 : \E x \in S : f[x] = n
    PROVE  IsFiniteSet(S) /\ Cardinality(S) = hi - lo
<1> DEFINE T == lo .. hi - 1
<1>1. IsFiniteSet(T) /\ Cardinality(T) = hi - lo
    <2>1. hi - 1 \in Int /\ (lo > hi - 1 <=> lo = hi)
        OBVIOUS
    <2>2. IsFiniteSet(T) /\ Cardinality(T) = IF lo > hi - 1 THEN 0 ELSE hi - 1 - lo + 1
        BY <2>1, FS_Interval
    <2>3. QED
        BY <2>1, <2>2
<1>2. f \in Injection(S, T) /\ f \in Surjection(S, T)
    BY DEF Injection, Surjection, IsInjective
<1> HIDE DEF T
<1>3. QED
    BY <1>1, <1>2, FS_Injection

LEMMA PlaceIs ==
    ASSUME NEW L, NEW open, FilesAre(L, open), NEW p \in PlacesIn(L, DOMAIN L)
    PROVE  /\ p = <<p[1], p[2]>> /\ p[1] \in DOMAIN L /\ p[2] \in DOMAIN L[p[1]]
           /\ p[1] \in Nat /\ p[2] \in 1 .. Len(L[p[1]]) /\ Len(L[p[1]]) \in Nat
           /\ OffsetAt(L, p) = p[1] + p[2] - 1 /\ OffsetAt(L, p) \in Nat
           /\ L[p[1]][p[2]].size \in Payload
<1>1. p = <<p[1], p[2]>> /\ p[1] \in DOMAIN L /\ p[2] \in DOMAIN L[p[1]]
    BY DEF PlacesIn
<1> DEFINE b == p[1]
           i == p[2]
<1> HIDE DEF b, i
<1>2. b \in DOMAIN L /\ i \in DOMAIN L[b]
    BY <1>1 DEF b, i
<1>3. b \in Nat /\ FileOK(b, L[b]) /\ Len(L[b]) \in Nat /\ DOMAIN L[b] = 1 .. Len(L[b])
    BY <1>2, SomeFile
<1>4. L[b][i].offset = b + i - 1 /\ L[b][i] \in LogRecord
    BY <1>2, <1>3, FileFacts
<1>5. L[b][i].size \in Payload /\ b + i - 1 \in Nat /\ i \in 1 .. Len(L[b])
    BY <1>2, <1>3, <1>4 DEF LogRecord
<1>6. QED
    BY <1>1, <1>2, <1>3, <1>4, <1>5 DEF OffsetAt, b, i

\* The order of places is that of the offsets.
LEMMA PlacesInOrder ==
    ASSUME NEW L, NEW open, FilesAre(L, open),
           NEW p \in PlacesIn(L, DOMAIN L), NEW q \in PlacesIn(L, DOMAIN L)
    PROVE  /\ OffsetAt(L, q) < OffsetAt(L, p) <=> q[1] < p[1] \/ (q[1] = p[1] /\ q[2] < p[2])
           /\ OffsetAt(L, q) = OffsetAt(L, p) => q = p
<1> DEFINE b == p[1]
           i == p[2]
           c == q[1]
           j == q[2]
<1>1. /\ b \in DOMAIN L /\ b \in Nat /\ i \in 1 .. Len(L[b]) /\ Len(L[b]) \in Nat
      /\ OffsetAt(L, p) = b + i - 1 /\ p = <<b, i>>
    BY PlaceIs
<1>2. /\ c \in DOMAIN L /\ c \in Nat /\ j \in 1 .. Len(L[c]) /\ Len(L[c]) \in Nat
      /\ OffsetAt(L, q) = c + j - 1 /\ q = <<c, j>>
    BY PlaceIs
<1>3. (b < c => b + Len(L[b]) <= c) /\ (c < b => c + Len(L[c]) <= b)
    BY <1>1, <1>2 DEF FilesAre
<1> HIDE DEF b, i, c, j
<1>4. OffsetAt(L, q) < OffsetAt(L, p) <=> c < b \/ (c = b /\ j < i)
    BY SMTT(20), <1>1, <1>2, <1>3
<1>5. OffsetAt(L, q) = OffsetAt(L, p) => c = b /\ j = i
    BY SMTT(20), <1>1, <1>2, <1>3
<1>6. QED
    BY <1>1, <1>2, <1>4, <1>5 DEF b, i, c, j

LEMMA RowsAre ==
    ASSUME NEW L, NEW open, FilesAre(L, open), NEW P \in SUBSET PlacesIn(L, DOMAIN L),
           NEW lo \in Nat, NEW hi \in Nat, lo <= hi,
           \A p \in P : OffsetAt(L, p) \in lo .. hi - 1,
           \A o \in lo .. hi - 1 : \E p \in P : OffsetAt(L, p) = o
    PROVE  /\ LogRows(L, P) \in Seq(Payload) /\ Len(LogRows(L, P)) = hi - lo
           /\ \A p \in P : LogRows(L, P)[OffsetAt(L, p) - lo + 1] = L[p[1]][p[2]].size
<1>1. \A p, q \in P : /\ OffsetAt(L, q) < OffsetAt(L, p) <=> q \in Earlier(P, p)
                      /\ OffsetAt(L, q) = OffsetAt(L, p) => q = p
    BY PlacesInOrder DEF Earlier
<1>2. \A p \in P : OffsetAt(L, p) \in Nat /\ L[p[1]][p[2]].size \in Payload
    BY PlaceIs
<1>3. IsFiniteSet(P) /\ Cardinality(P) = hi - lo
    <2> DEFINE f == [p \in P |-> OffsetAt(L, p)]
    <2>1. f \in [P -> lo .. hi - 1]
        OBVIOUS
    <2>2. \A p, q \in P : f[p] = f[q] => p = q
        BY <1>1
    <2>3. \A o \in lo .. hi - 1 : \E p \in P : f[p] = o
        OBVIOUS
    <2> HIDE DEF f
    <2>4. QED
        BY <2>1, <2>2, <2>3, NumberedThrough
<1>4. \A p \in P : Cardinality(Earlier(P, p)) = OffsetAt(L, p) - lo
    <2> TAKE p \in P
    <2> DEFINE n == OffsetAt(L, p)
               S == Earlier(P, p)
               f == [q \in S |-> OffsetAt(L, q)]
    <2>1. n \in Nat /\ lo <= n /\ n <= hi - 1
        BY <1>2
    <2>2. \A q \in S : q \in P /\ OffsetAt(L, q) \in lo .. n - 1
        <3> TAKE q \in S
        <3>1. q \in P
            BY DEF Earlier
        <3>2. OffsetAt(L, q) < n /\ OffsetAt(L, q) \in lo .. hi - 1
            BY <1>1, <3>1
        <3> HIDE DEF n
        <3>3. QED
            BY <2>1, <3>1, <3>2
    <2>3. \A o \in lo .. n - 1 : \E q \in S : OffsetAt(L, q) = o
        <3> TAKE o \in lo .. n - 1
        <3>1. o \in lo .. hi - 1 /\ o < n
            BY <2>1
        <3>2. PICK q \in P : OffsetAt(L, q) = o
            BY <3>1
        <3>3. q \in S
            BY <1>1, <3>1, <3>2
        <3>4. QED
            BY <3>2, <3>3
    <2> HIDE DEF n, S
    <2>4. f \in [S -> lo .. n - 1]
        BY <2>2
    <2>5. \A x, y \in S : f[x] = f[y] => x = y
        BY <1>1, <2>2
    <2>6. \A o \in lo .. n - 1 : \E q \in S : f[q] = o
        BY <2>3
    <2> HIDE DEF f
    <2>7. Cardinality(S) = n - lo
        <3>1. lo \in Int /\ n \in Int /\ lo <= n
            BY <2>1
        <3>2. QED
            BY <2>4, <2>5, <2>6, <3>1, NumberedThrough
    <2>8. QED
        BY <2>7 DEF n, S
<1>5. \A p \in P : Nth(P, OffsetAt(L, p) - lo + 1) = p
    <2> TAKE p \in P
    <2>1. \A q \in P : Cardinality(Earlier(P, q)) = OffsetAt(L, p) - lo => q = p
        BY <1>1, <1>2, <1>4
    <2>2. (OffsetAt(L, p) - lo + 1) - 1 = OffsetAt(L, p) - lo
        BY <1>2
    <2>3. QED
        BY <1>4, <2>1, <2>2 DEF Nth
<1>6. \A k \in 1 .. hi - lo : \E p \in P : k = OffsetAt(L, p) - lo + 1
    <2> TAKE k \in 1 .. hi - lo
    <2>1. lo + k - 1 \in lo .. hi - 1
        OBVIOUS
    <2>2. PICK p \in P : OffsetAt(L, p) = lo + k - 1
        BY <2>1
    <2>3. k = OffsetAt(L, p) - lo + 1
        BY <2>2
    <2>4. QED
        BY <2>3
<1>7. \A p \in P : OffsetAt(L, p) - lo + 1 \in 1 .. hi - lo
    <2> TAKE p \in P
    <2>1. OffsetAt(L, p) \in lo .. hi - 1
        OBVIOUS
    <2>2. QED
        BY <2>1
<1> DEFINE rows == LogRows(L, P)
           R(k) == L[Nth(P, k)[1]][Nth(P, k)[2]].size
<1>8. rows = [k \in 1 .. hi - lo |-> R(k)]
    BY <1>3 DEF LogRows
<1>9. \A p \in P : R(OffsetAt(L, p) - lo + 1) = L[p[1]][p[2]].size
    BY <1>5
<1> HIDE DEF R
<1>10. \A k \in 1 .. hi - lo : R(k) \in Payload
    BY <1>2, <1>6, <1>9
<1>11. hi - lo \in Nat /\ rows \in [1 .. hi - lo -> Payload]
    BY <1>8, <1>10
<1>12. rows \in Seq(Payload) /\ Len(rows) = hi - lo
    <2> DEFINE n == hi - lo
    <2>1. n \in Nat /\ rows \in [1 .. n -> Payload]
        BY <1>11
    <2> HIDE DEF n, rows
    <2>2. rows \in Seq(Payload) /\ DOMAIN rows = 1 .. n
        BY <2>1, SeqDef
    <2>3. Len(rows) = n
        BY <2>1, <2>2, LenProperties
    <2>4. QED
        BY <2>2, <2>3 DEF n
<1>13. \A p \in P : rows[OffsetAt(L, p) - lo + 1] = L[p[1]][p[2]].size
    BY <1>7, <1>8, <1>9
<1> HIDE DEF rows
<1>14. QED
    BY <1>12, <1>13 DEF rows

\* The records that are whole, and the sequence they make.
WholePlaces(L) == {p \in PlacesIn(L, DOMAIN L) : ~L[p[1]][p[2]].torn}
ContentOf(L) == LogRows(L, WholePlaces(L))
First(L) == IF DOMAIN L = {} THEN 0 ELSE Min(DOMAIN L)

\* Files have a whole record of an offset and a value.
At(L, o, v) == \E b \in DOMAIN L : \E i \in DOMAIN L[b] :
                  ~L[b][i].torn /\ L[b][i].offset = o /\ L[b][i].size = v

\* Files hold a sequence of values, at the offsets from their first.
Holds(L, C) ==
    /\ C \in Seq(Payload) /\ First(L) \in Nat
    /\ \A o, v : At(L, o, v) <=> /\ o \in First(L) .. First(L) + Len(C) - 1
                                 /\ v = C[o - First(L) + 1]

LEMMA FirstIs ==
    ASSUME NEW L, NEW open, FilesAre(L, open), DOMAIN L # {}
    PROVE  /\ First(L) \in DOMAIN L /\ First(L) \in Nat /\ \A c \in DOMAIN L : First(L) <= c
           /\ \A b \in DOMAIN L : (\A c \in DOMAIN L : b <= c) => First(L) = b
<1>1. DOMAIN L \in SUBSET Nat
    BY DEF FilesAre
<1>2. First(L) = Min(DOMAIN L)
    BY DEF First
<1>3. Min(DOMAIN L) \in DOMAIN L /\ \A c \in DOMAIN L : Min(DOMAIN L) <= c
    BY <1>1, MinIsLeast
<1>4. QED
    BY <1>1, <1>2, <1>3

LEMMA LastFile ==
    ASSUME NEW L, NEW open, FilesAre(L, open), DOMAIN L # {}
    PROVE  \E z \in DOMAIN L : \A c \in DOMAIN L : c <= z
<1>1. DOMAIN L \in SUBSET Nat /\ IsFiniteSet(DOMAIN L)
    BY DEF FilesAre
<1>2. Max(DOMAIN L) \in DOMAIN L /\ \A c \in DOMAIN L : Max(DOMAIN L) >= c
    BY <1>1, MaxIsGreatest
<1>3. QED
    BY <1>1, <1>2

\* How many records of the last file are whole.
LEMMA WholeOfLast ==
    ASSUME NEW L, NEW open, FilesAre(L, open), NEW z \in DOMAIN L
    PROVE  \E m \in 0 .. Len(L[z]) : /\ \A i \in 1 .. Len(L[z]) : ~L[z][i].torn <=> i <= m
                                     /\ open => m = Len(L[z])
<1> DEFINE n == Len(L[z])
           log == L[z]
<1>1. n \in Nat /\ DOMAIN log = 1 .. n
    BY SomeFile
<1>2. \A i \in DOMAIN log : log[i].torn => i = n /\ ~open
    BY DEF FilesAre
<1> HIDE DEF n, log
<1>3. CASE n # 0 /\ log[n].torn
    <2>1. n - 1 \in 0 .. n /\ n \in DOMAIN log
        BY <1>1, <1>3
    <2>2. \A i \in 1 .. n : ~log[i].torn <=> i <= n - 1
        BY <1>1, <1>2, <1>3
    <2>3. ~open
        BY <1>2, <1>3, <2>1
    <2>4. QED
        BY <2>1, <2>2, <2>3 DEF n, log
<1>4. CASE ~(n # 0 /\ log[n].torn)
    <2>1. n \in 0 .. n /\ \A i \in 1 .. n : ~log[i].torn <=> i <= n
        BY <1>1, <1>2, <1>4
    <2>2. QED
        BY <2>1 DEF n, log
<1>5. QED
    BY <1>3, <1>4

LEMMA Coverage ==
    ASSUME NEW L, NEW open, FilesAre(L, open), NEW z \in DOMAIN L, \A c \in DOMAIN L : c <= z,
           NEW m \in 0 .. Len(L[z]), \A i \in 1 .. Len(L[z]) : ~L[z][i].torn <=> i <= m
    PROVE  /\ First(L) \in Nat /\ First(L) <= z /\ z + m \in Nat
           /\ \A p \in WholePlaces(L) : OffsetAt(L, p) \in First(L) .. z + m - 1
           /\ \A o \in First(L) .. z + m - 1 : \E p \in WholePlaces(L) : OffsetAt(L, p) = o
<1>1. /\ First(L) \in Nat /\ \A c \in DOMAIN L : First(L) <= c
      /\ First(L) \in DOMAIN L
    BY FirstIs
<1>2. DOMAIN L \in SUBSET Nat /\ IsFiniteSet(DOMAIN L)
    BY DEF FilesAre
<1>3. z \in Nat /\ m \in Nat /\ Len(L[z]) \in Nat /\ First(L) <= z /\ z + m \in Nat
    BY <1>1, SomeFile
<1>4. ASSUME NEW p \in WholePlaces(L) PROVE OffsetAt(L, p) \in First(L) .. z + m - 1
    <2>1. p \in PlacesIn(L, DOMAIN L) /\ ~L[p[1]][p[2]].torn
        BY DEF WholePlaces
    <2> DEFINE b == p[1]
               i == p[2]
    <2>2. /\ b \in DOMAIN L /\ b \in Nat /\ i \in 1 .. Len(L[b]) /\ Len(L[b]) \in Nat
          /\ OffsetAt(L, p) = b + i - 1 /\ ~L[b][i].torn
        BY <2>1, PlaceIs
    <2> HIDE DEF b, i
    <2>3. First(L) <= b /\ b <= z
        BY <1>1, <2>2
    <2>4. CASE b = z
        <3>1. i <= m
            BY <2>2, <2>4
        <3>2. QED
            BY <1>1, <1>3, <2>2, <2>3, <2>4, <3>1
    <2>5. CASE b # z
        <3>1. b < z
            BY <1>3, <2>2, <2>3, <2>5
        <3>2. b + Len(L[b]) <= z
            BY <2>2, <3>1 DEF FilesAre
        <3>3. QED
            BY SMTT(20), <1>1, <1>3, <2>2, <2>3, <3>2
    <2>6. QED
        BY <2>4, <2>5
<1>5. ASSUME NEW o \in First(L) .. z + m - 1 PROVE \E p \in WholePlaces(L) : OffsetAt(L, p) = o
    <2> DEFINE low == {c \in DOMAIN L : c <= o}
               b == Max(low)
               i == o - b + 1
    <2>1. o \in Nat /\ First(L) <= o /\ o < z + m
        BY <1>1, <1>3
    <2>2. First(L) \in low /\ low \in SUBSET (DOMAIN L)
        BY <1>1, <2>1
    <2>3. low \in SUBSET Nat /\ IsFiniteSet(low) /\ low # {}
        BY <1>2, <2>2, FS_Subset
    <2>4. b \in low /\ \A c \in low : b >= c
        BY <2>3, MaxIsGreatest
    <2>5. b \in DOMAIN L /\ b <= o /\ \A c \in DOMAIN L : c <= o => c <= b
        <3>1. \A c \in low : c \in Nat
            BY <2>3
        <3>2. QED
            BY <2>4, <3>1
    <2> HIDE DEF low, b
    <2>6. b \in Nat /\ Len(L[b]) \in Nat /\ DOMAIN L[b] = 1 .. Len(L[b]) /\ FileOK(b, L[b])
        BY <2>5, SomeFile
    <2>7. i \in 1 .. Len(L[b]) /\ ~L[b][i].torn
        <3>1. CASE b = z
            <4>1. i \in 1 .. Len(L[z]) /\ i <= m
                BY <1>3, <2>1, <2>5, <2>6, <3>1
            <4>2. QED
                BY <3>1, <4>1
        <3>2. CASE b # z
            <4>1. b < z
                BY <1>3, <2>5, <2>6, <3>2
            <4>2. L[b] # <<>> /\ b + Len(L[b]) <= z /\ b + Len(L[b]) \in DOMAIN L
                BY <2>5, <4>1 DEF FilesAre
            <4>3. Len(L[b]) # 0
                BY <2>5, <4>2, SomeFile
            <4>4. ~(b + Len(L[b]) <= b)
                BY <2>6, <4>3
            <4>5. ~(b + Len(L[b]) <= o)
                BY <2>5, <4>2, <4>4
            <4>6. i \in 1 .. Len(L[b])
                BY <2>1, <2>5, <2>6, <4>5
            <4>7. \A j \in DOMAIN L[b] : L[b][j].torn => z <= b
                BY <2>5 DEF FilesAre
            <4>8. ~(z <= b)
                BY <1>3, <2>6, <4>1
            <4>9. QED
                BY <2>6, <4>6, <4>7, <4>8
        <3>3. QED
            BY <3>1, <3>2
    <2> DEFINE p == <<b, i>>
    <2>8. p \in WholePlaces(L) /\ p[1] = b /\ p[2] = i
        BY <2>5, <2>6, <2>7 DEF WholePlaces, PlacesIn
    <2>9. OffsetAt(L, p) = o
        <3>1. L[b][i].offset = b + i - 1
            BY SMTT(20), <2>6, <2>7, FileFacts
        <3>2. b + i - 1 = o
            BY <2>1, <2>6
        <3>3. QED
            BY <2>8, <3>1, <3>2 DEF OffsetAt
    <2>10. QED
        BY <2>8, <2>9
<1>6. QED
    BY <1>1, <1>3, <1>4, <1>5

\* What is at a place, said of files and offsets.
LEMMA AtIs ==
    ASSUME NEW L, NEW o, NEW v
    PROVE  At(L, o, v) <=> \E p \in WholePlaces(L) : OffsetAt(L, p) = o /\ L[p[1]][p[2]].size = v
<1>1. ASSUME NEW p \in WholePlaces(L), OffsetAt(L, p) = o, L[p[1]][p[2]].size = v
      PROVE  At(L, o, v)
    BY <1>1 DEF WholePlaces, PlacesIn, OffsetAt, At
<1>2. ASSUME NEW b \in DOMAIN L, NEW i \in DOMAIN L[b],
             ~L[b][i].torn, L[b][i].offset = o, L[b][i].size = v
      PROVE  \E p \in WholePlaces(L) : OffsetAt(L, p) = o /\ L[p[1]][p[2]].size = v
    <2> DEFINE p == <<b, i>>
    <2>1. p \in WholePlaces(L) /\ p[1] = b /\ p[2] = i
        BY <1>2 DEF WholePlaces, PlacesIn
    <2>2. QED
        BY <1>2, <2>1 DEF OffsetAt
<1>3. QED
    BY <1>1, <1>2 DEF At

LEMMA ContentHolds ==
    ASSUME NEW L, NEW open, FilesAre(L, open)
    PROVE  /\ Holds(L, ContentOf(L))
           /\ DOMAIN L = {} => ContentOf(L) = <<>>
           /\ \A z \in DOMAIN L : open /\ (\A c \in DOMAIN L : c <= z) =>
                 First(L) + Len(ContentOf(L)) = z + Len(L[z])
<1> DEFINE P == WholePlaces(L)
           C == LogRows(L, P)
           F == First(L)
<1>1. P \in SUBSET PlacesIn(L, DOMAIN L)
    BY DEF WholePlaces
<1>2. ASSUME NEW hi \in Nat, F \in Nat, F <= hi,
             \A p \in P : OffsetAt(L, p) \in F .. hi - 1,
             \A o \in F .. hi - 1 : \E p \in P : OffsetAt(L, p) = o
      PROVE  Holds(L, C) /\ Len(C) = hi - F
    <2> HIDE DEF P, C, F
    <2>1. /\ LogRows(L, P) \in Seq(Payload) /\ Len(LogRows(L, P)) = hi - F
          /\ \A p \in P : LogRows(L, P)[OffsetAt(L, p) - F + 1] = L[p[1]][p[2]].size
        BY <1>1, <1>2, RowsAre
    <2>2. /\ C \in Seq(Payload) /\ Len(C) = hi - F
          /\ \A p \in P : C[OffsetAt(L, p) - F + 1] = L[p[1]][p[2]].size
        BY <2>1 DEF C
    <2>3. F + Len(C) - 1 = hi - 1
        BY <1>2, <2>2
    <2>4. \A o, v : At(L, o, v) <=> o \in F .. F + Len(C) - 1 /\ v = C[o - F + 1]
        <3> TAKE o, v
        <3>1. ASSUME At(L, o, v) PROVE o \in F .. hi - 1 /\ v = C[o - F + 1]
            <4>1. PICK p \in P : OffsetAt(L, p) = o /\ L[p[1]][p[2]].size = v
                BY <3>1, AtIs DEF P
            <4>2. QED
                BY <1>2, <2>2, <4>1
        <3>2. ASSUME o \in F .. hi - 1, v = C[o - F + 1] PROVE At(L, o, v)
            <4>1. PICK p \in P : OffsetAt(L, p) = o
                BY <1>2, <3>2
            <4>2. L[p[1]][p[2]].size = v
                BY <2>2, <3>2, <4>1
            <4>3. QED
                BY <4>1, <4>2, AtIs DEF P
        <3>3. QED
            BY <2>3, <3>1, <3>2
    <2>5. QED
        BY <1>2, <2>2, <2>4 DEF Holds, F
<1>3. CASE DOMAIN L = {}
    <2>1. F = 0 /\ P = {}
        BY <1>3 DEF First, WholePlaces, PlacesIn
    <2>2. 0 .. 0 - 1 = {}
        OBVIOUS
    <2> HIDE DEF P, C, F
    <2>3. Holds(L, C) /\ Len(C) = 0 - F
        BY <1>2, <2>1, <2>2
    <2>4. C \in Seq(Payload) /\ Len(C) = 0
        BY <2>1, <2>3 DEF Holds
    <2>5. C = <<>>
        BY <2>4, SequenceFacts
    <2>6. QED
        BY <1>3, <2>3, <2>5 DEF P, C, F, ContentOf
<1>4. CASE DOMAIN L # {}
    <2>1. PICK z \in DOMAIN L : \A c \in DOMAIN L : c <= z
        BY <1>4, LastFile
    <2>2. PICK m \in 0 .. Len(L[z]) : /\ \A i \in 1 .. Len(L[z]) : ~L[z][i].torn <=> i <= m
                                      /\ open => m = Len(L[z])
        BY WholeOfLast
    <2>3. /\ F \in Nat /\ F <= z /\ z + m \in Nat
          /\ \A p \in P : OffsetAt(L, p) \in F .. z + m - 1
          /\ \A o \in F .. z + m - 1 : \E p \in P : OffsetAt(L, p) = o
        BY <2>1, <2>2, Coverage
    <2>4. z \in Nat /\ m \in Nat
        BY SomeFile
    <2> HIDE DEF P, C, F
    <2> DEFINE hi == z + m
    <2>5. hi \in Nat /\ F <= hi /\ z + m - 1 = hi - 1
        BY <2>3, <2>4
    <2>6. Holds(L, C) /\ Len(C) = hi - F
        <3> HIDE DEF hi
        <3>1. /\ \A p \in P : OffsetAt(L, p) \in F .. hi - 1
              /\ \A o \in F .. hi - 1 : \E p \in P : OffsetAt(L, p) = o
            BY <2>3, <2>5
        <3>2. QED
            BY <1>2, <2>3, <2>5, <3>1
    <2>7. ASSUME NEW y \in DOMAIN L, open, \A c \in DOMAIN L : c <= y
          PROVE  F + Len(C) = y + Len(L[y])
        <3>1. y <= z /\ z <= y /\ y \in Nat
            BY <2>1, <2>7, SomeFile
        <3>2. y = z
            BY <2>4, <3>1
        <3>3. m = Len(L[y])
            BY <2>2, <2>7, <3>2
        <3>4. F + Len(C) = z + m
            BY <2>3, <2>4, <2>6
        <3>5. QED
            BY <3>2, <3>3, <3>4
    <2>8. QED
        BY <1>4, <2>6, <2>7 DEF P, C, F, ContentOf
<1>5. QED
    BY <1>3, <1>4

\* Files that hold the values of some range of offsets hold that part of the sequence.
LEMMA Slice ==
    ASSUME NEW L, NEW C, Holds(L, C), NEW L2, NEW C2, Holds(L2, C2),
           First(L) <= First(L2), NEW hi \in Nat, First(L2) <= hi, hi <= First(L) + Len(C),
           \A o, v : At(L2, o, v) <=> At(L, o, v) /\ First(L2) <= o /\ o < hi
    PROVE  /\ Len(C2) = hi - First(L2)
           /\ C2 = SubSeq(C, First(L2) - First(L) + 1, hi - First(L))
<1> DEFINE F == First(L)
           F2 == First(L2)
           n == Len(C)
           n2 == Len(C2)
<1>1. /\ C \in Seq(Payload) /\ F \in Nat /\ n \in Nat
      /\ \A o, v : At(L, o, v) <=> o \in F .. F + n - 1 /\ v = C[o - F + 1]
    BY LenProperties DEF Holds
<1>2. /\ C2 \in Seq(Payload) /\ F2 \in Nat /\ n2 \in Nat
      /\ \A o, v : At(L2, o, v) <=> o \in F2 .. F2 + n2 - 1 /\ v = C2[o - F2 + 1]
    BY LenProperties DEF Holds
<1>3. F <= F2 /\ F2 <= hi /\ hi <= F + n /\ hi \in Nat
    OBVIOUS
<1>4. \A o, v : At(L2, o, v) <=> At(L, o, v) /\ F2 <= o /\ o < hi
    OBVIOUS
<1> HIDE DEF F, F2, n, n2
<1>5. ASSUME NEW o \in F2 .. hi - 1
      PROVE  /\ o \in F .. F + n - 1 /\ o \in F2 .. F2 + n2 - 1
             /\ C2[o - F2 + 1] = C[o - F + 1]
    <2>1. o \in F .. F + n - 1 /\ F2 <= o /\ o < hi
        BY <1>3, <1>1, <1>2
    <2>2. At(L, o, C[o - F + 1])
        BY <1>1, <2>1
    <2>3. At(L2, o, C[o - F + 1])
        BY <1>4, <2>1, <2>2
    <2>4. QED
        BY <1>2, <2>1, <2>3
<1>6. ASSUME NEW o \in F2 .. F2 + n2 - 1 PROVE o < hi
    <2>1. At(L2, o, C2[o - F2 + 1])
        BY <1>2
    <2>2. QED
        BY <1>4, <2>1
<1>7. n2 = hi - F2
    <2>1. n2 <= hi - F2
        <3>1. CASE n2 = 0
            BY <1>3, <1>1, <1>2, <3>1
        <3>2. CASE n2 # 0
            <4>1. F2 + n2 - 1 \in F2 .. F2 + n2 - 1
                BY <1>2, <3>2
            <4>2. F2 + n2 - 1 < hi
                BY <1>6, <4>1
            <4>3. QED
                BY <1>3, <1>2, <4>2
        <3>3. QED
            BY <3>1, <3>2
    <2>2. hi - F2 <= n2
        <3>1. CASE hi = F2
            BY <1>3, <1>1, <1>2, <3>1
        <3>2. CASE hi # F2
            <4>1. hi - 1 \in F2 .. hi - 1
                BY <1>3, <1>1, <1>2, <3>2
            <4>2. hi - 1 \in F2 .. F2 + n2 - 1
                BY <1>5, <4>1
            <4>3. QED
                BY <1>3, <1>2, <4>2
        <3>3. QED
            BY <3>1, <3>2
    <2>3. QED
        BY <1>3, <1>2, <2>1, <2>2
<1> DEFINE lo == F2 - F + 1
           top == hi - F
           sub == SubSeq(C, lo, top)
<1>8. lo \in Int /\ top \in Int /\ lo >= 1 /\ top <= n
    BY <1>3, <1>1, <1>2
<1>9. \A i \in lo .. top : C[i] \in Payload
    <2>1. \A i \in lo .. top : i \in 1 .. n
        BY <1>1, <1>8
    <2> HIDE DEF lo, top
    <2>2. QED
        BY <1>1, <2>1, ElementOfSeq DEF n
<1>10. top - lo + 1 = n2 /\ (lo <= top => top - lo + 1 = n2) /\ (~(lo <= top) => n2 = 0)
    BY <1>3, <1>1, <1>2, <1>7
<1>11. \A i \in 1 .. n2 : C2[i] = C[lo + i - 1]
    <2> TAKE i \in 1 .. n2
    <2>1. F2 + i - 1 \in F2 .. hi - 1
        BY <1>3, <1>2, <1>7
    <2>2. C2[(F2 + i - 1) - F2 + 1] = C[(F2 + i - 1) - F + 1]
        BY <1>5, <2>1
    <2>3. (F2 + i - 1) - F2 + 1 = i /\ (F2 + i - 1) - F + 1 = lo + i - 1
        BY <1>1, <1>2
    <2>4. QED
        BY <2>2, <2>3
<1>12. sub \in Seq(Payload) /\ Len(sub) = n2 /\ \A i \in 1 .. n2 : sub[i] = C[lo + i - 1]
    <2> HIDE DEF lo, top
    <2>1. /\ sub \in Seq(Payload) /\ Len(sub) = IF lo <= top THEN top - lo + 1 ELSE 0
          /\ \A i \in 1 .. top - lo + 1 : sub[i] = C[lo + i - 1]
        BY <1>8, <1>9, SubSeqProperties
    <2>2. QED
        BY <1>10, <2>1
<1>13. C2 = sub
    <2> HIDE DEF lo, top, sub
    <2>1. Len(C2) = Len(sub) /\ \A i \in 1 .. Len(C2) : C2[i] = sub[i]
        BY <1>11, <1>12 DEF n2
    <2>2. QED
        BY <1>2, <1>12, <2>1, SeqEqual
<1>14. QED
    BY <1>7, <1>13 DEF F, F2, n2

\* Files of the same records hold the same sequence.
LEMMA SameContent ==
    ASSUME NEW L, NEW C, Holds(L, C), NEW L2, NEW C2, Holds(L2, C2),
           First(L2) = First(L), \A o, v : At(L2, o, v) <=> At(L, o, v)
    PROVE  C2 = C
<1>1. /\ C \in Seq(Payload) /\ First(L) \in Nat /\ Len(C) \in Nat
      /\ \A o, v : At(L, o, v) => o \in First(L) .. First(L) + Len(C) - 1
    BY LenProperties DEF Holds
<1> DEFINE hi == First(L) + Len(C)
<1>2. /\ hi \in Nat /\ First(L2) <= hi /\ hi <= First(L) + Len(C) /\ First(L) <= First(L2)
      /\ First(L2) - First(L) + 1 = 1 /\ hi - First(L) = Len(C)
    BY <1>1
<1>3. \A o, v : At(L2, o, v) <=> At(L, o, v) /\ First(L2) <= o /\ o < hi
    BY <1>1
<1> HIDE DEF hi
<1>4. C2 = SubSeq(C, First(L2) - First(L) + 1, hi - First(L))
    BY <1>2, <1>3, Slice
<1>5. QED
    BY <1>1, <1>2, <1>4, SubSeqFull

\* A record at the next offset is one more value.
LEMMA OneMore ==
    ASSUME NEW L, NEW C, Holds(L, C), NEW L2, NEW C2, Holds(L2, C2),
           First(L2) = First(L), NEW x \in Payload,
           \A o, v : At(L2, o, v) <=> At(L, o, v) \/ (o = First(L) + Len(C) /\ v = x)
    PROVE  C2 = Append(C, x)
<1> DEFINE F == First(L)
           n == Len(C)
           n2 == Len(C2)
<1>1. /\ C \in Seq(Payload) /\ F \in Nat /\ n \in Nat
      /\ \A o, v : At(L, o, v) <=> o \in F .. F + n - 1 /\ v = C[o - F + 1]
    BY LenProperties DEF Holds
<1>2. /\ C2 \in Seq(Payload) /\ n2 \in Nat
      /\ \A o, v : At(L2, o, v) <=> o \in F .. F + n2 - 1 /\ v = C2[o - F + 1]
    BY LenProperties DEF Holds
<1>3. \A o, v : At(L2, o, v) <=> At(L, o, v) \/ (o = F + n /\ v = x)
    OBVIOUS
<1> HIDE DEF F, n, n2
<1>4. At(L2, F + n, x)
    BY <1>3
<1>5. F + n \in F .. F + n2 - 1 /\ x = C2[(F + n) - F + 1]
    BY <1>2, <1>4
<1>6. C2[n + 1] = x
    <2>1. (F + n) - F + 1 = n + 1
        BY <1>1
    <2>2. QED
        BY <1>5, <2>1
<1>7. n + 1 <= n2
    BY <1>1, <1>2, <1>5
<1>8. n2 <= n + 1
    <2>1. F + n2 - 1 \in F .. F + n2 - 1
        BY <1>1, <1>2, <1>7
    <2>2. At(L2, F + n2 - 1, C2[(F + n2 - 1) - F + 1])
        BY <1>2, <2>1
    <2>3. F + n2 - 1 \in F .. F + n - 1 \/ F + n2 - 1 = F + n
        BY <1>1, <1>3, <2>2
    <2>4. QED
        BY <1>1, <1>2, <2>3
<1>9. n2 = n + 1
    BY <1>1, <1>2, <1>7, <1>8
<1>10. \A i \in 1 .. n : C2[i] = C[i]
    <2> TAKE i \in 1 .. n
    <2> DEFINE o == F + i - 1
    <2>1. o \in F .. F + n - 1 /\ o \in F .. F + n2 - 1 /\ o - F + 1 = i
        BY <1>1, <1>2, <1>7
    <2>2. At(L, o, C[o - F + 1])
        BY <1>1, <2>1
    <2>3. At(L2, o, C[o - F + 1])
        BY <1>3, <2>2
    <2>4. C[o - F + 1] = C2[o - F + 1]
        BY <1>2, <2>3
    <2> HIDE DEF o
    <2>5. QED
        BY <2>1, <2>4
<1>11. /\ Append(C, x) \in Seq(Payload) /\ Len(Append(C, x)) = n + 1
       /\ \A i \in 1 .. n : Append(C, x)[i] = C[i]
       /\ Append(C, x)[n + 1] = x
    BY <1>1 DEF n
<1>12. \A i \in 1 .. n2 : C2[i] = Append(C, x)[i]
    <2> TAKE i \in 1 .. n2
    <2>1. i \in 1 .. n \/ i = n + 1
        BY <1>1, <1>9
    <2>2. QED
        BY <1>6, <1>10, <1>11, <2>1
<1>13. QED
    BY <1>2, <1>9, <1>11, <1>12, SeqEqual DEF n2

-----------------------------------------------------------------------------
(* What the operations do to the records.                                   *)

LEMMA AtWithEmpty ==
    ASSUME NEW L, NEW b, b \notin DOMAIN L, NEW o, NEW v
    PROVE  At(Adding(L, b, <<>>), o, v) <=> At(L, o, v)
<1>1. /\ DOMAIN Adding(L, b, <<>>) = DOMAIN L \cup {b}
      /\ Adding(L, b, <<>>)[b] = <<>>
      /\ \A c \in DOMAIN L : Adding(L, b, <<>>)[c] = L[c]
    BY DEF Adding
<1>2. DOMAIN <<>> = {}
    BY EmptySeq
<1>3. QED
    BY <1>1, <1>2 DEF At

LEMMA AtAppended ==
    ASSUME NEW L, NEW open, FilesAre(L, open), NEW a \in DOMAIN L,
           NEW r \in LogRecord, r.offset = a + Len(L[a]), r.position = SizeOf(L[a]),
           NEW o, NEW v
    PROVE  At([L EXCEPT ![a] = Append(@, r)], o, v)
              <=> At(L, o, v) \/ (~r.torn /\ o = r.offset /\ v = r.size)
<1> DEFINE L2 == [L EXCEPT ![a] = Append(@, r)]
           n == Len(L[a])
<1>1. a \in Nat /\ FileOK(a, L[a]) /\ n \in Nat /\ DOMAIN L[a] = 1 .. n /\ L[a] \in Seq(LogRecord)
    BY SomeFile
<1>2. /\ \A i \in DOMAIN L[a] : Append(L[a], r)[i] = L[a][i]
      /\ Append(L[a], r)[n + 1] = r /\ Len(Append(L[a], r)) = n + 1
      /\ FileOK(a, Append(L[a], r))
    BY <1>1, AppendedFile
<1>3. DOMAIN Append(L[a], r) = 1 .. n + 1
    BY <1>1, <1>2, FileFacts
<1>4. DOMAIN L2 = DOMAIN L /\ L2[a] = Append(L[a], r) /\ \A c \in DOMAIN L : c # a => L2[c] = L[c]
    OBVIOUS
<1> HIDE DEF L2, n
<1>5. /\ DOMAIN L2[a] = 1 .. n + 1 /\ L2[a][n + 1] = r /\ \A i \in 1 .. n : L2[a][i] = L[a][i]
      /\ n + 1 \in 1 .. n + 1 /\ 1 .. n \subseteq 1 .. n + 1
      /\ \A i \in 1 .. n + 1 : i \in 1 .. n \/ i = n + 1
    BY <1>1, <1>2, <1>3, <1>4
<1>6. At(L, o, v) => At(L2, o, v)
    BY SMTT(20), <1>1, <1>4, <1>5 DEF At
<1>7. ~r.torn /\ o = r.offset /\ v = r.size => At(L2, o, v)
    BY <1>4, <1>5 DEF At
<1>8. ASSUME At(L2, o, v) PROVE At(L, o, v) \/ (~r.torn /\ o = r.offset /\ v = r.size)
    <2>1. PICK b \in DOMAIN L2 : \E i \in DOMAIN L2[b] :
             ~L2[b][i].torn /\ L2[b][i].offset = o /\ L2[b][i].size = v
        BY <1>8 DEF At
    <2>2. PICK i \in DOMAIN L2[b] : ~L2[b][i].torn /\ L2[b][i].offset = o /\ L2[b][i].size = v
        BY <2>1
    <2>3. CASE b # a
        BY <1>4, <2>2, <2>3 DEF At
    <2>4. CASE b = a /\ i = n + 1
        BY <1>5, <2>2, <2>4
    <2>5. CASE b = a /\ i \in 1 .. n
        BY <1>1, <1>5, <2>2, <2>5 DEF At
    <2>6. QED
        BY <1>5, <2>2, <2>3, <2>4, <2>5
<1>9. QED
    BY <1>6, <1>7, <1>8 DEF L2

LEMMA RecordIn ==
    ASSUME NEW L, NEW open, FilesAre(L, open), NEW b \in DOMAIN L, NEW i \in DOMAIN L[b]
    PROVE  /\ b \in Nat /\ Len(L[b]) \in Nat /\ i \in 1 .. Len(L[b])
           /\ L[b][i].offset = b + i - 1
BY SomeFile, FileFacts

LEMMA AtDropped ==
    ASSUME NEW L, NEW X, NEW S, State(L, X, S), S # <<>>, Len(S) > 1
    PROVE  LET b == S[1].base
               L2 == Restrict(L, DOMAIN L \ {b})
           IN  /\ First(L) = b /\ First(L2) = b + Len(L[b]) /\ Len(L[b]) \in Nat \ {0}
               /\ \A o, v : At(L2, o, v) <=> At(L, o, v) /\ First(L2) <= o
<1> DEFINE b == S[1].base
           L2 == Restrict(L, DOMAIN L \ {b})
           next == b + Len(L[b])
<1>1. /\ b \in DOMAIN L /\ S[2].base \in DOMAIN L /\ \A c \in DOMAIN L : b <= c
      /\ 1 \in DOMAIN S /\ 2 \in DOMAIN S
    <2>1. Len(S) \in Nat /\ DOMAIN S = 1 .. Len(S)
        BY OpenFacts
    <2>2. 1 \in 1 .. Len(S) /\ 2 \in 1 .. Len(S)
        BY <2>1
    <2>3. QED
        BY <2>1, <2>2, OpenFacts
<1>2. FilesAre(L, TRUE)
    BY DEF State
<1>3. FilesAre(L2, TRUE) /\ DOMAIN L2 = DOMAIN L \ {b} /\ \A c \in DOMAIN L2 : L2[c] = L[c]
    BY FirstGone
<1>4. b < S[2].base
    BY <1>1 DEF State, SegmentsAre
<1>5. b \in Nat /\ Len(L[b]) \in Nat /\ (L[b] # <<>> <=> Len(L[b]) # 0) /\ S[2].base \in Nat
    BY <1>1, <1>2, SomeFile
<1>6. L[b] # <<>> /\ next \in DOMAIN L
    BY <1>1, <1>2, <1>4 DEF FilesAre
<1>7. \A c \in DOMAIN L2 : next <= c
    <2> TAKE c \in DOMAIN L2
    <2>1. c \in DOMAIN L /\ c # b /\ b <= c /\ c \in Nat
        BY <1>1, <1>2, <1>3, SomeFile
    <2>2. b < c
        BY <1>5, <2>1
    <2>3. QED
        BY <1>1, <1>2, <2>1, <2>2 DEF FilesAre
<1>8. next \in DOMAIN L2 /\ DOMAIN L2 # {}
    <2>1. next # b
        BY <1>5, <1>6
    <2>2. QED
        BY <1>3, <1>6, <2>1
<1> HIDE DEF L2
<1>9. First(L) = b
    BY <1>1, <1>2, FirstIs
<1>10. First(L2) = next
    BY <1>3, <1>7, <1>8, FirstIs
<1>11. \A o, v : At(L2, o, v) => At(L, o, v) /\ next <= o
    <2> SUFFICES ASSUME NEW o, NEW v, At(L2, o, v) PROVE At(L, o, v) /\ next <= o
        OBVIOUS
    <2>1. PICK c \in DOMAIN L2 : \E i \in DOMAIN L2[c] :
             ~L2[c][i].torn /\ L2[c][i].offset = o /\ L2[c][i].size = v
        BY DEF At
    <2>2. PICK i \in DOMAIN L2[c] : ~L2[c][i].torn /\ L2[c][i].offset = o /\ L2[c][i].size = v
        BY <2>1
    <2>3. c \in DOMAIN L /\ L2[c] = L[c] /\ next <= c
        BY <1>3, <1>7
    <2>4. At(L, o, v)
        BY <2>2, <2>3 DEF At
    <2>5. c \in Nat /\ i \in Nat /\ i >= 1 /\ o = c + i - 1
        <3>1. FilesAre(L2, TRUE)
            BY <1>3
        <3>2. c \in Nat /\ Len(L2[c]) \in Nat /\ i \in 1 .. Len(L2[c]) /\ L2[c][i].offset = c + i - 1
            BY <2>2, <3>1, RecordIn
        <3>3. QED
            BY <2>2, <3>2
    <2>6. next \in Nat
        BY <1>5
    <2> HIDE DEF next
    <2>7. next <= o
        BY <2>3, <2>5, <2>6
    <2>8. QED
        BY <2>4, <2>7
<1>12. \A o, v : At(L, o, v) /\ next <= o => At(L2, o, v)
    <2> SUFFICES ASSUME NEW o, NEW v, At(L, o, v), next <= o PROVE At(L2, o, v)
        OBVIOUS
    <2>1. PICK c \in DOMAIN L : \E i \in DOMAIN L[c] :
             ~L[c][i].torn /\ L[c][i].offset = o /\ L[c][i].size = v
        BY DEF At
    <2>2. PICK i \in DOMAIN L[c] : ~L[c][i].torn /\ L[c][i].offset = o /\ L[c][i].size = v
        BY <2>1
    <2>3. i \in 1 .. Len(L[c]) /\ o = c + i - 1
        BY <1>2, <2>2, RecordIn
    <2>4. c # b
        <3>1. ASSUME c = b PROVE FALSE
            BY <1>5, <2>3, <3>1
        <3>2. QED
            BY <3>1
    <2>5. c \in DOMAIN L2 /\ L2[c] = L[c]
        BY <1>3, <2>4
    <2>6. QED
        BY <2>2, <2>5 DEF At
<1>13. QED
    BY <1>5, <1>6, <1>9, <1>10, <1>11, <1>12 DEF L2

LEMMA AtCut ==
    ASSUME NEW L, NEW X, FilesAre(L, TRUE), IndexesAre(L, X), DOMAIN L \subseteq DOMAIN X,
           NEW offset \in Nat, NEW first \in DOMAIN L, first < offset
    PROVE  /\ First(CutTo(L, offset)) = First(L)
           /\ \A o, v : At(CutTo(L, offset), o, v) <=> At(L, o, v) /\ o < offset
<1> DEFINE L2 == CutTo(L, offset)
<1>1. /\ FilesAre(L2, TRUE) /\ DOMAIN L2 = {c \in DOMAIN L : c < offset}
      /\ \A b \in DOMAIN L2 :
                /\ CountBelow(b, L[b], offset) \in 0 .. Len(L[b])
                /\ L2[b] = SubSeq(L[b], 1, CountBelow(b, L[b], offset))
                /\ Len(L2[b]) = CountBelow(b, L[b], offset)
    BY CutFiles
<1> HIDE DEF L2
<1>2. First(L2) = First(L)
    <2>1. DOMAIN L # {}
        OBVIOUS
    <2>2. First(L) \in DOMAIN L /\ First(L) \in Nat /\ \A c \in DOMAIN L : First(L) <= c
        BY <2>1, FirstIs
    <2>3. first \in Nat /\ First(L) <= first
        BY <2>2, SomeFile
    <2>4. First(L) \in DOMAIN L2
        BY <1>1, <2>2, <2>3
    <2>5. \A c \in DOMAIN L2 : First(L) <= c
        BY <1>1, <2>2
    <2>6. QED
        BY <1>1, <2>4, <2>5, FirstIs
<1>3. ASSUME NEW b \in DOMAIN L, NEW i \in DOMAIN L[b]
      PROVE  /\ L[b][i].offset < offset => b \in DOMAIN L2 /\ i \in DOMAIN L2[b]
    <2>1. b \in Nat /\ Len(L[b]) \in Nat /\ i \in 1 .. Len(L[b]) /\ L[b][i].offset = b + i - 1
        BY RecordIn
    <2>2. ASSUME b + i - 1 < offset PROVE b \in DOMAIN L2 /\ i \in DOMAIN L2[b]
        <3>1. b < offset
            BY <2>1, <2>2
        <3>2. b \in DOMAIN L2
            BY <1>1, <3>1
        <3>3. DOMAIN L2[b] = 1 .. CountBelow(b, L[b], offset)
            BY <1>1, <3>2, SomeFile
        <3>4. i \in 1 .. CountBelow(b, L[b], offset)
            BY <2>1, <2>2 DEF CountBelow
        <3>5. QED
            BY <3>2, <3>3, <3>4
    <2>3. QED
        BY <2>1, <2>2
<1>4. ASSUME NEW b \in DOMAIN L2, NEW i \in DOMAIN L2[b]
      PROVE  /\ b \in DOMAIN L /\ i \in DOMAIN L[b] /\ L2[b][i] = L[b][i] /\ L2[b][i].offset < offset
    <2>1. b \in DOMAIN L /\ b < offset
        BY <1>1
    <2> DEFINE m == CountBelow(b, L[b], offset)
    <2>2. m \in 0 .. Len(L[b]) /\ L2[b] = SubSeq(L[b], 1, m) /\ Len(L2[b]) = m
        BY <1>1
    <2>3. b \in Nat /\ L[b] \in Seq(LogRecord) /\ Len(L[b]) \in Nat /\ DOMAIN L[b] = 1 .. Len(L[b])
        BY <2>1, SomeFile
    <2>4. i \in 1 .. m /\ i \in Nat /\ L2[b][i].offset = b + i - 1
        <3>1. FilesAre(L2, TRUE)
            BY <1>1
        <3>2. i \in 1 .. Len(L2[b]) /\ L2[b][i].offset = b + i - 1
            BY <3>1, RecordIn
        <3>3. QED
            BY <2>2, <3>2
    <2>5. b + i - 1 < offset
        BY <2>1, <2>3, <2>4 DEF CountBelow
    <2> HIDE DEF m
    <2>6. i \in DOMAIN L[b]
        BY <2>2, <2>3, <2>4
    <2>7. SubSeq(L[b], 1, m)[i] = L[b][i]
        BY <2>2, <2>3, <2>4, Beginning
    <2>8. QED
        BY <2>1, <2>2, <2>4, <2>5, <2>6, <2>7
<1>5. \A b \in DOMAIN L : \A i \in DOMAIN L[b] :
         L[b][i].offset < offset => b \in DOMAIN L2 /\ i \in DOMAIN L2[b] /\ L2[b][i] = L[b][i]
    BY <1>3, <1>4
<1>6. \A o, v : At(L2, o, v) <=> At(L, o, v) /\ o < offset
    <2> TAKE o, v
    <2>1. At(L2, o, v) => At(L, o, v) /\ o < offset
        BY <1>4 DEF At
    <2>2. At(L, o, v) /\ o < offset => At(L2, o, v)
        BY <1>5 DEF At
    <2>3. QED
        BY <2>1, <2>2
<1>7. QED
    BY <1>2, <1>6 DEF L2

LEMMA AtOpened ==
    ASSUME NEW L, NEW X, FilesAre(L, FALSE), IndexesAre(L, X)
    PROVE  /\ First(OpenedLogs(L, X)) = First(L)
           /\ \A o, v : At(OpenedLogs(L, X), o, v) <=> At(L, o, v)
<1> DEFINE L2 == OpenedLogs(L, X)
<1>1. DOMAIN L2 = DOMAIN L
    BY DEF OpenedLogs
<1>2. First(L2) = First(L)
    BY <1>1 DEF First
<1>3. ASSUME NEW b \in DOMAIN L
      PROVE  /\ \A i \in DOMAIN L2[b] : i \in DOMAIN L[b] /\ L2[b][i] = L[b][i]
             /\ \A i \in DOMAIN L[b] : ~L[b][i].torn => i \in DOMAIN L2[b]
    <2> HIDE DEF L2
    <2>1. /\ Len(L2[b]) \in 0 .. Len(L[b]) /\ L2[b] = SubSeq(L[b], 1, Len(L2[b]))
          /\ FileOK(b, L2[b])
          /\ \A i \in 1 .. Len(L2[b]) : L2[b][i] = L[b][i]
          /\ \A i \in 1 .. Len(L[b]) : ~L[b][i].torn <=> i <= Len(L2[b])
          /\ (\E c \in DOMAIN L : b < c) => Len(L2[b]) = Len(L[b])
          /\ Reopened(L, X, b).nextOffset = b + Len(L2[b])
          /\ IndexOK(L2[b], OpenedIndexes(L, X)[b])
        BY OpenedFile DEF L2
    <2>2. /\ Len(L2[b]) \in 0 .. Len(L[b]) /\ FileOK(b, L2[b])
          /\ \A i \in 1 .. Len(L2[b]) : L2[b][i] = L[b][i]
          /\ \A i \in 1 .. Len(L[b]) : ~L[b][i].torn <=> i <= Len(L2[b])
        BY <2>1
    <2>3. b \in Nat /\ DOMAIN L[b] = 1 .. Len(L[b]) /\ Len(L[b]) \in Nat
        BY SomeFile
    <2>4. DOMAIN L2[b] = 1 .. Len(L2[b]) /\ Len(L2[b]) \in Nat
        BY <2>2, <2>3, FileFacts
    <2> HIDE DEF L2
    <2>5. \A i \in 1 .. Len(L2[b]) : i \in 1 .. Len(L[b])
        BY <2>2, <2>3, <2>4
    <2>6. QED
        BY <2>2, <2>3, <2>4, <2>5
<1> HIDE DEF L2
<1>4. \A o, v : At(L2, o, v) <=> At(L, o, v)
    <2> TAKE o, v
    <2>1. At(L2, o, v) => At(L, o, v)
        BY <1>1, <1>3 DEF At
    <2>2. At(L, o, v) => At(L2, o, v)
        BY <1>1, <1>3 DEF At
    <2>3. QED
        BY <2>1, <2>2
<1>5. QED
    BY <1>2, <1>4 DEF L2

-----------------------------------------------------------------------------
(* The refinement: what the operations do to the sequence.                  *)

LEMMA ContentIs ==
    /\ Content = ContentOf(logs) /\ FirstOffset = First(logs)
    /\ Content' = ContentOf(logs') /\ FirstOffset' = First(logs')
<1>1. Content = ContentOf(logs)
    BY Zenon DEF Content, RowsOf, Places, ContentOf, LogRows, Nth, Earlier, WholePlaces, PlacesIn
<1>2. Content' = ContentOf(logs')
    BY Zenon DEF Content, RowsOf, Places, ContentOf, LogRows, Nth, Earlier, WholePlaces, PlacesIn
<1>3. FirstOffset = First(logs) /\ FirstOffset' = First(logs')
    BY DEF FirstOffset, First
<1>4. QED
    BY <1>1, <1>2, <1>3

LEMMA HeldBefore ==
    ASSUME LogInv
    PROVE  Holds(logs, Content)
<1>1. FilesAre(logs, segments # <<>>)
    BY DEF LogInv, State
<1>2. QED
    BY <1>1, ContentHolds, ContentIs

LEMMA HeldAfter ==
    ASSUME LogInv'
    PROVE  Holds(logs', Content')
<1>1. FilesAre(logs', segments' # <<>>)
    BY DEF LogInv, State
<1>2. Holds(logs', ContentOf(logs'))
    BY <1>1, ContentHolds
<1>3. QED
    BY <1>2, ContentIs

\* The end of an open log.
LEMMA EndIs ==
    ASSUME LogInv, segments # <<>>
    PROVE  /\ FirstOffset + Len(Content) = Last(segments).nextOffset
           /\ FirstOffset = segments[1].base /\ FirstOffset \in Nat
           /\ Len(Content) \in Nat /\ Content \in Seq(Payload)
<1> DEFINE z == Last(segments).base
<1>1. State(logs, indexes, segments)
    BY DEF LogInv
<1>2. /\ z \in DOMAIN logs /\ \A c \in DOMAIN logs : segments[1].base <= c /\ c <= z
      /\ Last(segments).nextOffset = z + Len(logs[z])
      /\ segments[1].base \in DOMAIN logs
    <2>1. 1 \in 1 .. Len(segments)
        BY <1>1, OpenFacts
    <2>2. QED
        BY <1>1, <2>1, OpenFacts
<1>3. FilesAre(logs, TRUE)
    BY <1>1 DEF State
<1>4. First(logs) + Len(ContentOf(logs)) = z + Len(logs[z])
    BY <1>2, <1>3, ContentHolds
<1>5. First(logs) = segments[1].base /\ First(logs) \in Nat
    BY <1>2, <1>3, FirstIs
<1>6. Len(Content) \in Nat /\ Content \in Seq(Payload)
    BY HeldBefore, LenProperties DEF Holds
<1>7. QED
    BY <1>2, <1>4, <1>5, <1>6, ContentIs

LEMMA SameRecords ==
    ASSUME LogInv, LogInv', First(logs') = First(logs), cuts' = cuts,
           \A o, v : At(logs', o, v) <=> At(logs, o, v)
    PROVE  UNCHANGED Log!vars
<1>1. Holds(logs, Content) /\ Holds(logs', Content')
    BY HeldBefore, HeldAfter
<1> DEFINE C == Content
           C2 == Content'
           L2 == logs'
<1>2. Holds(logs, C) /\ Holds(L2, C2) /\ First(L2) = First(logs)
      /\ \A o, v : At(L2, o, v) <=> At(logs, o, v)
    BY <1>1
<1> HIDE DEF C, C2, L2
<1>3. C2 = C
    BY <1>2, SameContent
<1>4. QED
    BY <1>3, ContentIs DEF Log!vars, C, C2

LEMMA BeginAppendStutters ==
    ASSUME LogInv, LogInv', NEW v \in Payload, BeginAppend(v)
    PROVE  UNCHANGED Log!vars
<1>1. /\ State(logs, indexes, segments) /\ segments # <<>> /\ cuts' = cuts
    BY DEF LogInv, BeginAppend, IsOpen
<1>2. CASE SizeOf(logs[Active.base]) >= MaxSegmentBytes
    <2> DEFINE a == Last(segments).base
               b == Last(segments).nextOffset
    <2>1. logs' = Adding(logs, b, <<>>)
        BY <1>2 DEF BeginAppend, Active
    <2>2. /\ a \in DOMAIN logs /\ a \in Nat /\ FileOK(a, logs[a])
          /\ b = a + Len(logs[a]) /\ \A c \in DOMAIN logs : c <= a
        BY <1>1, OpenFacts, SomeFile DEF State
    <2>3. Len(logs[a]) \in Nat /\ Len(logs[a]) # 0
        <3>1. /\ Len(logs[a]) \in Nat /\ (logs[a] = <<>> => SizeOf(logs[a]) = 0)
              /\ (logs[a] # <<>> <=> Len(logs[a]) # 0)
            BY <2>2, FileFacts
        <3>2. MaxSegmentBytes \in Nat /\ MaxSegmentBytes # 0
            BY DEF LogAssumption
        <3>3. QED
            BY <1>2, <3>1, <3>2 DEF Active
    <2>4. \A c \in DOMAIN logs : c <= b /\ c # b /\ c \in Nat
        <3>1. \A c \in DOMAIN logs : c \in Nat
            BY <1>1, SomeFile DEF State
        <3> HIDE DEF a, b
        <3>2. QED
            BY <2>2, <2>3, <3>1
    <2>5. b \notin DOMAIN logs
        BY <2>4
    <2> HIDE DEF a, b
    <2>6. \A o, x : At(logs', o, x) <=> At(logs, o, x)
        BY <2>1, <2>5, AtWithEmpty
    <2>7. First(logs') = First(logs)
        <3>1. FilesAre(logs, TRUE) /\ DOMAIN logs # {}
            BY <1>1, <2>2 DEF State
        <3>2. \E open : FilesAre(logs', open)
            BY DEF LogInv, State
        <3>3. DOMAIN logs' = DOMAIN logs \cup {b}
            BY <2>1 DEF Adding
        <3>4. First(logs) \in DOMAIN logs /\ \A c \in DOMAIN logs : First(logs) <= c
            BY <3>1, FirstIs
        <3>5. First(logs) \in DOMAIN logs' /\ \A c \in DOMAIN logs' : First(logs) <= c
            BY <2>4, <3>3, <3>4
        <3>6. QED
            BY <3>2, <3>5, FirstIs
    <2>8. QED
        BY <1>1, <2>6, <2>7, SameRecords
<1>3. CASE ~(SizeOf(logs[Active.base]) >= MaxSegmentBytes)
    <2>1. logs' = logs
        BY <1>3 DEF BeginAppend
    <2>2. QED
        BY <1>1, <2>1, SameRecords
<1>4. QED
    BY <1>2, <1>3

LEMMA WriteRecordAppends ==
    ASSUME LogInv, LogInv', WriteRecord
    PROVE  Log!Append1
<1> DEFINE a == Last(segments).base
           r == Record(payload, FALSE)
           L2 == logs'
           C == Content
           C2 == Content'
<1>1. State(logs, indexes, segments) /\ segments # <<>> /\ payload \in Payload /\ cuts' = cuts
    BY DEF LogInv, CallOK, WriteRecord, IsOpen
<1>2. /\ a \in DOMAIN logs /\ a \in Nat /\ Last(segments) \in Segment /\ FilesAre(logs, TRUE)
      /\ Last(segments).nextOffset = a + Len(logs[a])
    <2>1. FilesAre(logs, TRUE)
        BY <1>1 DEF State
    <2>2. /\ Last(segments).base \in DOMAIN logs /\ Last(segments).base \in Nat
          /\ Last(segments) \in Segment
          /\ Last(segments).nextOffset = Last(segments).base + Len(logs[Last(segments).base])
        BY <1>1, OpenFacts
    <2>3. QED
        BY <2>1, <2>2
<1>3. /\ r = [offset |-> Last(segments).nextOffset, position |-> SizeOf(logs[a]),
              size |-> payload, torn |-> FALSE]
      /\ logs' = [logs EXCEPT ![a] = Append(@, r)]
    BY DEF WriteRecord, Record, Active
<1>4. SizeOf(logs[a]) \in Nat
    BY <1>2, SomeFile, FileFacts
<1>5. /\ r \in LogRecord /\ r.offset = a + Len(logs[a]) /\ r.position = SizeOf(logs[a])
      /\ ~r.torn /\ r.size = payload /\ r.offset = Last(segments).nextOffset
    <2>1. Last(segments).nextOffset \in Nat /\ FALSE \in BOOLEAN
        BY <1>2 DEF Segment
    <2> HIDE DEF r, a
    <2>2. QED
        BY <1>1, <1>2, <1>3, <1>4, <2>1 DEF LogRecord
<1> HIDE DEF r, a
<1>6. \A o, v : At([logs EXCEPT ![a] = Append(@, r)], o, v)
                  <=> At(logs, o, v) \/ (o = r.offset /\ v = payload)
    <2>1. FilesAre(logs, TRUE) /\ a \in DOMAIN logs
        BY <1>2
    <2>2. r \in LogRecord /\ r.offset = a + Len(logs[a]) /\ r.position = SizeOf(logs[a])
        BY <1>5
    <2>3. \A o, v : At([logs EXCEPT ![a] = Append(@, r)], o, v)
                      <=> At(logs, o, v) \/ (~r.torn /\ o = r.offset /\ v = r.size)
        BY <2>1, <2>2, AtAppended
    <2>4. QED
        BY Zenon, <1>5, <2>3
<1>7. First(logs') = First(logs)
    <2>1. DOMAIN logs' = DOMAIN logs
        BY <1>3
    <2>2. QED
        BY <2>1 DEF First
<1>8. /\ FirstOffset + Len(Content) = Last(segments).nextOffset
    BY <1>1, EndIs
<1>9. /\ Holds(logs, C) /\ Holds(L2, C2) /\ First(L2) = First(logs)
      /\ \A o, v : At(L2, o, v) <=> At(logs, o, v) \/ (o = First(logs) + Len(C) /\ v = payload)
    BY <1>3, <1>5, <1>6, <1>7, <1>8, HeldBefore, HeldAfter, ContentIs
<1> HIDE DEF L2, C, C2
<1>10. C2 = Append(C, payload)
    BY <1>1, <1>9, OneMore
<1>11. QED
    BY <1>1, <1>7, <1>10, ContentIs DEF Log!Append1, C, C2

LEMMA OldestExpires ==
    ASSUME LogInv, LogInv', segments # <<>>, Len(segments) > 1, cuts' = cuts,
           logs' = Restrict(logs, DOMAIN logs \ {segments[1].base})
    PROVE  Log!Expire
<1> DEFINE b == segments[1].base
           L2 == Restrict(logs, DOMAIN logs \ {b})
           C == Content
           C2 == Content'
           hi == FirstOffset + Len(Content)
           n == Len(logs[b])
<1>1. State(logs, indexes, segments)
    BY DEF LogInv
<1>2. /\ First(logs) = b /\ First(L2) = b + n /\ n \in Nat \ {0}
      /\ \A o, v : At(L2, o, v) <=> At(logs, o, v) /\ First(L2) <= o
    BY <1>1, AtDropped
<1>3. /\ hi = Last(segments).nextOffset /\ FirstOffset \in Nat /\ Len(Content) \in Nat
      /\ Content \in Seq(Payload) /\ FirstOffset = b
    BY EndIs
<1>4. Holds(logs, C) /\ Holds(L2, C2)
    BY HeldBefore, HeldAfter
<1>5. First(L2) <= hi
    <2> DEFINE z == Last(segments).base
    <2>1. /\ Len(segments) \in Nat /\ Last(segments) = segments[Len(segments)]
          /\ DOMAIN segments = 1 .. Len(segments)
          /\ z \in DOMAIN logs /\ z \in Nat /\ Last(segments).nextOffset = z + Len(logs[z])
          /\ b \in DOMAIN logs
        <3>1. 1 \in 1 .. Len(segments)
            BY <1>1, OpenFacts
        <3>2. QED
            BY <1>1, <3>1, OpenFacts
    <2>2. 1 \in DOMAIN segments /\ Len(segments) \in DOMAIN segments /\ 1 < Len(segments)
        BY <2>1
    <2>3. b < z
        BY <1>1, <2>1, <2>2 DEF State, SegmentsAre
    <2>4. b + n <= z
        BY <1>1, <2>1, <2>3 DEF State, FilesAre
    <2>5. Len(logs[z]) \in Nat /\ b \in Nat /\ n \in Nat
        BY <1>1, <2>1, SomeFile DEF State
    <2> HIDE DEF n, z, b, hi, L2
    <2>6. QED
        BY <1>2, <1>3, <2>1, <2>4, <2>5
<1>6. First(logs) = FirstOffset /\ First(logs') = FirstOffset' /\ logs' = L2
    BY ContentIs
<1>7. \A o, v : At(L2, o, v) <=> At(logs, o, v) /\ First(L2) <= o /\ o < hi
    <2>1. \A o, v : At(logs, o, v) => o \in FirstOffset .. FirstOffset + Len(C) - 1
        BY <1>4, <1>6 DEF Holds
    <2>2. \A o \in FirstOffset .. FirstOffset + Len(C) - 1 : o < hi
        BY <1>3
    <2> HIDE DEF hi, C, L2
    <2>3. QED
        BY <1>2, <2>1, <2>2
<1> HIDE DEF L2, C, C2, b, n
<1>8. /\ hi \in Nat /\ hi <= First(logs) + Len(C) /\ First(logs) <= First(L2)
      /\ hi - First(logs) = Len(C) /\ First(L2) - First(logs) + 1 = n + 1
      /\ FirstOffset' = FirstOffset + n /\ n \in 1 .. Len(C)
    BY <1>2, <1>3, <1>5, <1>6 DEF C
<1> HIDE DEF hi
<1>9. C2 = SubSeq(C, First(L2) - First(logs) + 1, hi - First(logs))
    <2>1. hi \in Nat /\ hi <= First(logs) + Len(C) /\ First(logs) <= First(L2)
        BY <1>8
    <2>2. QED
        BY <1>4, <1>5, <1>7, <2>1, Slice
<1>10. C2 = SubSeq(C, n + 1, Len(C))
    BY <1>8, <1>9
<1>11. QED
    BY <1>8, <1>10 DEF Log!Expire, C, C2

\* A log that is cut at an offset.
LEMMA CutTruncates ==
    ASSUME LogInv, LogInv', segments # <<>>, NEW offset \in Nat,
           FirstOffset <= offset, offset <= Last(segments).nextOffset,
           cuts' = cuts + 1, First(logs') = First(logs),
           \A o, v : At(logs', o, v) <=> At(logs, o, v) /\ o < offset
    PROVE  Log!Truncate
<1> DEFINE C == Content
           C2 == Content'
           L2 == logs'
<1>1. /\ FirstOffset + Len(C) = Last(segments).nextOffset /\ FirstOffset \in Nat
      /\ Len(C) \in Nat /\ C \in Seq(Payload)
    BY EndIs
<1>2. Holds(logs, C) /\ Holds(L2, C2)
    BY HeldBefore, HeldAfter
<1>3. First(logs) = FirstOffset /\ First(L2) = FirstOffset /\ FirstOffset' = FirstOffset
    BY ContentIs
<1>4. \A o, v : At(L2, o, v) <=> At(logs, o, v) /\ First(L2) <= o /\ o < offset
    <2>1. \A o, v : At(logs, o, v) => o \in FirstOffset .. FirstOffset + Len(C) - 1
        BY <1>2, <1>3 DEF Holds
    <2>2. \A o \in FirstOffset .. FirstOffset + Len(C) - 1 : FirstOffset <= o
        BY <1>1
    <2> HIDE DEF C
    <2>3. QED
        BY <1>3, <2>1, <2>2
<1> HIDE DEF C, C2, L2
<1>5. /\ First(logs) <= First(L2) /\ First(L2) <= offset /\ offset <= First(logs) + Len(C)
      /\ First(L2) - First(logs) + 1 = 1 /\ offset - First(logs) \in 0 .. Len(C)
    BY <1>1, <1>3
<1>6. C2 = SubSeq(C, First(L2) - First(logs) + 1, offset - First(logs))
    BY <1>2, <1>4, <1>5, Slice
<1>7. C2 = SubSeq(C, 1, offset - First(logs))
    BY <1>5, <1>6
<1>8. QED
    BY <1>3, <1>5, <1>7 DEF Log!Truncate, C, C2

LEMMA TruncateTruncates ==
    ASSUME LogInv, LogInv', NEW offset \in Nat, Truncate(offset)
    PROVE  Log!Truncate
<1>1. State(logs, indexes, segments) /\ segments # <<>> /\ cuts' = cuts + 1
    BY DEF LogInv, Truncate, IsOpen
<1>2. logs' = CutTo(logs, offset)
    BY Zenon DEF Truncate, CutTo
<1>3. FirstOffset < offset /\ offset <= Last(segments).nextOffset /\ FirstOffset = segments[1].base
    <2>1. offset \in segments[1].base + 1 .. Last(segments).nextOffset
        BY DEF Truncate, Active
    <2>2. FirstOffset = segments[1].base /\ FirstOffset \in Nat
        BY <1>1, EndIs
    <2>3. Last(segments).nextOffset \in Nat
        BY <1>1, OpenFacts DEF Segment
    <2>4. QED
        BY <2>1, <2>2, <2>3
<1>4. FilesAre(logs, TRUE) /\ IndexesAre(logs, indexes)
    BY <1>1 DEF State
<1>5. segments[1].base \in DOMAIN logs /\ DOMAIN logs \subseteq DOMAIN indexes
    <2>1. 1 \in 1 .. Len(segments)
        BY <1>1, OpenFacts
    <2>2. QED
        BY <1>1, <2>1, OpenFacts
<1>6. /\ First(CutTo(logs, offset)) = First(logs)
      /\ \A o, v : At(CutTo(logs, offset), o, v) <=> At(logs, o, v) /\ o < offset
    <2>1. segments[1].base < offset
        BY <1>3
    <2>2. QED
        BY <1>4, <1>5, <2>1, AtCut
<1>7. FirstOffset <= offset
    BY <1>1, <1>3, EndIs
<1>8. QED
    BY <1>1, <1>2, <1>3, <1>6, <1>7, CutTruncates

LEMMA TruncateAllTruncates ==
    ASSUME LogInv, LogInv', TruncateAll
    PROVE  Log!Truncate
<1> DEFINE b == segments[1].base
<1>1. State(logs, indexes, segments) /\ segments # <<>> /\ cuts' = cuts + 1
    BY DEF LogInv, TruncateAll, IsOpen
<1>2. logs' = EmptiedLogs(b)
    BY Zenon DEF TruncateAll, EmptiedLogs
<1>3. FirstOffset = b /\ FirstOffset \in Nat /\ First(logs) = FirstOffset
      /\ b <= Last(segments).nextOffset
    <2>1. FirstOffset = b /\ FirstOffset \in Nat /\ Len(Content) \in Nat
          /\ FirstOffset + Len(Content) = Last(segments).nextOffset
        BY <1>1, EndIs
    <2>2. QED
        BY <2>1, ContentIs
<1>4. DOMAIN logs' = {b} /\ logs'[b] = <<>>
    BY <1>2 DEF EmptiedLogs
<1>5. First(logs') = b
    <2>1. \E open : FilesAre(logs', open)
        BY DEF LogInv, State
    <2>2. \A c \in DOMAIN logs' : b <= c
        BY <1>3, <1>4
    <2>3. QED
        BY <1>4, <2>1, <2>2, FirstIs
<1>6. \A o, v : ~At(logs', o, v)
    <2>1. DOMAIN <<>> = {}
        BY EmptySeq
    <2>2. QED
        BY <1>4, <2>1 DEF At
<1>7. \A o, v : At(logs, o, v) => ~(o < b)
    <2>1. \A o, v : At(logs, o, v) => o \in First(logs) .. First(logs) + Len(Content) - 1
        BY HeldBefore DEF Holds
    <2>2. \A o \in First(logs) .. First(logs) + Len(Content) - 1 : ~(o < b)
        <3>1. b \in Nat /\ Len(Content) \in Nat /\ First(logs) = b
            BY <1>1, <1>3, EndIs
        <3> HIDE DEF b
        <3>2. QED
            BY <3>1
    <2>3. QED
        BY <2>1, <2>2
<1>8. \A o, v : At(logs', o, v) <=> At(logs, o, v) /\ o < b
    BY <1>6, <1>7
<1>9. b \in Nat /\ FirstOffset <= b /\ First(logs') = First(logs)
    BY <1>3, <1>5
<1> HIDE DEF b
<1>10. QED
    BY <1>1, <1>3, <1>8, <1>9, CutTruncates

LEMMA OpenLogStutters ==
    ASSUME LogInv, LogInv', OpenLog
    PROVE  UNCHANGED Log!vars
<1> DEFINE found == IF DOMAIN logs = {} THEN Adding(logs, 0, <<>>) ELSE logs
<1>1. State(logs, indexes, segments) /\ segments = <<>> /\ cuts' = cuts
    BY DEF LogInv, OpenLog, IsOpen
<1>2. FilesAre(logs, FALSE) /\ IndexesAre(logs, indexes)
    BY <1>1 DEF State
<1>3. FilesAre(found, FALSE) /\ IndexesAre(found, indexes)
    BY <1>2, FirstFile
<1>4. First(found) = First(logs) /\ \A o, v : At(found, o, v) <=> At(logs, o, v)
    <2>1. CASE DOMAIN logs = {}
        <3>1. found = Adding(logs, 0, <<>>)
            BY <2>1
        <3> HIDE DEF found
        <3>2. \A o, v : At(found, o, v) <=> At(logs, o, v)
            BY <2>1, <3>1, AtWithEmpty
        <3>3. DOMAIN found = {0}
            BY <2>1, <3>1 DEF Adding
        <3>4. 0 \in DOMAIN found /\ \A c \in DOMAIN found : 0 <= c
            BY <3>3
        <3>5. First(found) = 0
            BY <1>3, <3>4, FirstIs
        <3>6. First(logs) = 0
            BY <2>1 DEF First
        <3>7. QED
            BY <3>2, <3>5, <3>6
    <2>2. CASE DOMAIN logs # {}
        BY <2>2
    <2>3. QED
        BY <2>1, <2>2
<1>5. logs' = OpenedLogs(found, indexes)
    BY Zenon DEF OpenLog, OpenedLogs, Reopened, IndexOf, Entries
<1> HIDE DEF found
<1>6. /\ First(OpenedLogs(found, indexes)) = First(found)
      /\ \A o, v : At(OpenedLogs(found, indexes), o, v) <=> At(found, o, v)
    BY <1>3, AtOpened
<1>7. First(logs') = First(logs) /\ \A o, v : At(logs', o, v) <=> At(logs, o, v)
    BY <1>4, <1>5, <1>6
<1>8. QED
    BY <1>1, <1>7, SameRecords

LEMMA DieKeepsLog ==
    ASSUME LogInv, LogInv', Die
    PROVE  [Log!Next]_(Log!vars)
<1>1. /\ State(logs, indexes, segments) /\ segments # <<>> /\ cuts' = cuts
      /\ (logPc = "write" => payload \in Payload)
      /\ (logPc = "delete" => Len(segments) > 1)
    <2>1. /\ State(logs, indexes, segments) /\ segments # <<>> /\ cuts' = cuts
          /\ (logPc = "write" => payload \in Payload)
          /\ expired \in Nat /\ (logPc = "delete" => expired # 0 /\ expired < Len(segments))
        BY DEF LogInv, CallOK, Die, IsOpen
    <2>2. Len(segments) \in Nat
        BY <2>1, OpenFacts
    <2>3. QED
        BY <2>1, <2>2
<1>2. CASE logs' = logs
    <2>1. UNCHANGED Log!vars
        BY <1>1, <1>2, SameRecords
    <2>2. QED
        BY <2>1
<1>3. CASE logPc = "write" /\ logs' = [logs EXCEPT ![Active.base] = Append(@, Record(payload, TRUE))]
    <2> DEFINE a == Last(segments).base
               r == Record(payload, TRUE)
    <2>1. r = [offset |-> Last(segments).nextOffset, position |-> SizeOf(logs[a]),
               size |-> payload, torn |-> TRUE]
        BY DEF Record, Active
    <2>2. /\ a \in DOMAIN logs /\ Last(segments).nextOffset \in Nat
          /\ Last(segments).nextOffset = a + Len(logs[a])
        BY <1>1, OpenFacts DEF Segment
    <2>3. FilesAre(logs, TRUE)
        BY <1>1 DEF State
    <2>4. SizeOf(logs[a]) \in Nat
        BY <2>2, <2>3, SomeFile, FileFacts
    <2>5. logs' = [logs EXCEPT ![a] = Append(@, r)]
        BY <1>3 DEF Active
    <2> HIDE DEF r, a
    <2>6. /\ r \in LogRecord /\ r.offset = a + Len(logs[a]) /\ r.position = SizeOf(logs[a]) /\ r.torn
        BY <1>1, <1>3, <2>1, <2>2, <2>4 DEF LogRecord
    <2>7. \A o, v : At([logs EXCEPT ![a] = Append(@, r)], o, v) <=> At(logs, o, v)
        BY <2>2, <2>3, <2>6, AtAppended
    <2>8. First(logs') = First(logs)
        BY <2>5 DEF First
    <2>9. UNCHANGED Log!vars
        BY <1>1, <2>5, <2>7, <2>8, SameRecords
    <2>10. QED
        BY <2>9
<1>4. CASE logPc = "delete" /\ logs' = Restrict(logs, DOMAIN logs \ {segments[1].base})
    <2>1. Log!Expire
        BY <1>1, <1>4, OldestExpires
    <2>2. QED
        BY <2>1 DEF Log!Next
<1>5. QED
    BY <1>2, <1>3, <1>4 DEF Die

LEMMA DeleteOldestExpires ==
    ASSUME LogInv, LogInv', DeleteOldest
    PROVE  Log!Expire
<1>1. /\ State(logs, indexes, segments) /\ segments # <<>> /\ cuts' = cuts
      /\ expired \in Nat /\ expired # 0 /\ expired < Len(segments)
    BY DEF LogInv, CallOK, DeleteOldest, IsOpen
<1>2. Len(segments) \in Nat /\ segments \in Seq(Segment)
    BY <1>1, OpenFacts DEF State, SegmentsAre
<1>3. Len(segments) > 1
    BY <1>1, <1>2
<1>4. Head(segments) = segments[1]
    <2>1. SubSeq(segments, 1, Len(segments)) = segments
        BY <1>2, SubSeqFull
    <2>2. 1 \in 1 .. Len(segments) /\ Len(segments) \in 1 .. Len(segments)
        BY <1>2, <1>3
    <2>3. QED
        BY <1>2, <2>1, <2>2, HeadTailOfSubSeq
<1>5. logs' = Restrict(logs, DOMAIN logs \ {segments[1].base})
    BY <1>4 DEF DeleteOldest
<1>6. QED
    BY <1>1, <1>3, <1>5, OldestExpires

LEMMA LogStepImplements == LogInv /\ LogInv' /\ [LogNext]_logVars => [Log!Next]_(Log!vars)
<1> SUFFICES ASSUME LogInv, LogInv', [LogNext]_logVars PROVE [Log!Next]_(Log!vars)
    OBVIOUS
<1>1. ASSUME logs' = logs, cuts' = cuts PROVE UNCHANGED Log!vars
    BY <1>1, SameRecords
<1>2. CASE \E v \in Payload : BeginAppend(v)
    <2>1. UNCHANGED Log!vars
        BY <1>2, BeginAppendStutters
    <2>2. QED
        BY <2>1
<1>3. CASE WriteRecord
    BY <1>3, WriteRecordAppends DEF Log!Next
<1>4. CASE WriteIndexEntry
    <2>1. UNCHANGED Log!vars
        BY <1>1, <1>4 DEF WriteIndexEntry
    <2>2. QED
        BY <2>1
<1>5. CASE DeleteOldest
    BY <1>5, DeleteOldestExpires DEF Log!Next
<1>6. CASE \E n \in 0 .. Len(segments) : ApplyRetention(n)
    <2>1. logs' = logs /\ cuts' = cuts
        BY <1>6 DEF ApplyRetention, files
    <2>2. UNCHANGED Log!vars
        BY <1>1, <2>1
    <2>3. QED
        BY <2>2
<1>7. CASE \E offset \in 1 .. MaxOffset : Truncate(offset)
    <2>1. PICK offset \in 1 .. MaxOffset : Truncate(offset)
        BY <1>7
    <2>2. offset \in Nat
        OBVIOUS
    <2>3. QED
        BY <2>1, <2>2, TruncateTruncates DEF Log!Next
<1>8. CASE TruncateAll
    BY <1>8, TruncateAllTruncates DEF Log!Next
<1>9. CASE OpenLog
    <2>1. UNCHANGED Log!vars
        BY <1>9, OpenLogStutters
    <2>2. QED
        BY <2>1
<1>10. CASE CloseLog
    <2>1. logs' = logs /\ cuts' = cuts
        BY <1>10 DEF CloseLog, files
    <2>2. UNCHANGED Log!vars
        BY <1>1, <2>1
    <2>3. QED
        BY <2>2
<1>11. CASE Die
    BY <1>11, DieKeepsLog
<1>12. CASE UNCHANGED logVars
    <2>1. logs' = logs /\ cuts' = cuts
        BY <1>12 DEF logVars, files
    <2>2. UNCHANGED Log!vars
        BY <1>1, <2>1
    <2>3. QED
        BY <2>2
<1>13. QED
    BY <1>2, <1>3, <1>4, <1>5, <1>6, <1>7, <1>8, <1>9, <1>10, <1>11, <1>12 DEF LogNext

LEMMA LogInitImplements == LogInit => Log!Init
<1> SUFFICES ASSUME LogInit PROVE Log!Init
    OBVIOUS
<1>1. DOMAIN logs = {} /\ cuts = 0
    <2>1. DOMAIN <<>> = {}
        OBVIOUS
    <2>2. QED
        BY <2>1 DEF LogInit
<1>2. FilesAre(logs, segments # <<>>)
    BY LogInvInit DEF LogInv, State
<1>3. ContentOf(logs) = <<>>
    BY <1>1, <1>2, ContentHolds
<1>4. Content = <<>> /\ FirstOffset = 0
    BY <1>1, <1>3, ContentIs DEF FirstOffset
<1>5. QED
    BY <1>1, <1>4 DEF Log!Init

\* A partition is a sequence that grows at its end, is cut there by truncation alone, and
\* loses records at its front to retention: no roll, death or recovery changes it, for
\* any number and size of records, segments and calls.
THEOREM KeepsTheLog == LogSpec => KeepsLog
<1>1. LogInit => Log!Init
    BY LogInitImplements
<1>2. LogInv /\ LogInv' /\ [LogNext]_logVars => [Log!Next]_(Log!vars)
    BY LogStepImplements
<1>3. LogSpec => []LogInv
    BY LogInvAlways
<1>4. QED
    BY <1>1, <1>2, <1>3, PTL DEF LogSpec, KeepsLog, Log!Spec

-----------------------------------------------------------------------------
(* What reads find.                                                         *)

LEMMA LesserOf ==
    ASSUME NEW m \in Nat, NEW n \in Nat
    PROVE  Min({m, n}) = IF m <= n THEN m ELSE n
<1>1. {m, n} \in SUBSET Nat /\ {m, n} # {}
    OBVIOUS
<1>2. Min({m, n}) \in {m, n} /\ Min({m, n}) <= m /\ Min({m, n}) <= n
    BY <1>1, MinIsLeast
<1>3. QED
    BY <1>2

\* The segment that has an offset of the log.
LEMMA SegmentForIs ==
    ASSUME LogInv, segments # <<>>, NEW o \in FirstOffset .. FirstOffset + Len(Content) - 1
    PROVE  /\ SegmentFor(o) \in DOMAIN segments /\ SegmentFor(o) # 0
           /\ segments[SegmentFor(o)].base <= o /\ o < segments[SegmentFor(o)].nextOffset
<1> DEFINE before == {i \in DOMAIN segments : segments[i].base <= o}
           j == Max(before)
           n == Len(segments)
<1>1. /\ State(logs, indexes, segments) /\ n \in Nat \ {0} /\ DOMAIN segments = 1 .. n
      /\ \A i \in 1 .. n : segments[i] \in Segment
      /\ Last(segments) = segments[n]
    BY OpenFacts DEF LogInv
<1>2. /\ FirstOffset + Len(Content) = Last(segments).nextOffset
      /\ FirstOffset = segments[1].base /\ FirstOffset \in Nat /\ Len(Content) \in Nat
    BY EndIs
<1>3. o \in Nat /\ FirstOffset <= o /\ o < FirstOffset + Len(Content)
    BY <1>2
<1>4. /\ 1 \in DOMAIN segments /\ n \in DOMAIN segments
    BY <1>1
<1>5. 1 \in before /\ before \in SUBSET (1 .. n)
    BY <1>1, <1>2, <1>3, <1>4
<1>6. IsFiniteSet(before) /\ before \in SUBSET Nat /\ before # {}
    <2>1. IsFiniteSet(1 .. n)
        BY <1>1, FirstNumbers
    <2> HIDE DEF before, n
    <2>2. IsFiniteSet(before)
        BY <1>5, <2>1, FS_Subset
    <2>3. \A i \in 1 .. n : i \in Nat
        BY <1>1
    <2>4. QED
        BY <1>5, <2>2, <2>3
<1>7. j \in before /\ \A i \in before : j >= i
    <2> HIDE DEF before
    <2>1. QED
        BY <1>6, MaxIsGreatest
<1>8. j \in DOMAIN segments /\ segments[j].base <= o /\ j \in 1 .. n
    BY <1>1, <1>7
<1>9. o < segments[j].nextOffset
    <2>1. CASE j = n
        BY <1>1, <1>2, <1>3, <2>1
    <2>2. CASE j # n
        <3>1. j \in 1 .. n - 1 /\ j + 1 \in 1 .. n
            BY <1>1, <1>8, <2>2
        <3>2. segments[j].nextOffset = segments[j + 1].base
            BY <3>1, LogInvTypes DEF LogTypeOK
        <3>3. j + 1 \notin before
            <4>1. j \in Nat /\ ~(j >= j + 1)
                BY <1>8
            <4> HIDE DEF before, j
            <4>2. QED
                BY <1>7, <4>1
        <3>4. ~(segments[j + 1].base <= o)
            BY <1>1, <3>1, <3>3
        <3>5. segments[j + 1].base \in Nat
            BY <1>1, <3>1 DEF Segment
        <3> HIDE DEF before, j
        <3>6. QED
            BY <1>3, <3>2, <3>4, <3>5
    <2>3. QED
        BY <2>1, <2>2
<1>10. SegmentFor(o) = j
    <2>1. before # {} /\ o < segments[Max(before)].nextOffset
        BY <1>6, <1>9
    <2>2. QED
        BY <2>1 DEF SegmentFor
<1> HIDE DEF j
<1>11. j # 0
    BY <1>8
<1>12. QED
    BY <1>8, <1>9, <1>10, <1>11

\* The scan for an offset begins at its record or before it.
LEMMA ScanFromIs ==
    ASSUME LogInv, segments # <<>>, NEW b \in DOMAIN logs, NEW o \in Nat,
           o - b + 1 \in 1 .. Len(logs[b])
    PROVE  ScanFrom(b, o) \in 1 .. o - b + 1
<1> DEFINE index == IndexOf(b)
           upTo == {i \in DOMAIN index : index[i].offset <= o}
           e == index[Max(upTo)]
           k == e.offset - b + 1
<1>1. /\ b \in Nat /\ FileOK(b, logs[b]) /\ Len(logs[b]) \in Nat /\ DOMAIN logs[b] = 1 .. Len(logs[b])
    BY SomeFile DEF LogInv, State
<1>2. IndexOK(logs[b], index)
    BY DEF LogInv, State, IndexesAre, Entries, IndexOf
<1> HIDE DEF index
<1>3. /\ Len(index) \in Nat /\ DOMAIN index = 1 .. Len(index)
      /\ \A i \in DOMAIN index :
                /\ index[i].offset \in Nat
                /\ index[i].offset - b + 1 \in DOMAIN logs[b]
                /\ logs[b][index[i].offset - b + 1].position = index[i].position
    <2>1. b \in Nat /\ FileOK(b, logs[b])
        BY <1>1
    <2>2. QED
        BY SMTT(20), <1>2, <2>1, IndexFacts
<1>4. CASE upTo = {}
    <2>1. ScanFrom(b, o) = 1
        BY <1>4 DEF ScanFrom, index
    <2>2. QED
        BY <1>1, <2>1
<1>5. CASE upTo # {}
    <2>1. IsFiniteSet(upTo) /\ upTo \in SUBSET Nat
        <3>1. IsFiniteSet(1 .. Len(index)) /\ upTo \in SUBSET (1 .. Len(index))
            BY <1>3, FirstNumbers
        <3> HIDE DEF upTo
        <3>2. IsFiniteSet(upTo)
            BY <3>1, FS_Subset
        <3>3. QED
            BY <1>3, <3>1, <3>2
    <2>2. Max(upTo) \in upTo
        <3> HIDE DEF upTo
        <3>1. QED
            BY <1>5, <2>1, MaxIsGreatest
    <2>3. Max(upTo) \in DOMAIN index /\ e.offset <= o
        BY <2>2
    <2>4. ScanFrom(b, o) = RecordAt(logs[b], e.position)
        BY <1>5 DEF ScanFrom, index
    <2> HIDE DEF upTo
    <2>5. k \in DOMAIN logs[b] /\ logs[b][k].position = e.position /\ e.offset \in Nat
        BY <1>3, <2>3
    <2> HIDE DEF k, e
    <2>6. RecordAt(logs[b], logs[b][k].position) = k
        BY <1>1, <2>5, RecordAtIs
    <2>7. ScanFrom(b, o) = k
        BY <2>4, <2>5, <2>6
    <2>8. k \in 1 .. o - b + 1
        BY <1>1, <2>3, <2>5 DEF k
    <2>9. QED
        BY <2>7, <2>8
<1>6. QED
    BY <1>4, <1>5

LEMMA ReadIs ==
    ASSUME LogInv, segments # <<>>, NEW o \in FirstOffset .. FirstOffset + Len(Content) - 1
    PROVE  Read(o) = Content[o - FirstOffset + 1]
<1> DEFINE j == SegmentFor(o)
           b == segments[j].base
           log == logs[b]
           k == o - b + 1
           later == {i \in ScanFrom(b, o) .. Len(log) : log[i].offset >= o}
<1>1. State(logs, indexes, segments)
    BY DEF LogInv
<1>2. j \in DOMAIN segments /\ j # 0 /\ b <= o /\ o < segments[j].nextOffset
    BY SegmentForIs
<1>3. b \in DOMAIN logs /\ segments[j].nextOffset = b + Len(log)
    BY SMTT(20), <1>1, <1>2, OpenFacts
<1>4. /\ b \in Nat /\ FileOK(b, log) /\ Len(log) \in Nat /\ DOMAIN log = 1 .. Len(log)
      /\ \A i \in DOMAIN log : log[i].offset = b + i - 1
    BY <1>1, <1>3, SomeFile, FileFacts DEF State
<1>5. o \in Nat
    BY EndIs
<1>6. Read(o) = IF later # {} /\ log[Min(later)].offset = o THEN log[Min(later)].size ELSE Torn
    BY <1>2 DEF Read
<1> HIDE DEF j
<1>7. k \in 1 .. Len(log) /\ k \in DOMAIN log
    <2> HIDE DEF b, log
    <2>1. QED
        BY <1>2, <1>3, <1>4, <1>5
<1>8. ScanFrom(b, o) \in 1 .. k
    <2>1. o - b + 1 \in 1 .. Len(logs[b])
        BY <1>7
    <2> HIDE DEF b
    <2>2. QED
        BY <1>3, <1>5, <2>1, ScanFromIs
<1> HIDE DEF b, log
<1>9. log[k].offset = o
    <2>1. log[k].offset = b + k - 1
        BY <1>4, <1>7
    <2>2. QED
        BY <1>4, <1>5, <2>1
<1>10. k \in later /\ \A i \in later : k <= i /\ i \in Nat
    <2>1. log[k].offset = o /\ k \in Nat
        BY <1>4, <1>5, <1>7, <1>9
    <2>2. k \in ScanFrom(b, o) .. Len(log)
        <3> HIDE DEF k
        <3>1. QED
            BY <1>4, <1>7, <1>8
    <2>3. \A i \in ScanFrom(b, o) .. Len(log) : log[i].offset >= o => k <= i /\ i \in Nat
        <3> TAKE i \in ScanFrom(b, o) .. Len(log)
        <3>1. i \in 1 .. Len(log) /\ i \in Nat
            <4> HIDE DEF k
            <4>1. QED
                BY <1>4, <1>7, <1>8
        <3>2. log[i].offset = b + i - 1
            BY <1>4, <3>1
        <3>3. QED
            BY <1>4, <1>5, <3>1, <3>2
    <2>4. log[k].offset >= o
        BY <1>5, <2>1
    <2> HIDE DEF k
    <2>5. QED
        BY <2>2, <2>3, <2>4
<1>11. Min(later) = k
    <2> HIDE DEF later, k
    <2>1. later \in SUBSET Nat /\ later # {}
        BY <1>10
    <2>2. Min(later) \in later /\ Min(later) <= k
        BY <1>10, <2>1, MinIsLeast
    <2>3. QED
        BY <1>10, <2>2
<1> HIDE DEF later, k
<1>12. Read(o) = log[k].size
    BY <1>6, <1>10, <1>11, <1>9
<1>13. At(logs, o, log[k].size)
    <2>1. ~log[k].torn
        BY <1>1, <1>3, <1>7, OpenFacts DEF log
    <2>2. QED
        BY <1>3, <1>7, <1>9, <2>1 DEF At, log
<1>14. log[k].size = Content[o - FirstOffset + 1]
    BY <1>13, HeldBefore, ContentIs DEF Holds
<1>15. QED
    BY <1>12, <1>14

\* The places of an open log: one for every offset.
LEMMA OpenPlaces ==
    ASSUME LogInv, segments # <<>>
    PROVE  LET P == PlacesIn(logs, DOMAIN logs)
               end == FirstOffset + Len(Content)
           IN  /\ \A p \in P : /\ OffsetAt(logs, p) \in FirstOffset .. end - 1
                               /\ At(logs, OffsetAt(logs, p), logs[p[1]][p[2]].size)
               /\ \A o \in FirstOffset .. end - 1 : \E p \in P : OffsetAt(logs, p) = o
<1> DEFINE P == PlacesIn(logs, DOMAIN logs)
           end == FirstOffset + Len(Content)
           z == Last(segments).base
           m == Len(logs[z])
<1>1. State(logs, indexes, segments) /\ FilesAre(logs, TRUE)
    BY DEF LogInv, State
<1>2. /\ z \in DOMAIN logs /\ z \in Nat /\ \A c \in DOMAIN logs : c <= z
      /\ Last(segments).nextOffset = z + m
      /\ \A b \in DOMAIN logs : \A i \in DOMAIN logs[b] : ~logs[b][i].torn
    BY <1>1, OpenFacts
<1>3. m \in Nat /\ DOMAIN logs[z] = 1 .. m
    BY <1>1, <1>2, SomeFile
<1>4. m \in 0 .. Len(logs[z]) /\ \A i \in 1 .. Len(logs[z]) : ~logs[z][i].torn <=> i <= m
    BY <1>2, <1>3
<1>5. /\ \A p \in WholePlaces(logs) : OffsetAt(logs, p) \in First(logs) .. z + m - 1
      /\ \A o \in First(logs) .. z + m - 1 : \E p \in WholePlaces(logs) : OffsetAt(logs, p) = o
    <2> HIDE DEF z, m
    <2>1. QED
        BY <1>1, <1>2, <1>4, Coverage DEF m
<1>6. end = z + m /\ First(logs) = FirstOffset /\ end - 1 = z + m - 1
    BY <1>2, <1>3, EndIs, ContentIs
<1>7. \A p \in P : p \in WholePlaces(logs) /\ At(logs, OffsetAt(logs, p), logs[p[1]][p[2]].size)
    <2> TAKE p \in P
    <2>1. p[1] \in DOMAIN logs /\ p[2] \in DOMAIN logs[p[1]]
        BY <1>1, PlaceIs
    <2>2. ~logs[p[1]][p[2]].torn
        BY <1>2, <2>1
    <2>3. p \in WholePlaces(logs)
        BY <2>2 DEF WholePlaces
    <2>4. At(logs, OffsetAt(logs, p), logs[p[1]][p[2]].size)
        BY <2>3, AtIs
    <2>5. QED
        BY <2>3, <2>4
<1>8. WholePlaces(logs) \subseteq P
    BY DEF WholePlaces
<1> HIDE DEF P, end, z, m
<1>9. \A p \in P : OffsetAt(logs, p) \in FirstOffset .. end - 1
    BY <1>5, <1>6, <1>7
<1>10. \A o \in FirstOffset .. end - 1 : \E p \in P : OffsetAt(logs, p) = o
    BY <1>5, <1>6, <1>8
<1>11. QED
    BY <1>7, <1>9, <1>10 DEF P, end

\* The places of the records from an offset on, in the files from a segment on.
BasesFrom(first) == {segments[i].base : i \in first .. Len(segments)}
PlacesFrom(first, o) == {p \in PlacesIn(logs, BasesFrom(first)) : OffsetAt(logs, p) >= o}

\* The rows of the files from the one of an offset on are the values from there on.
LEMMA RowsFrom ==
    ASSUME LogInv, segments # <<>>, NEW o \in FirstOffset .. FirstOffset + Len(Content) - 1,
           NEW first \in DOMAIN segments, segments[first].base <= o
    PROVE  LET rows == LogRows(logs, PlacesFrom(first, o))
               n == (FirstOffset + Len(Content)) - o
           IN  /\ n \in Nat /\ rows \in Seq(Payload) /\ Len(rows) = n
               /\ \A k \in 1 .. n : rows[k] = Content[o - FirstOffset + k]
<1> DEFINE end == FirstOffset + Len(Content)
           all == PlacesIn(logs, DOMAIN logs)
           F == FirstOffset
           C == Content
           bases == BasesFrom(first)
           P == PlacesFrom(first, o)
           rows == LogRows(logs, P)
<1>1. State(logs, indexes, segments) /\ FilesAre(logs, TRUE)
    BY DEF LogInv, State
<1>2. /\ \A p \in all : /\ OffsetAt(logs, p) \in F .. end - 1
                        /\ At(logs, OffsetAt(logs, p), logs[p[1]][p[2]].size)
      /\ \A x \in F .. end - 1 : \E p \in all : OffsetAt(logs, p) = x
    BY OpenPlaces
<1>3. F \in Nat /\ Len(C) \in Nat
    BY EndIs
<1>4. end \in Nat /\ o \in Nat /\ F <= o /\ o < end /\ o <= end
    BY <1>3
<1>5. /\ Len(segments) \in Nat /\ DOMAIN segments = 1 .. Len(segments)
      /\ \A i \in 1 .. Len(segments) : segments[i].base \in DOMAIN logs
      /\ \A c \in DOMAIN logs : \E i \in 1 .. Len(segments) : c = segments[i].base
    BY <1>1, OpenFacts
<1>6. first \in 1 .. Len(segments) /\ \A i \in first .. Len(segments) : i \in 1 .. Len(segments)
    BY <1>5
<1>7. bases \subseteq DOMAIN logs
    BY <1>5, <1>6 DEF BasesFrom
<1>8. P \in SUBSET all
    BY <1>7 DEF PlacesIn, PlacesFrom
<1>9. \A p \in P : OffsetAt(logs, p) \in o .. end - 1
    <2> TAKE p \in P
    <2>1. OffsetAt(logs, p) \in F .. end - 1 /\ OffsetAt(logs, p) >= o
        BY <1>2, <1>8 DEF PlacesFrom
    <2>2. QED
        BY <1>3, <1>4, <2>1
<1>10. \A x \in o .. end - 1 : \E p \in P : OffsetAt(logs, p) = x
    <2> TAKE x \in o .. end - 1
    <2>1. x \in F .. end - 1 /\ x >= o /\ x \in Nat
        BY <1>3, <1>4
    <2>2. PICK p \in all : OffsetAt(logs, p) = x
        BY <1>2, <2>1
    <2> DEFINE b == p[1]
               c == segments[first].base
    <2>3. /\ b \in DOMAIN logs /\ b \in Nat /\ p[2] \in 1 .. Len(logs[b]) /\ Len(logs[b]) \in Nat
          /\ x = b + p[2] - 1 /\ p = <<b, p[2]>> /\ p[2] \in DOMAIN logs[b]
        BY <1>1, <2>2, PlaceIs
    <2>4. PICK i \in 1 .. Len(segments) : b = segments[i].base
        BY <1>5, <2>3
    <2>5. i >= first
        <3>1. SUFFICES ASSUME i < first PROVE FALSE
            BY <1>6
        <3>2. b < c /\ c \in DOMAIN logs
            BY <1>1, <1>5, <1>6, <2>4, <3>1 DEF State, SegmentsAre
        <3>3. b + Len(logs[b]) <= c
            BY <1>1, <2>3, <3>2 DEF FilesAre
        <3>4. c \in Nat /\ c <= o
            BY <1>1, <3>2, SomeFile
        <3> DEFINE n == p[2]
                   len == Len(logs[b])
        <3>5. n \in 1 .. len /\ len \in Nat /\ b \in Nat /\ x = b + n - 1
            BY <2>3
        <3>6. c \in Nat /\ c <= o /\ b + len <= c /\ x >= o /\ x \in Nat /\ o \in Nat
            BY <1>4, <2>1, <3>3, <3>4
        <3> HIDE DEF b, c, n, len
        <3>7. QED
            BY <3>5, <3>6
    <2>6. b \in bases
        BY <1>6, <2>4, <2>5 DEF BasesFrom
    <2>7. p \in PlacesIn(logs, bases)
        BY <2>3, <2>6 DEF PlacesIn
    <2>8. p \in P
        BY <2>1, <2>2, <2>7 DEF PlacesFrom
    <2>9. QED
        BY <2>2, <2>8
<1> HIDE DEF end, all, F, C, bases, P, rows
<1>11. /\ rows \in Seq(Payload) /\ Len(rows) = end - o
       /\ \A p \in P : rows[OffsetAt(logs, p) - o + 1] = logs[p[1]][p[2]].size
    BY <1>1, <1>4, <1>8, <1>9, <1>10, RowsAre DEF all, rows
<1>12. \A k \in 1 .. end - o : rows[k] = C[o - F + k]
    <2> TAKE k \in 1 .. end - o
    <2> DEFINE x == o + k - 1
    <2>1. x \in o .. end - 1 /\ x - o + 1 = k /\ x - F + 1 = o - F + k
        BY <1>3, <1>4
    <2> HIDE DEF x
    <2>2. PICK p \in P : OffsetAt(logs, p) = x
        BY <1>10, <2>1
    <2>3. rows[k] = logs[p[1]][p[2]].size
        BY <1>11, <2>1, <2>2
    <2>4. At(logs, x, logs[p[1]][p[2]].size)
        BY <1>2, <1>8, <2>2
    <2>5. logs[p[1]][p[2]].size = C[x - F + 1]
        BY <2>4, HeldBefore, ContentIs DEF Holds, C, F
    <2>6. QED
        BY <2>1, <2>3, <2>5
<1>13. end - o \in Nat
    BY <1>4
<1>14. QED
    BY <1>11, <1>12, <1>13 DEF end, F, C, rows, P

LEMMA ReadRangeIs ==
    ASSUME LogInv, segments # <<>>, NEW i \in DOMAIN Content
    PROVE  ReadRange(FirstOffset + i - 1, 2) = SubSeq(Content, i, Min({i + 1, Len(Content)}))
<1> DEFINE F == FirstOffset
           C == Content
           o == F + i - 1
           within == {j \in DOMAIN segments : o \in segments[j].base .. segments[j].nextOffset - 1}
           first == Min(within)
           rows == LogRows(logs, PlacesFrom(first, o))
           n == Len(C) - i + 1
<1>1. F \in Nat /\ C \in Seq(Payload) /\ Len(C) \in Nat /\ i \in 1 .. Len(C)
    <2>1. F \in Nat /\ C \in Seq(Payload) /\ Len(C) \in Nat
        BY EndIs
    <2>2. QED
        BY <2>1, LenProperties
<1>2. o \in Nat /\ o \in F .. F + Len(C) - 1 /\ (F + Len(C)) - o = n /\ o - F = i - 1 /\ n \in Nat /\ n # 0
    <2> HIDE DEF F, C
    <2>1. QED
        BY <1>1
<1>3. first \in DOMAIN segments /\ segments[first].base <= o /\ within # {}
    <2> DEFINE s == SegmentFor(o)
    <2>1. s \in DOMAIN segments /\ segments[s].base <= o /\ o < segments[s].nextOffset
        <3> HIDE DEF o
        <3>1. QED
            BY <1>2, SegmentForIs
    <2>2. /\ DOMAIN segments = 1 .. Len(segments) /\ Len(segments) \in Nat
          /\ \A j \in 1 .. Len(segments) : segments[j] \in Segment
        BY OpenFacts DEF LogInv
    <2> HIDE DEF s, o
    <2>3. segments[s].base \in Nat /\ segments[s].nextOffset \in Nat
        BY <2>1, <2>2 DEF Segment
    <2>4. s \in within
        BY <1>2, <2>1, <2>3
    <2>5. within \in SUBSET Nat /\ within # {}
        BY <2>2, <2>4
    <2>6. first \in within
        <3> HIDE DEF within
        <3>1. QED
            BY <2>5, MinIsLeast
    <2>7. first \in DOMAIN segments /\ o \in segments[first].base .. segments[first].nextOffset - 1
        BY <2>6
    <2>8. segments[first].base \in Nat /\ segments[first].nextOffset \in Nat
        BY <2>2, <2>7 DEF Segment
    <2> HIDE DEF first, within
    <2>9. QED
        BY <2>5, <2>7, <2>8
<1>4. ReadRange(o, 2) = SubSeq(rows, 1, Min({2, Len(rows)}))
    <2> DEFINE first2 == IF within # {} THEN Min(within)
                         ELSE IF o <= segments[1].base THEN 1 ELSE Len(segments) + 1
               Rows2(f) == RowsOf({p \in Places({segments[j].base : j \in f .. Len(segments)}) :
                                     logs[p[1]][p[2]].offset >= o})
    <2>1. first2 = first
        BY <1>3
    <2>2. Rows2(first) = rows
        <3> HIDE DEF o, first
        <3>1. QED
            BY Zenon DEF RowsOf, LogRows, Nth, Earlier, Places, PlacesIn, OffsetAt, PlacesFrom, BasesFrom
    <2>3. ReadRange(o, 2) = SubSeq(Rows2(first2), 1, Min({2, Len(Rows2(first2))}))
        <3> HIDE DEF o
        <3>1. QED
            BY Zenon DEF ReadRange
    <2> HIDE DEF first2, Rows2, rows
    <2>4. QED
        BY <2>1, <2>2, <2>3
<1>5. /\ rows \in Seq(Payload) /\ Len(rows) = n
      /\ \A k \in 1 .. n : rows[k] = C[i - 1 + k]
    <2> HIDE DEF o, first
    <2> DEFINE P == PlacesFrom(first, o)
    <2> HIDE DEF P
    <2>1. /\ LogRows(logs, P) \in Seq(Payload) /\ Len(LogRows(logs, P)) = (FirstOffset + Len(Content)) - o
          /\ \A k \in 1 .. (FirstOffset + Len(Content)) - o :
                LogRows(logs, P)[k] = Content[o - FirstOffset + k]
        BY <1>2, <1>3, RowsFrom DEF P
    <2> HIDE DEF F, C, n, rows
    <2>2. QED
        BY <1>2, <2>1 DEF F, C, rows, P
<1> HIDE DEF rows, o
<1> DEFINE top == Min({i + 1, Len(C)})
           m == Min({2, Len(rows)})
<1>6. m = (IF 2 <= n THEN 2 ELSE n) /\ top = IF i + 1 <= Len(C) THEN i + 1 ELSE Len(C)
    <2>1. 2 \in Nat /\ n \in Nat /\ i + 1 \in Nat /\ Len(C) \in Nat
        BY SMTT(20), <1>1, <1>2
    <2> HIDE DEF n, C
    <2>2. QED
        BY <1>5, <2>1, LesserOf
<1> HIDE DEF C, top, m
<1>7. m \in 0 .. n /\ top \in i .. Len(C) /\ top - i + 1 = m /\ i \in 1 .. Len(C) /\ i <= top
    BY SMTT(20), <1>1, <1>2, <1>6
<1>8. /\ SubSeq(rows, 1, m) \in Seq(Payload) /\ Len(SubSeq(rows, 1, m)) = m
      /\ \A k \in 1 .. m : SubSeq(rows, 1, m)[k] = rows[k]
    <2> HIDE DEF n
    <2>1. m \in 0 .. Len(rows)
        BY <1>5, <1>7
    <2>2. QED
        BY <1>5, <2>1, Beginning
<1>9. /\ SubSeq(C, i, top) \in Seq(Payload) /\ Len(SubSeq(C, i, top)) = m
       /\ \A k \in 1 .. m : SubSeq(C, i, top)[k] = C[i + k - 1]
    <2>1. \A k \in i .. top : C[k] \in Payload
        <3>1. \A k \in i .. top : k \in 1 .. Len(C)
            BY <1>1, <1>7
        <3>2. QED
            BY <1>1, <3>1, ElementOfSeq
    <2>2. i \in Int /\ top \in Int
        BY <1>1, <1>7
    <2>3. /\ SubSeq(C, i, top) \in Seq(Payload)
          /\ Len(SubSeq(C, i, top)) = IF i <= top THEN top - i + 1 ELSE 0
          /\ \A k \in 1 .. top - i + 1 : SubSeq(C, i, top)[k] = C[i + k - 1]
        BY <2>1, <2>2, SubSeqProperties
    <2>4. QED
        BY <1>7, <2>3
<1>10. \A k \in 1 .. m : SubSeq(rows, 1, m)[k] = SubSeq(C, i, top)[k]
    <2> TAKE k \in 1 .. m
    <2>1. k \in 1 .. n /\ i - 1 + k = i + k - 1
        BY SMTT(20), <1>1, <1>2, <1>7
    <2>2. QED
        BY <1>5, <1>8, <1>9, <2>1
<1>11. SubSeq(rows, 1, m) = SubSeq(C, i, top)
    BY <1>8, <1>9, <1>10, SeqEqual
<1>12. QED
    BY <1>4, <1>11 DEF o, C, F, top, m

LEMMA ReadsAreRight == LogInv => ReadsFind
<1> SUFFICES ASSUME LogInv, segments # <<>> PROVE ReadsFind
    BY DEF ReadsFind, IsOpen
<1>1. /\ FirstOffset + Len(Content) = Last(segments).nextOffset /\ FirstOffset \in Nat
      /\ Content \in Seq(Payload) /\ Len(Content) \in Nat
    BY EndIs
<1>2. Active.nextOffset = FirstOffset + 1 - 1 + Len(Content)
    BY <1>1 DEF Active
<1>3. \A i \in DOMAIN Content : Read(FirstOffset + i - 1) = Content[i]
    <2> TAKE i \in DOMAIN Content
    <2> DEFINE o == FirstOffset + i - 1
    <2>1. i \in 1 .. Len(Content)
        BY <1>1, LenProperties
    <2>2. o \in FirstOffset .. FirstOffset + Len(Content) - 1 /\ o - FirstOffset + 1 = i
        BY <1>1, <2>1
    <2> HIDE DEF o
    <2>3. Read(o) = Content[o - FirstOffset + 1]
        BY <2>2, ReadIs
    <2>4. QED
        BY <2>2, <2>3 DEF o
<1>4. \A i \in DOMAIN Content :
         ReadRange(FirstOffset + i - 1, 2) = SubSeq(Content, i, Min({i + 1, Len(Content)}))
    BY ReadRangeIs
<1>5. QED
    BY <1>2, <1>3, <1>4 DEF ReadsFind

\* A read finds the record that was appended at its offset, and a range of two the
\* records that follow each other there, in one segment or across the border of two.
THEOREM ReadsFindTheRecord == LogSpec => []ReadsFind
BY LogInvAlways, ReadsAreRight, PTL
=============================================================================
