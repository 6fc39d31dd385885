------------------------------ MODULE LsmProofs ------------------------------
(***************************************************************************)
(* Theorems about the key-value engine: that it keeps the map it promises. *)
(***************************************************************************)
EXTENDS LsmTree, OrderLemmas

USE LsmAssumption

-----------------------------------------------------------------------------
(* The row a sequence of tables has for a key.                              *)

FirstDecides(tables, k) ==
    /\ FirstRow(tables, k) = NoRow <=> \A i \in DOMAIN tables : tables[i][k] = NoRow
    /\ \A i \in DOMAIN tables :
          tables[i][k] # NoRow /\ (\A j \in 1 .. i - 1 : tables[j][k] = NoRow)
              => FirstRow(tables, k) = tables[i][k]
    /\ FirstRow(tables, k) # NoRow =>
          \E i \in DOMAIN tables : /\ tables[i][k] # NoRow /\ FirstRow(tables, k) = tables[i][k]
                                   /\ \A j \in 1 .. i - 1 : tables[j][k] = NoRow

LEMMA FirstRowDecides ==
    ASSUME NEW S, NEW tables \in Seq(S), NEW k
    PROVE  FirstDecides(tables, k)
<1> DEFINE has == {i \in DOMAIN tables : tables[i][k] # NoRow}
<1>1. DOMAIN tables = 1 .. Len(tables) /\ Len(tables) \in Nat
    BY LenProperties
<1>2. FirstRow(tables, k) = IF has = {} THEN NoRow ELSE tables[Min(has)][k]
    BY DEF FirstRow
<1>3. has \in SUBSET Nat
    BY <1>1
<1> HIDE DEF has
<1>4. has # {} => Min(has) \in has /\ \A y \in has : Min(has) <= y
    BY <1>3, MinIsLeast
<1>5. \A i \in has : i \in DOMAIN tables /\ tables[i][k] # NoRow
    BY DEF has
<1>6. \A i \in DOMAIN tables : tables[i][k] # NoRow => i \in has
    BY DEF has
<1>7. FirstRow(tables, k) = NoRow <=> \A i \in DOMAIN tables : tables[i][k] = NoRow
    BY <1>2, <1>4, <1>5, <1>6
<1>8. ASSUME NEW i \in DOMAIN tables, tables[i][k] # NoRow,
             \A j \in 1 .. i - 1 : tables[j][k] = NoRow
      PROVE  FirstRow(tables, k) = tables[i][k]
    <2>1. i \in has /\ i \in 1 .. Len(tables)
        BY <1>1, <1>6, <1>8
    <2>2. Min(has) \in 1 .. Len(tables) /\ Min(has) <= i /\ Min(has) \in has
        BY <1>1, <1>4, <1>5, <2>1
    <2>3. Min(has) \notin 1 .. i - 1
        BY <1>5, <1>8, <2>2
    <2>4. Min(has) = i
        BY <1>1, <2>1, <2>2, <2>3
    <2>5. QED
        BY <1>2, <2>1, <2>4
<1>9. ASSUME FirstRow(tables, k) # NoRow
      PROVE  \E i \in DOMAIN tables : /\ tables[i][k] # NoRow /\ FirstRow(tables, k) = tables[i][k]
                                      /\ \A j \in 1 .. i - 1 : tables[j][k] = NoRow
    <2>1. has # {}
        BY <1>2, <1>9
    <2>2. Min(has) \in DOMAIN tables /\ tables[Min(has)][k] # NoRow
          /\ FirstRow(tables, k) = tables[Min(has)][k]
        BY <1>2, <1>4, <1>5, <2>1
    <2>3. \A j \in 1 .. Min(has) - 1 : j \in DOMAIN tables /\ j \notin has
        BY <1>1, <1>4, <2>1, <2>2
    <2>4. QED
        BY <1>6, <2>2, <2>3
<1>10. QED
    BY <1>7, <1>8, <1>9 DEF FirstDecides

LEMMA FirstRowOfBoth ==
    ASSUME NEW S, NEW a \in Seq(S), NEW b \in Seq(S), NEW k
    PROVE  FirstRow(a \o b, k) = IF FirstRow(a, k) # NoRow THEN FirstRow(a, k) ELSE FirstRow(b, k)
<1> DEFINE c == a \o b
<1>1. /\ c \in Seq(S) /\ Len(c) = Len(a) + Len(b) /\ Len(a) \in Nat /\ Len(b) \in Nat
      /\ \A i \in 1 .. Len(a) : c[i] = a[i]
      /\ \A i \in 1 .. Len(b) : c[Len(a) + i] = b[i]
    <2>1. /\ c \in Seq(S) /\ Len(c) = Len(a) + Len(b)
          /\ \A i \in 1 .. Len(a) + Len(b) : c[i] = IF i <= Len(a) THEN a[i] ELSE b[i - Len(a)]
        BY ConcatProperties
    <2>2. Len(a) \in Nat /\ Len(b) \in Nat
        BY LenProperties
    <2> HIDE DEF c
    <2>3. \A i \in 1 .. Len(a) : i \in 1 .. Len(a) + Len(b) /\ i <= Len(a)
        BY <2>2
    <2>4. \A i \in 1 .. Len(b) : /\ Len(a) + i \in 1 .. Len(a) + Len(b)
                                 /\ ~(Len(a) + i <= Len(a)) /\ Len(a) + i - Len(a) = i
        BY <2>2
    <2>5. QED
        BY <2>1, <2>2, <2>3, <2>4
<1> HIDE DEF c
<1>2. DOMAIN a = 1 .. Len(a) /\ DOMAIN b = 1 .. Len(b) /\ DOMAIN c = 1 .. Len(c)
    BY <1>1, LenProperties
<1>3. FirstDecides(a, k) /\ FirstDecides(b, k) /\ FirstDecides(c, k)
    BY <1>1, FirstRowDecides
<1>4. CASE FirstRow(a, k) # NoRow
    <2>1. PICK i \in DOMAIN a : /\ a[i][k] # NoRow /\ FirstRow(a, k) = a[i][k]
                                /\ \A j \in 1 .. i - 1 : a[j][k] = NoRow
        BY <1>3, <1>4 DEF FirstDecides
    <2>2. i \in 1 .. Len(a) /\ i \in DOMAIN c /\ \A j \in 1 .. i - 1 : j \in 1 .. Len(a)
        BY <1>1, <1>2
    <2>3. c[i][k] # NoRow /\ \A j \in 1 .. i - 1 : c[j][k] = NoRow
        BY <1>1, <2>1, <2>2
    <2>4. FirstRow(c, k) = c[i][k]
        BY <1>3, <2>2, <2>3 DEF FirstDecides
    <2>5. QED
        BY <1>1, <1>4, <2>1, <2>2, <2>4 DEF c
<1>5. CASE FirstRow(a, k) = NoRow
    <2>1. \A i \in 1 .. Len(a) : c[i][k] = NoRow
        <3>1. \A i \in 1 .. Len(a) : a[i][k] = NoRow
            BY <1>2, <1>3, <1>5 DEF FirstDecides
        <3>2. QED
            BY <1>1, <3>1
    <2>2. CASE FirstRow(b, k) # NoRow
        <3>1. PICK i \in DOMAIN b : /\ b[i][k] # NoRow /\ FirstRow(b, k) = b[i][k]
                                    /\ \A j \in 1 .. i - 1 : b[j][k] = NoRow
            BY <1>3, <2>2 DEF FirstDecides
        <3>2. i \in 1 .. Len(b) /\ Len(a) + i \in DOMAIN c
            BY <1>1, <1>2
        <3>3. \A j \in 1 .. Len(a) + i - 1 : j \in 1 .. Len(a) \/ j - Len(a) \in 1 .. i - 1
            <4>1. Len(a) \in Nat /\ i \in Nat
                BY <1>1, <3>2
            <4>2. QED
                BY <4>1
        <3>4. \A j \in 1 .. i - 1 : j \in 1 .. Len(b)
            BY <1>1, <3>2
        <3>5. \A j \in 1 .. Len(a) + i - 1 : c[j][k] = NoRow
            <4> TAKE j \in 1 .. Len(a) + i - 1
            <4>1. CASE j \in 1 .. Len(a)
                BY <2>1, <4>1
            <4>2. CASE j - Len(a) \in 1 .. i - 1
                <5>1. j - Len(a) \in 1 .. Len(b) /\ Len(a) + (j - Len(a)) = j
                    BY <1>1, <3>4, <4>2
                <5>2. c[j] = b[j - Len(a)]
                    BY <1>1, <5>1
                <5>3. QED
                    BY <3>1, <4>2, <5>2
            <4>3. QED
                BY <3>3, <4>1, <4>2
        <3>6. c[Len(a) + i] = b[i]
            BY <1>1, <3>2
        <3>7. FirstRow(c, k) = c[Len(a) + i][k]
            BY <1>3, <3>1, <3>2, <3>5, <3>6 DEF FirstDecides
        <3>8. QED
            BY <1>5, <3>1, <3>6, <3>7 DEF c
    <2>3. CASE FirstRow(b, k) = NoRow
        <3>1. \A i \in 1 .. Len(b) : b[i][k] = NoRow
            BY <1>2, <1>3, <2>3 DEF FirstDecides
        <3>2. \A i \in 1 .. Len(c) : i \in 1 .. Len(a) \/ (i - Len(a) \in 1 .. Len(b) /\ Len(a) + (i - Len(a)) = i)
            BY <1>1
        <3>3. \A i \in DOMAIN c : c[i][k] = NoRow
            BY <1>1, <1>2, <2>1, <3>1, <3>2
        <3>4. FirstRow(c, k) = NoRow
            BY <1>3, <3>3 DEF FirstDecides
        <3>5. QED
            BY <1>5, <2>3, <3>4 DEF c
    <2>4. QED
        BY <2>2, <2>3
<1>6. QED
    BY <1>4, <1>5

-----------------------------------------------------------------------------
(* Readers and files.                                                       *)

FileType == [level : {0, 1}, rows : Table, whole : BOOLEAN]

\* The files of a disk, and those of a level that are whole.
DiskOK(d) ==
    /\ IsFiniteSet(DOMAIN d) /\ DOMAIN d \subseteq Nat
    /\ \A id \in DOMAIN d : d[id] \in FileType /\ (~d[id].whole => d[id].rows = EmptyTable)

FilesOf(d, l) == {id \in DOMAIN d : d[id].level = l /\ d[id].whole}

Ids(list) == {list[i].id : i \in DOMAIN list}

\* The readers of the files ids, newer ones first; a file may have two.
NewestFirst(list) ==
    \A i, j \in DOMAIN list :
        list[i].id > list[j].id => \E h \in 1 .. j - 1 : list[h].id = list[i].id

Serves(list, ids, d) ==
    /\ list \in Seq(Reader) /\ Ids(list) = ids /\ NewestFirst(list)
    /\ ids \subseteq DOMAIN d /\ \A i \in DOMAIN list : list[i].rows = d[list[i].id].rows

\* The row of the newest of the files that have one.
NewestRow(d, ids, k) ==
    LET has == {id \in ids : d[id].rows[k] # NoRow}
    IN  IF has = {} THEN NoRow ELSE d[Max(has)].rows[k]

LEMMA FilesType ==
    ASSUME NEW d, DiskOK(d), NEW l
    PROVE  FilesOf(d, l) \subseteq DOMAIN d /\ FilesOf(d, l) \in SUBSET Nat /\ IsFiniteSet(FilesOf(d, l))
<1>1. FilesOf(d, l) \subseteq DOMAIN d
    BY DEF FilesOf
<1>2. QED
    BY <1>1, FS_Subset DEF DiskOK

LEMMA RowsType ==
    ASSUME NEW list \in Seq(Reader)
    PROVE  /\ Rows(list) \in Seq(Table) /\ Len(Rows(list)) = Len(list) /\ Len(list) \in Nat
           /\ DOMAIN list = 1 .. Len(list) /\ DOMAIN Rows(list) = DOMAIN list
           /\ \A i \in DOMAIN list : Rows(list)[i] = list[i].rows /\ list[i] \in Reader
                                     /\ list[i].id \in Nat /\ list[i].rows \in Table
<1>1. Len(list) \in Nat /\ DOMAIN list = 1 .. Len(list) /\ \A i \in DOMAIN list : list[i] \in Reader
    BY LenProperties, ElementOfSeq
<1>2. \A i \in DOMAIN list : list[i].id \in Nat /\ list[i].rows \in Table
    BY <1>1 DEF Reader
<1>3. Rows(list) \in [1 .. Len(list) -> Table]
    BY <1>1, <1>2 DEF Rows
<1>4. Rows(list) \in Seq(Table) /\ Len(Rows(list)) = Len(list)
    BY <1>1, <1>3, SeqDef, LenProperties
<1>5. QED
    BY <1>1, <1>2, <1>4 DEF Rows

LEMMA NewestRowIs ==
    ASSUME NEW d, NEW ids \in SUBSET Nat, IsFiniteSet(ids), NEW k,
           NEW id \in ids, d[id].rows[k] # NoRow,
           \A other \in ids : other > id => d[other].rows[k] = NoRow
    PROVE  NewestRow(d, ids, k) = d[id].rows[k]
<1> DEFINE has == {i \in ids : d[i].rows[k] # NoRow}
<1>1. has \in SUBSET Nat /\ IsFiniteSet(has) /\ id \in has
    BY FS_Subset
<1> HIDE DEF has
<1>2. Max(has) \in has /\ Max(has) >= id /\ Max(has) \in Nat /\ id \in Nat
    BY <1>1, MaxIsGreatest
<1>3. ~(Max(has) > id)
    BY <1>2 DEF has
<1>4. Max(has) = id
    BY <1>2, <1>3
<1>5. QED
    BY <1>1, <1>4 DEF NewestRow, has

LEMMA NoNewestRow ==
    ASSUME NEW d, NEW ids, NEW k, \A id \in ids : d[id].rows[k] = NoRow
    PROVE  NewestRow(d, ids, k) = NoRow
BY DEF NewestRow

\* A list serves the newest rows of its files.
LEMMA ServesNewest ==
    ASSUME NEW d, NEW list, NEW ids \in SUBSET Nat, IsFiniteSet(ids), Serves(list, ids, d), NEW k
    PROVE  FirstRow(Rows(list), k) = NewestRow(d, ids, k)
<1>1. /\ Rows(list) \in Seq(Table) /\ DOMAIN list = 1 .. Len(list) /\ Len(list) \in Nat
      /\ DOMAIN Rows(list) = DOMAIN list
      /\ \A i \in DOMAIN list : Rows(list)[i] = list[i].rows /\ list[i].id \in Nat
    BY RowsType DEF Serves
<1>2. FirstDecides(Rows(list), k)
    BY <1>1, FirstRowDecides
<1>3. /\ \A i \in DOMAIN list : list[i].id \in ids /\ Rows(list)[i] = d[list[i].id].rows
      /\ \A id \in ids : \E i \in DOMAIN list : list[i].id = id
    BY <1>1 DEF Serves, Ids
<1>4. CASE FirstRow(Rows(list), k) = NoRow
    <2>1. \A id \in ids : d[id].rows[k] = NoRow
        BY <1>1, <1>2, <1>3, <1>4 DEF FirstDecides
    <2>2. QED
        BY <1>4, <2>1, NoNewestRow
<1>5. CASE FirstRow(Rows(list), k) # NoRow
    <2>1. PICK i \in DOMAIN list : /\ Rows(list)[i][k] # NoRow /\ FirstRow(Rows(list), k) = Rows(list)[i][k]
                                   /\ \A j \in 1 .. i - 1 : Rows(list)[j][k] = NoRow
        BY <1>1, <1>2, <1>5 DEF FirstDecides
    <2> DEFINE id == list[i].id
    <2>2. id \in ids /\ d[id].rows[k] # NoRow /\ FirstRow(Rows(list), k) = d[id].rows[k]
        BY <1>3, <2>1
    <2>3. ASSUME NEW other \in ids, other > id PROVE d[other].rows[k] = NoRow
        <3>1. PICK j \in DOMAIN list : list[j].id = other
            BY <1>3
        <3>2. PICK h \in 1 .. i - 1 : list[h].id = other
            BY <2>3, <3>1 DEF Serves, NewestFirst
        <3>3. h \in DOMAIN list
            BY <1>1
        <3>4. QED
            BY <1>3, <2>1, <3>2, <3>3
    <2> HIDE DEF id
    <2>4. NewestRow(d, ids, k) = d[id].rows[k]
        BY <2>2, <2>3, NewestRowIs
    <2>5. QED
        BY <2>2, <2>4
<1>6. QED
    BY <1>4, <1>5

\* The readers open makes.
LEMMA ReadersServe ==
    ASSUME NEW d, DiskOK(d), NEW l, \A id \in DOMAIN d : d[id].whole
    PROVE  Serves(ReadersOf(d, l), FilesOf(d, l), d)
<1> DEFINE ids == {id \in DOMAIN d : d[id].level = l}
           n == Cardinality(ids)
           Nth(i) == CHOOSE id \in ids : Cardinality({j \in ids : j > id}) = i - 1
           list == [i \in 1 .. n |-> [id |-> Nth(i), rows |-> d[Nth(i)].rows]]
           R == {p \in ids \X ids : p[1] > p[2]}
<1>1. ids = FilesOf(d, l) /\ ids \in SUBSET Nat /\ IsFiniteSet(ids) /\ ids \subseteq DOMAIN d
    <2>1. ids = FilesOf(d, l)
        BY DEF FilesOf
    <2>2. QED
        BY <2>1, FilesType
<1>2. ReadersOf(d, l) = list
    BY DEF ReadersOf
<1>3. n \in Nat
    BY <1>1, FS_CardinalityType
<1> HIDE DEF ids, n
<1>4. \A i, j \in ids : <<i, j>> \in R <=> i > j
    BY DEF R
<1>5. StrictOrder(R, ids)
    BY <1>1, <1>4 DEF StrictOrder
<1>6. Numbers(R, ids)
    BY <1>1, <1>5, OrderNumbers
<1>7. \A id \in ids : Before(R, ids, id) = {j \in ids : j > id}
    BY <1>4 DEF Before
<1> DEFINE c(id) == Cardinality({j \in ids : j > id})
<1>8. /\ \A id \in ids : c(id) \in 0 .. n - 1
      /\ \A i, j \in ids : i > j => c(i) < c(j)
      /\ \A m \in 1 .. n : \E id \in ids : c(id) = m - 1
    <2>1. \A id \in ids : c(id) = Cardinality(Before(R, ids, id))
        BY <1>7
    <2> HIDE DEF c, R
    <2>2. /\ \A id \in ids : Cardinality(Before(R, ids, id)) \in 0 .. n - 1
          /\ \A i, j \in ids : <<i, j>> \in R =>
                 Cardinality(Before(R, ids, i)) < Cardinality(Before(R, ids, j))
          /\ \A m \in 1 .. n : \E id \in ids : Cardinality(Before(R, ids, id)) = m - 1
        BY <1>6 DEF Numbers, n
    <2>3. \A id \in ids : c(id) \in 0 .. n - 1
        BY <2>1, <2>2
    <2>4. \A i, j \in ids : i > j => c(i) < c(j)
        <3> SUFFICES ASSUME NEW i \in ids, NEW j \in ids, i > j PROVE c(i) < c(j)
            OBVIOUS
        <3>1. <<i, j>> \in R
            BY <1>4
        <3>2. Cardinality(Before(R, ids, i)) < Cardinality(Before(R, ids, j))
            BY <2>2, <3>1
        <3>3. QED
            BY <2>1, <3>2
    <2>5. \A m \in 1 .. n : \E id \in ids : c(id) = m - 1
        BY <2>1, <2>2
    <2>6. QED
        BY <2>3, <2>4, <2>5
<1> HIDE DEF c, R
<1>9. \A m \in 1 .. n : Nth(m) \in ids /\ c(Nth(m)) = m - 1
    BY <1>8 DEF c
<1>10. \A id \in ids : c(id) + 1 \in 1 .. n /\ Nth(c(id) + 1) = id
    <2> TAKE id \in ids
    <2>1. c(id) + 1 \in 1 .. n /\ c(id) \in Nat
        BY <1>3, <1>8
    <2>2. Nth(c(id) + 1) \in ids /\ c(Nth(c(id) + 1)) = c(id)
        <3>1. (c(id) + 1) - 1 = c(id)
            BY <2>1
        <3> HIDE DEF Nth
        <3>2. QED
            BY <1>9, <2>1, <3>1
    <2>3. \A x, y \in ids : c(x) = c(y) => x = y
        <3> SUFFICES ASSUME NEW x \in ids, NEW y \in ids, c(x) = c(y), x # y PROVE FALSE
            OBVIOUS
        <3>1. x > y \/ y > x
            BY <1>1
        <3>2. c(x) \in Nat /\ c(y) \in Nat
            BY <1>3, <1>8
        <3>3. QED
            BY <1>8, <3>1, <3>2
    <2> HIDE DEF Nth
    <2>4. QED
        BY <2>1, <2>2, <2>3
<1> HIDE DEF Nth
<1>11. /\ list \in Seq(Reader) /\ DOMAIN list = 1 .. n
       /\ \A i \in 1 .. n : list[i].id = Nth(i) /\ list[i].rows = d[Nth(i)].rows
    <2>1. \A i \in 1 .. n : Nth(i) \in Nat /\ d[Nth(i)].rows \in Table
        BY <1>1, <1>9 DEF DiskOK, FileType
    <2>2. \A i \in 1 .. n : list[i] \in Reader
        BY <2>1 DEF Reader
    <2>3. list \in [1 .. n -> Reader]
        BY <2>2
    <2>4. QED
        BY <1>3, <2>3, SeqDef
<1> HIDE DEF list
<1>12. Ids(list) = ids
    <2>1. Ids(list) \subseteq ids
        BY <1>9, <1>11 DEF Ids
    <2>2. \A id \in ids : id \in Ids(list)
        BY <1>10, <1>11 DEF Ids
    <2>3. QED
        BY <2>1, <2>2
<1>13. NewestFirst(list)
    <2> SUFFICES ASSUME NEW i \in 1 .. n, NEW j \in 1 .. n, list[i].id > list[j].id
                 PROVE  \E h \in 1 .. j - 1 : list[h].id = list[i].id
        BY <1>11 DEF NewestFirst
    <2>1. Nth(i) \in ids /\ Nth(j) \in ids /\ Nth(i) > Nth(j) /\ c(Nth(i)) = i - 1 /\ c(Nth(j)) = j - 1
        BY <1>9, <1>11
    <2>2. i - 1 < j - 1
        BY <1>8, <2>1
    <2>3. i \in 1 .. j - 1
        BY <1>3, <2>2
    <2>4. QED
        BY <2>3
<1>14. QED
    BY <1>1, <1>2, <1>11, <1>12, <1>13 DEF Serves

-----------------------------------------------------------------------------
(* The invariants.                                                          *)

\* The types, with what the order of the operations of a call says.
TypeInv ==
    /\ LsmTypeOK /\ DiskOK(disk)
    /\ ~isOpen => pc = "ready" /\ memTable = EmptyTable
    /\ pc = "flush" => memTable # EmptyTable
    /\ pc \in {"merge", "unlink"} => memTable = EmptyTable
    /\ pc = "merge" => level0 # <<>>
    /\ \A i \in DOMAIN level0 : level0[i].id < nextSSTableId
    /\ pc = "unlink" => nextSSTableId - 1 \in FilesOf(disk, 1) \ Range(doomed)

\* Of two rows of a key in level 0 the newer file has the newer one.
FilesOrdered(d) ==
    \A a, b \in FilesOf(d, 0), k \in Key :
        a < b /\ d[a].rows[k] # NoRow /\ d[b].rows[k] # NoRow
            => d[a].rows[k].timestamp < d[b].rows[k].timestamp

\* The memtable is newer than all files of level 0, and the clock is not behind.
MemoryNewest(table, d, now) ==
    \A k \in Key :
        /\ table[k] # NoRow => table[k].timestamp <= now
        /\ \A a \in FilesOf(d, 0) : d[a].rows[k] # NoRow =>
              /\ d[a].rows[k].timestamp <= now
              /\ table[k] # NoRow => d[a].rows[k].timestamp < table[k].timestamp

\* An open tree serves the files of a level, a closed one does or serves none.
Level(list, l) == Serves(list, FilesOf(disk, l), disk) \/ (~isOpen /\ list = <<>>)

\* The inputs of a compaction go, the newest first: the new table answers for them,
\* and as long as all are there they are as they were.
Merging ==
    LET new == nextSSTableId - 1
    IN  /\ new \in FilesOf(disk, 1) /\ \A id \in FilesOf(disk, 1) : id <= new
        /\ \A k \in Key : disk[new].rows[k] = FirstRow(Rows(level0), k)
        /\ Serves(level1, FilesOf(disk, 1) \ {new}, disk)
        /\ FilesOf(disk, 0) \subseteq Range(doomed)
        /\ FilesOf(disk, 1) \cap Range(doomed) = {}
        /\ Len(doomed) <= Len(level0)
        /\ Len(doomed) = Len(level0) => Serves(level0, FilesOf(disk, 0), disk)

OrderInv ==
    /\ FilesOrdered(disk) /\ MemoryNewest(memTable, disk, clock)
    /\ pc # "unlink" => doomed = <<>> /\ Level(level0, 0) /\ Level(level1, 1)
    /\ pc = "unlink" => isOpen /\ Merging

-----------------------------------------------------------------------------
(* A disk that a file comes to, or that files go from.                      *)

LEMMA NewFile ==
    ASSUME NEW d, DiskOK(d), NEW id \in Nat, NEW f \in FileType, ~f.whole => f.rows = EmptyTable,
           NEW e, e = [i \in DOMAIN d \cup {id} |-> IF i = id THEN f ELSE d[i]]
    PROVE  /\ DiskOK(e) /\ DOMAIN e = DOMAIN d \cup {id} /\ e[id] = f
           /\ \A i \in DOMAIN d \ {id} : e[i] = d[i]
<1>1. /\ DOMAIN e = DOMAIN d \cup {id} /\ e[id] = f
      /\ \A i \in DOMAIN d \ {id} : e[i] = d[i]
    OBVIOUS
<1>2. IsFiniteSet(DOMAIN e)
    BY <1>1, FS_AddElement DEF DiskOK
<1>3. DOMAIN e \subseteq Nat
    BY <1>1 DEF DiskOK
<1>4. \A i \in DOMAIN e : e[i] \in FileType /\ (~e[i].whole => e[i].rows = EmptyTable)
    <2> TAKE i \in DOMAIN e
    <2>1. i = id \/ i \in DOMAIN d \ {id}
        BY <1>1
    <2>2. QED
        BY <1>1, <2>1 DEF DiskOK
<1>5. QED
    BY <1>1, <1>2, <1>3, <1>4 DEF DiskOK

\* The same of a file with the next id.
WithOK(e, f) ==
    /\ DiskOK(e) /\ DOMAIN e = DOMAIN disk \cup {nextSSTableId} /\ e[nextSSTableId] = f
    /\ \A i \in DOMAIN disk \ {nextSSTableId} : e[i] = disk[i]

LEMMA WithFile ==
    ASSUME DiskOK(disk), nextSSTableId \in Nat, NEW f \in FileType, ~f.whole => f.rows = EmptyTable
    PROVE  WithOK(With(f), f)
BY NewFile DEF With, WithOK

LEMMA FewerFiles ==
    ASSUME NEW d, DiskOK(d), NEW S \in SUBSET DOMAIN d
    PROVE  /\ DiskOK(Restrict(d, S)) /\ DOMAIN Restrict(d, S) = S
           /\ \A i \in S : Restrict(d, S)[i] = d[i]
<1> DEFINE e == Restrict(d, S)
<1>1. DOMAIN e = S /\ \A i \in S : e[i] = d[i]
    BY DEF Restrict
<1> HIDE DEF e
<1>2. IsFiniteSet(S) /\ S \subseteq Nat
    BY FS_Subset DEF DiskOK
<1>3. DiskOK(e)
    BY <1>1, <1>2 DEF DiskOK
<1>4. QED
    BY <1>1, <1>3 DEF e

LEMMA EmptyTableType == EmptyTable \in Table
BY DEF EmptyTable, Table

\* The names of what the process has in memory.
LEMMA Unpack ==
    ASSUME UNCHANGED memory
    PROVE  UNCHANGED <<isOpen, memTable, byteSize, frozen, level0, level1, nextSSTableId>>
BY DEF memory

LEMMA WriteTypes ==
    ASSUME TypeInv, NEW k \in Key, NEW v \in Value \cup {None}, Write(k, v)
    PROVE  TypeInv'
<1>1. /\ isOpen /\ pc = "ready" /\ ~frozen /\ clock' \in Nat
      /\ memTable' = [memTable EXCEPT ![k] = [value |-> v, timestamp |-> clock']]
      /\ byteSize' = byteSize + IF v = None THEN DeleteBytes ELSE PutBytes
      /\ pc' \in {"flush", "ready"}
      /\ UNCHANGED <<isOpen, frozen, level0, level1, nextSSTableId, disk, doomed, closing>>
    BY DEF Write, TypeInv, LsmTypeOK
<1>2. [value |-> v, timestamp |-> clock'] \in Row
    BY <1>1 DEF Row
<1>3. memTable' \in Table /\ memTable'[k] # NoRow
    BY <1>1, <1>2 DEF TypeInv, LsmTypeOK, Table
<1>4. memTable' # EmptyTable
    BY <1>3 DEF EmptyTable
<1>5. byteSize' \in Nat
    BY <1>1 DEF TypeInv, LsmTypeOK
<1>6. LsmTypeOK'
    BY <1>1, <1>3, <1>5 DEF TypeInv, LsmTypeOK
<1>7. QED
    BY <1>1, <1>4, <1>6 DEF TypeInv, FilesOf

LEMMA CloseTypes ==
    ASSUME TypeInv, CloseTree
    PROVE  TypeInv'
<1>1. /\ isOpen /\ pc = "ready" /\ isOpen' \in BOOLEAN /\ closing' \in BOOLEAN
      /\ UNCHANGED <<memTable, byteSize, frozen, level0, level1, nextSSTableId, disk, doomed, clock>>
      /\ \/ memTable # EmptyTable /\ pc' = "flush" /\ isOpen' = isOpen
         \/ memTable = EmptyTable /\ isOpen' = FALSE /\ pc' = pc
    BY DEF CloseTree, TypeInv, LsmTypeOK
<1>2. LsmTypeOK'
    BY <1>1 DEF TypeInv, LsmTypeOK
<1>3. QED
    BY <1>1, <1>2 DEF TypeInv, FilesOf

\* A list that gets a reader at its head.
LEMMA ReaderInFront ==
    ASSUME NEW r \in Reader, NEW list \in Seq(Reader)
    PROVE  /\ <<r>> \o list \in Seq(Reader) /\ Len(<<r>> \o list) = Len(list) + 1
           /\ DOMAIN (<<r>> \o list) = 1 .. Len(list) + 1
           /\ (<<r>> \o list)[1] = r
           /\ \A i \in DOMAIN list : i + 1 \in DOMAIN (<<r>> \o list) /\ (<<r>> \o list)[i + 1] = list[i]
           /\ \A i \in DOMAIN (<<r>> \o list) : i = 1 \/ i - 1 \in DOMAIN list
<1> DEFINE m == <<r>> \o list
           n == Len(list)
<1>1. <<r>> \in Seq(Reader) /\ Len(<<r>>) = 1 /\ <<r>>[1] = r /\ n \in Nat /\ DOMAIN list = 1 .. n
    BY LenProperties
<1>2. /\ m \in Seq(Reader) /\ Len(m) = 1 + n
      /\ \A i \in 1 .. 1 + n : m[i] = IF i <= 1 THEN <<r>>[i] ELSE list[i - 1]
    BY <1>1, ConcatProperties
<1>3. DOMAIN m = 1 .. Len(m)
    BY <1>2, LenProperties
<1> HIDE DEF m, n
<1>4. m[1] = r
    BY <1>1, <1>2
<1>5. \A i \in 1 .. n : i + 1 \in 1 .. 1 + n /\ ~(i + 1 <= 1) /\ (i + 1) - 1 = i
    BY <1>1
<1>6. \A i \in 1 .. n : i + 1 \in DOMAIN m /\ m[i + 1] = list[i]
    BY <1>2, <1>3, <1>5
<1>7. \A i \in 1 .. 1 + n : i = 1 \/ i - 1 \in 1 .. n
    BY <1>1
<1>8. 1 + n = n + 1
    BY <1>1
<1>9. QED
    BY <1>1, <1>2, <1>3, <1>4, <1>6, <1>7, <1>8 DEF m, n

LEMMA FlushTypes ==
    ASSUME TypeInv, FlushMemTable
    PROVE  TypeInv'
<1> DEFINE r == [id |-> nextSSTableId, rows |-> memTable]
           f == [level |-> 0, rows |-> memTable, whole |-> TRUE]
<1>1. /\ pc = "flush" /\ isOpen /\ nextSSTableId \in Nat /\ memTable \in Table /\ DiskOK(disk)
      /\ level0 \in Seq(Reader) /\ doomed = <<>>
    BY DEF FlushMemTable, TypeInv, LsmTypeOK
<1>2. /\ disk' = With(f) /\ level0' = <<r>> \o level0
      /\ nextSSTableId' = nextSSTableId + 1
      /\ memTable' = EmptyTable /\ byteSize' = 0 /\ frozen' = FALSE
      /\ pc' \in {"merge", "ready"} /\ isOpen' \in BOOLEAN /\ closing' \in BOOLEAN
      /\ pc' = "merge" => isOpen' = isOpen
      /\ UNCHANGED <<level1, doomed, clock>>
    BY DEF FlushMemTable, File, EndCall, TypeInv, LsmTypeOK
<1>3. f \in FileType /\ r \in Reader /\ f.whole
    BY <1>1 DEF FileType, Reader
<1>4. DiskOK(disk') /\ DOMAIN disk' = DOMAIN disk \cup {nextSSTableId}
    BY <1>1, <1>2, <1>3, WithFile DEF WithOK
<1> HIDE DEF f
<1>5. /\ level0' \in Seq(Reader) /\ DOMAIN level0' = 1 .. Len(level0) + 1 /\ level0'[1] = r
      /\ \A i \in DOMAIN level0' : i = 1 \/ i - 1 \in DOMAIN level0
      /\ \A i \in DOMAIN level0 : level0'[i + 1] = level0[i]
    BY <1>1, <1>2, <1>3, ReaderInFront
<1>6. level0' # <<>>
    <2>1. 1 \in DOMAIN level0'
        BY <1>1, <1>5, LenProperties
    <2>2. QED
        BY <2>1
<1>7. \A i \in DOMAIN level0' : level0'[i].id < nextSSTableId'
    <2> TAKE i \in DOMAIN level0'
    <2>1. CASE i = 1
        BY <1>1, <1>2, <1>5, <2>1
    <2>2. CASE i # 1
        <3>1. i \in Nat /\ i - 1 \in DOMAIN level0 /\ (i - 1) + 1 = i
            BY <1>5, <2>2
        <3>2. level0'[i] = level0[i - 1] /\ level0[i - 1].id < nextSSTableId
            BY <1>5, <3>1 DEF TypeInv
        <3>3. level0[i - 1].id \in Nat
            BY <1>1, <3>1, RowsType
        <3>4. QED
            BY <1>1, <1>2, <3>2, <3>3
    <2>3. QED
        BY <2>1, <2>2
<1>8. isOpen' => \A id \in DOMAIN disk' : id < nextSSTableId'
    <2>1. \A id \in DOMAIN disk : id < nextSSTableId /\ id \in Nat
        BY <1>1 DEF TypeInv, LsmTypeOK, DiskOK
    <2>2. QED
        BY <1>1, <1>2, <1>4, <2>1
<1>9. LsmTypeOK'
    <2>1. \A id \in DOMAIN disk' : disk'[id] \in [level : {0, 1}, rows : Table, whole : BOOLEAN]
        BY <1>4 DEF DiskOK, FileType
    <2>2. nextSSTableId' \in Nat /\ byteSize' \in Nat
        BY <1>1, <1>2
    <2>3. QED
        BY <1>1, <1>2, <1>5, <1>8, <2>1, <2>2, EmptyTableType DEF TypeInv, LsmTypeOK
<1>10. QED
    BY <1>1, <1>2, <1>4, <1>6, <1>7, <1>9 DEF TypeInv

\* What a merge keeps of a key: a row than which none is newer.
MergesNewest(tables, k) ==
    /\ (\A i \in DOMAIN tables : tables[i][k] = NoRow) => Merged(tables)[k] = NoRow
    /\ (\E i \in DOMAIN tables : tables[i][k] # NoRow) =>
          \E i \in DOMAIN tables :
              /\ tables[i][k] # NoRow /\ Merged(tables)[k] = tables[i][k]
              /\ \A j \in DOMAIN tables :
                    tables[j][k] # NoRow => tables[j][k].timestamp <= tables[i][k].timestamp

LEMMA MergedIsNewest ==
    ASSUME NEW tables \in Seq(Table), NEW k \in Key
    PROVE  MergesNewest(tables, k)
<1> DEFINE ts(i) == tables[i][k].timestamp
           has == {i \in DOMAIN tables : tables[i][k] # NoRow}
           newest == {i \in has : \A j \in has : ts(j) <= ts(i)}
           R == {p \in has \X has : ts(p[1]) > ts(p[2]) \/ (ts(p[1]) = ts(p[2]) /\ p[1] < p[2])}
<1>1. DOMAIN tables = 1 .. Len(tables) /\ Len(tables) \in Nat /\ \A i \in DOMAIN tables : tables[i] \in Table
    BY LenProperties, ElementOfSeq
<1>2. Merged(tables)[k] = IF has = {} THEN NoRow ELSE tables[Max(newest)][k]
    BY DEF Merged
<1>3. IsFiniteSet(DOMAIN tables)
    BY <1>1, FS_Interval
<1>4. IsFiniteSet(has) /\ has \in SUBSET Nat /\ has \subseteq DOMAIN tables
    <2>1. has \subseteq DOMAIN tables
        OBVIOUS
    <2>2. IsFiniteSet(has)
        BY <1>3, <2>1, FS_Subset
    <2>3. QED
        BY <1>1, <2>1, <2>2
<1>5. \A i \in has : ts(i) \in Nat
    BY <1>1 DEF Table, Row
<1>6. \A i \in DOMAIN tables : i \in has <=> tables[i][k] # NoRow
    OBVIOUS
<1>7. CASE has = {}
    BY <1>2, <1>6, <1>7 DEF MergesNewest
<1>8. CASE has # {}
    <2>1. \A i, j \in has : <<i, j>> \in R <=> ts(i) > ts(j) \/ (ts(i) = ts(j) /\ i < j)
        OBVIOUS
    <2> HIDE DEF R, has, ts
    <2>2. StrictOrder(R, has)
        <3>1. \A i \in has : i \in Nat /\ ts(i) \in Nat
            BY <1>4, <1>5
        <3>2. QED
            BY <2>1, <3>1 DEF StrictOrder
    <2>3. PICK x \in has : \A y \in has : <<y, x>> \notin R
        BY <1>4, <1>8, <2>2, FirstInOrder
    <2>4. \A y \in has : ts(y) <= ts(x)
        <3> TAKE y \in has
        <3>1. ~(ts(y) > ts(x)) /\ ts(x) \in Nat /\ ts(y) \in Nat
            BY <1>5, <2>1, <2>3
        <3>2. QED
            BY <3>1
    <2>5. newest \subseteq has /\ newest # {}
        BY <2>4
    <2>6. IsFiniteSet(newest) /\ newest \in SUBSET Nat
        BY <1>4, <2>5, FS_Subset
    <2>7. Max(newest) \in newest
        BY <2>5, <2>6, MaxIsGreatest
    <2> DEFINE m == Max(newest)
    <2>8. m \in has /\ \A j \in has : ts(j) <= ts(m)
        BY <2>7
    <2>9. Merged(tables)[k] = tables[m][k]
        BY <1>2, <1>8
    <2> HIDE DEF newest, m
    <2>10. m \in DOMAIN tables /\ tables[m][k] # NoRow
        BY <1>4, <1>6, <2>8
    <2>11. \A j \in DOMAIN tables : tables[j][k] # NoRow => tables[j][k].timestamp <= tables[m][k].timestamp
        BY <1>6, <2>8 DEF ts
    <2>12. QED
        BY <2>9, <2>10, <2>11 DEF MergesNewest
<1>9. QED
    BY <1>7, <1>8

LEMMA MergedType ==
    ASSUME NEW tables \in Seq(Table)
    PROVE  Merged(tables) \in Table
<1>1. \A k \in Key : Merged(tables)[k] \in Row \cup {NoRow}
    <2> TAKE k \in Key
    <2>1. \A i \in DOMAIN tables : tables[i][k] \in Row \cup {NoRow}
        BY LenProperties, ElementOfSeq DEF Table
    <2>2. MergesNewest(tables, k)
        BY MergedIsNewest
    <2>3. QED
        BY <2>1, <2>2 DEF MergesNewest
<1>2. Merged(tables) = [k \in Key |-> Merged(tables)[k]]
    BY DEF Merged
<1>3. QED
    BY <1>1, <1>2 DEF Table

LEMMA MergeTypes ==
    ASSUME TypeInv, MergeTables
    PROVE  TypeInv'
<1> DEFINE f == File(1, Merged(Rows(level0)))
<1>1. /\ pc = "merge" /\ isOpen /\ nextSSTableId \in Nat /\ DiskOK(disk)
      /\ level0 \in Seq(Reader) /\ level0 # <<>> /\ memTable = EmptyTable
    BY DEF MergeTables, TypeInv, LsmTypeOK
<1>2. /\ disk' = With(f) /\ nextSSTableId' = nextSSTableId + 1 /\ pc' = "unlink"
      /\ doomed' = [i \in DOMAIN level0 |-> level0[i].id]
      /\ UNCHANGED <<isOpen, memTable, byteSize, frozen, level0, level1, closing, clock>>
    BY DEF MergeTables
<1>3. f \in FileType /\ f.whole /\ f.level = 1
    <2>1. Merged(Rows(level0)) \in Table
        BY <1>1, RowsType, MergedType
    <2>2. QED
        BY <2>1 DEF FileType, File
<1> HIDE DEF f
<1>4. WithOK(disk', f)
    BY <1>1, <1>2, <1>3, WithFile
<1>5. \A i \in DOMAIN level0 : level0[i].id \in Nat /\ level0[i].id < nextSSTableId
    BY <1>1, RowsType DEF TypeInv
<1>6. doomed' \in Seq(Nat) /\ doomed' # <<>> /\ \A i \in DOMAIN doomed' : doomed'[i] < nextSSTableId
    <2>1. DOMAIN level0 = 1 .. Len(level0) /\ Len(level0) \in Nat /\ 1 \in DOMAIN level0
        BY <1>1, RowsType, EmptySeq
    <2>2. doomed' \in [1 .. Len(level0) -> Nat]
        BY <1>2, <1>5, <2>1
    <2>3. doomed' \in Seq(Nat) /\ DOMAIN doomed' = DOMAIN level0
        BY <2>1, <2>2, SeqDef
    <2>4. QED
        BY <1>2, <1>5, <2>1, <2>3
<1>7. nextSSTableId' - 1 = nextSSTableId /\ nextSSTableId' \in Nat
    BY <1>1, <1>2
<1>8. nextSSTableId' - 1 \in FilesOf(disk', 1) \ Range(doomed')
    <2>1. nextSSTableId \in FilesOf(disk', 1)
        BY <1>3, <1>4 DEF WithOK, FilesOf
    <2>2. nextSSTableId \notin Range(doomed')
        BY <1>1, <1>6 DEF Range
    <2>3. QED
        BY <1>7, <2>1, <2>2
<1>9. \A id \in DOMAIN disk' : id < nextSSTableId'
    <2>1. \A id \in DOMAIN disk : id < nextSSTableId /\ id \in Nat
        BY <1>1 DEF TypeInv, LsmTypeOK, DiskOK
    <2>2. QED
        BY <1>1, <1>2, <1>4, <2>1 DEF WithOK
<1>10. \A i \in DOMAIN level0' : level0'[i].id < nextSSTableId'
    BY <1>1, <1>2, <1>5
<1>11. LsmTypeOK'
    <2>1. \A id \in DOMAIN disk' : disk'[id] \in [level : {0, 1}, rows : Table, whole : BOOLEAN]
        BY <1>4 DEF WithOK, DiskOK, FileType
    <2>2. QED
        BY <1>1, <1>2, <1>6, <1>7, <1>9, <2>1 DEF TypeInv, LsmTypeOK
<1>12. QED
    BY <1>1, <1>2, <1>4, <1>8, <1>10, <1>11 DEF TypeInv, WithOK

\* What is removed, and what is left.
LEMMA UnlinkOne ==
    ASSUME TypeInv, UnlinkNext
    PROVE  /\ DiskOK(disk') /\ DOMAIN disk' = DOMAIN disk \ {Head(doomed)}
           /\ \A id \in DOMAIN disk' : disk'[id] = disk[id]
           /\ doomed \in Seq(Nat) /\ doomed # <<>>
           /\ doomed' = Tail(doomed) /\ doomed' \in Seq(Nat) /\ Len(doomed') = Len(doomed) - 1
           /\ Range(doomed) = Range(doomed') \cup {Head(doomed)}
           /\ pc = "unlink" /\ isOpen /\ memTable = EmptyTable
<1>1. /\ pc = "unlink" /\ doomed \in Seq(Nat) /\ doomed # <<>> /\ DiskOK(disk) /\ isOpen
      /\ memTable = EmptyTable
      /\ doomed' = Tail(doomed) /\ disk' = Restrict(disk, DOMAIN disk \ {Head(doomed)})
    BY DEF UnlinkNext, TypeInv, LsmTypeOK
<1>2. /\ DiskOK(disk') /\ DOMAIN disk' = DOMAIN disk \ {Head(doomed)}
      /\ \A id \in DOMAIN disk' : disk'[id] = disk[id]
    BY <1>1, FewerFiles
<1>3. /\ doomed' \in Seq(Nat) /\ Len(doomed') = Len(doomed) - 1
      /\ \A i \in 1 .. Len(doomed) - 1 : doomed'[i] = doomed[i + 1]
    BY <1>1, HeadTailProperties
<1>4. /\ DOMAIN doomed = 1 .. Len(doomed) /\ DOMAIN doomed' = 1 .. Len(doomed) - 1 /\ Len(doomed) \in Nat
      /\ Len(doomed) # 0 /\ Head(doomed) = doomed[1]
    BY <1>1, <1>3, LenProperties, EmptySeq, HeadTailProperties
<1>5. Range(doomed) = Range(doomed') \cup {Head(doomed)}
    <2>1. \A i \in 1 .. Len(doomed) : i = 1 \/ (i - 1 \in 1 .. Len(doomed) - 1 /\ (i - 1) + 1 = i)
        BY <1>4
    <2>2. \A i \in 1 .. Len(doomed) - 1 : i + 1 \in 1 .. Len(doomed)
        BY <1>4
    <2>3. 1 \in 1 .. Len(doomed)
        BY <1>4
    <2>4. \A i \in DOMAIN doomed : doomed[i] \in Range(doomed') \cup {Head(doomed)}
        <3> TAKE i \in DOMAIN doomed
        <3>1. CASE i = 1
            BY <1>4, <3>1
        <3>2. CASE i - 1 \in 1 .. Len(doomed) - 1 /\ (i - 1) + 1 = i
            <4>1. doomed'[i - 1] = doomed[i] /\ i - 1 \in DOMAIN doomed'
                BY <1>3, <1>4, <3>2
            <4>2. QED
                BY <4>1 DEF Range
        <3>3. QED
            BY <1>4, <2>1, <3>1, <3>2
    <2>5. \A i \in DOMAIN doomed' : doomed'[i] \in Range(doomed)
        BY <1>3, <1>4, <2>2 DEF Range
    <2>6. Head(doomed) \in Range(doomed)
        BY <1>4, <2>3 DEF Range
    <2>7. QED
        BY <2>4, <2>5, <2>6 DEF Range
<1>6. QED
    BY <1>1, <1>2, <1>3, <1>5

LEMMA UnlinkTypes ==
    ASSUME TypeInv, UnlinkNext
    PROVE  TypeInv'
<1> DEFINE new == nextSSTableId - 1
           r == [id |-> new, rows |-> disk[new].rows]
<1>1. /\ DiskOK(disk') /\ DOMAIN disk' = DOMAIN disk \ {Head(doomed)}
      /\ \A id \in DOMAIN disk' : disk'[id] = disk[id]
      /\ doomed' = Tail(doomed) /\ doomed' \in Seq(Nat)
      /\ Range(doomed) = Range(doomed') \cup {Head(doomed)}
      /\ pc = "unlink" /\ isOpen /\ memTable = EmptyTable
    BY UnlinkOne
<1>2. /\ UNCHANGED <<memTable, byteSize, frozen, nextSSTableId, clock>>
      /\ \/ /\ doomed' = <<>> /\ level0' = <<>> /\ level1' = <<r>> \o level1
            /\ pc' = "ready" /\ isOpen' = ~closing /\ closing' = FALSE
         \/ /\ doomed' # <<>>
            /\ UNCHANGED <<level0, level1, isOpen, pc, closing>>
    BY DEF UnlinkNext, EndCall, counters
<1>3. new \in FilesOf(disk, 1) \ Range(doomed) /\ level1 \in Seq(Reader) /\ level0 \in Seq(Reader)
    BY <1>1 DEF TypeInv, LsmTypeOK
<1>4. new \in FilesOf(disk', 1) \ Range(doomed') /\ new \in Nat /\ new \in DOMAIN disk
    BY <1>1, <1>3 DEF FilesOf, TypeInv, DiskOK
<1>5. r \in Reader
    BY <1>4 DEF Reader, TypeInv, DiskOK, FileType
<1>6. level1' \in Seq(Reader) /\ level0' \in Seq(Reader)
    <2> HIDE DEF r
    <2>1. <<r>> \o level1 \in Seq(Reader) /\ <<>> \in Seq(Reader)
        BY <1>3, <1>5, ReaderInFront, EmptySeq
    <2>2. level0' \in Seq(Reader)
        BY <1>2, <1>3, <2>1
    <2>3. level1' \in Seq(Reader)
        BY <1>2, <1>3, <2>1
    <2>4. QED
        BY <2>2, <2>3
<1>7. isOpen' \in BOOLEAN /\ closing' \in BOOLEAN /\ (isOpen' => isOpen)
    BY <1>1, <1>2 DEF TypeInv, LsmTypeOK
<1>8. \A id \in DOMAIN disk' : id < nextSSTableId'
    BY <1>1, <1>2 DEF TypeInv, LsmTypeOK
<1>9. LsmTypeOK'
    <2>1. \A id \in DOMAIN disk' : disk'[id] \in [level : {0, 1}, rows : Table, whole : BOOLEAN]
        BY <1>1 DEF DiskOK, FileType
    <2>2. pc' \in {"ready", "flush", "merge", "unlink"} /\ (pc' = "unlink" <=> doomed' # <<>>)
        BY <1>1, <1>2
    <2>3. QED
        BY <1>1, <1>2, <1>6, <1>7, <1>8, <2>1, <2>2 DEF TypeInv, LsmTypeOK
<1> HIDE DEF r
<1>10. \A i \in DOMAIN level0' : level0'[i].id < nextSSTableId'
    BY <1>2 DEF TypeInv
<1>11. QED
    BY <1>1, <1>2, <1>4, <1>9, <1>10 DEF TypeInv

LEMMA TornType ==
    ASSUME NEW l \in {0, 1}
    PROVE  TornFile(l) \in FileType /\ TornFile(l).rows = EmptyTable /\ ~TornFile(l).whole
BY EmptyTableType DEF TornFile, FileType

LEMMA FailureTypes ==
    ASSUME TypeInv, WriteFails
    PROVE  TypeInv'
<1> DEFINE l == IF pc = "flush" THEN 0 ELSE 1
<1>1. /\ pc \in {"flush", "merge"} /\ isOpen /\ nextSSTableId \in Nat /\ DiskOK(disk) /\ doomed = <<>>
      /\ level0 \in Seq(Reader)
    BY DEF WriteFails, TypeInv, LsmTypeOK
<1>2. /\ frozen' = (frozen \/ pc = "flush") /\ disk' \in {disk, With(TornFile(l))}
      /\ nextSSTableId' = nextSSTableId + 1 /\ pc' = "ready" /\ closing' = FALSE
      /\ UNCHANGED <<isOpen, memTable, byteSize, level0, level1, doomed, clock>>
    BY DEF WriteFails
<1>3. l \in {0, 1}
    OBVIOUS
<1> HIDE DEF l
<1>4. DiskOK(disk') /\ DOMAIN disk' \subseteq DOMAIN disk \cup {nextSSTableId}
    <2>1. WithOK(With(TornFile(l)), TornFile(l))
        BY <1>1, <1>3, TornType, WithFile
    <2>2. QED
        BY <1>1, <1>2, <2>1 DEF WithOK
<1>5. \A id \in DOMAIN disk' : id < nextSSTableId'
    <2>1. \A id \in DOMAIN disk : id < nextSSTableId /\ id \in Nat
        BY <1>1 DEF TypeInv, LsmTypeOK, DiskOK
    <2>2. QED
        BY <1>1, <1>2, <1>4, <2>1
<1>6. frozen' \in BOOLEAN /\ (frozen' => memTable # EmptyTable)
    BY <1>2 DEF TypeInv, LsmTypeOK
<1>7. nextSSTableId' \in Nat
    BY <1>1, <1>2
<1>8. LsmTypeOK'
    <2>1. \A id \in DOMAIN disk' : disk'[id] \in [level : {0, 1}, rows : Table, whole : BOOLEAN]
        BY <1>4 DEF DiskOK, FileType
    <2>2. QED
        BY <1>1, <1>2, <1>5, <1>6, <1>7, <2>1 DEF TypeInv, LsmTypeOK
<1>9. \A i \in DOMAIN level0' : level0'[i].id < nextSSTableId'
    <2>1. \A i \in DOMAIN level0 : level0[i].id \in Nat /\ level0[i].id < nextSSTableId
        BY <1>1, RowsType DEF TypeInv
    <2>2. QED
        BY <1>1, <1>2, <2>1
<1>10. QED
    BY <1>1, <1>2, <1>4, <1>8, <1>9 DEF TypeInv

LEMMA CrashTypes ==
    ASSUME TypeInv, CrashTree
    PROVE  TypeInv'
<1> DEFINE l == IF pc = "flush" THEN 0 ELSE 1
<1>1. isOpen /\ nextSSTableId \in Nat /\ DiskOK(disk)
    BY DEF CrashTree, TypeInv, LsmTypeOK
<1>2. /\ disk' \in {disk, With(TornFile(l))}
      /\ isOpen' = FALSE /\ memTable' = EmptyTable /\ byteSize' = 0 /\ frozen' = FALSE
      /\ level0' = <<>> /\ level1' = <<>> /\ nextSSTableId' = 1
      /\ pc' = "ready" /\ doomed' = <<>> /\ closing' = FALSE /\ clock' = clock
    BY DEF CrashTree
<1>3. l \in {0, 1}
    OBVIOUS
<1> HIDE DEF l
<1>4. DiskOK(disk')
    <2>1. WithOK(With(TornFile(l)), TornFile(l))
        BY <1>1, <1>3, TornType, WithFile
    <2>2. QED
        BY <1>1, <1>2, <2>1 DEF WithOK
<1>5. LsmTypeOK'
    <2>1. \A id \in DOMAIN disk' : disk'[id] \in [level : {0, 1}, rows : Table, whole : BOOLEAN]
        BY <1>4 DEF DiskOK, FileType
    <2>2. <<>> \in Seq(Reader) /\ <<>> \in Seq(Nat)
        BY EmptySeq
    <2>3. QED
        BY <1>2, <2>1, <2>2, EmptyTableType DEF TypeInv, LsmTypeOK
<1>6. QED
    BY <1>2, <1>4, <1>5 DEF TypeInv

\* open sets the next id behind those of all files.
LEMMA NextIdIsFree ==
    ASSUME TypeInv, Open
    PROVE  /\ nextSSTableId' \in Nat /\ nextSSTableId' >= nextSSTableId
           /\ \A id \in DOMAIN disk : id < nextSSTableId'
<1> DEFINE S == {id + 1 : id \in DOMAIN disk}
           T == {nextSSTableId} \cup S
<1>1. nextSSTableId \in Nat /\ IsFiniteSet(DOMAIN disk) /\ DOMAIN disk \in SUBSET Nat
      /\ nextSSTableId' = Max(T)
    BY DEF Open, TypeInv, LsmTypeOK, DiskOK
<1>2. \A x \in S : \E id \in DOMAIN disk : x = id + 1
    OBVIOUS
<1>3. \A id \in DOMAIN disk : id + 1 \in S
    OBVIOUS
<1> HIDE DEF S
<1>4. S \in SUBSET Nat
    BY <1>1, <1>2
<1>5. IsFiniteSet(S)
    <2>1. CASE DOMAIN disk = {}
        BY <1>2, <2>1, FS_EmptySet
    <2>2. CASE DOMAIN disk # {}
        <3> DEFINE top == Max(DOMAIN disk)
        <3>1. top \in Nat /\ \A y \in DOMAIN disk : top >= y
            BY <1>1, <2>2, MaxIsGreatest
        <3> HIDE DEF top
        <3>2. top + 1 \in Nat /\ \A x \in S : x <= top + 1
            BY <1>1, <1>2, <3>1
        <3>3. QED
            BY <1>4, <3>2, FS_BoundedSetOfNaturals
    <2>3. QED
        BY <2>1, <2>2
<1>6. T \in SUBSET Nat /\ T # {} /\ IsFiniteSet(T)
    BY <1>1, <1>4, <1>5, FS_Singleton, FS_Union
<1>7. Max(T) \in T /\ \A y \in T : Max(T) >= y
    BY <1>6, MaxIsGreatest
<1>8. nextSSTableId' \in Nat /\ nextSSTableId' >= nextSSTableId
    BY <1>1, <1>6, <1>7
<1>9. \A id \in DOMAIN disk : nextSSTableId' >= id + 1
    BY <1>1, <1>3, <1>7
<1>10. QED
    BY <1>1, <1>8, <1>9

LEMMA OpenTypes ==
    ASSUME TypeInv, Open
    PROVE  TypeInv'
<1>1. /\ ~isOpen /\ pc = "ready" /\ memTable = EmptyTable /\ DiskOK(disk)
      /\ nextSSTableId \in Nat /\ level0 \in Seq(Reader) /\ level1 \in Seq(Reader)
      /\ \A id \in DOMAIN disk : disk[id].whole
      /\ level0' = level0 \o ReadersOf(disk, 0) /\ level1' = level1 \o ReadersOf(disk, 1)
      /\ isOpen' = TRUE
      /\ UNCHANGED <<memTable, byteSize, frozen, disk, pc, doomed, closing, clock>>
    BY DEF Open, TypeInv, LsmTypeOK
<1>2. /\ nextSSTableId' \in Nat /\ nextSSTableId' >= nextSSTableId
      /\ \A id \in DOMAIN disk : id < nextSSTableId'
    BY NextIdIsFree
<1>3. Serves(ReadersOf(disk, 0), FilesOf(disk, 0), disk) /\ Serves(ReadersOf(disk, 1), FilesOf(disk, 1), disk)
    BY <1>1, ReadersServe
<1>4. level0' \in Seq(Reader) /\ level1' \in Seq(Reader)
    BY <1>1, <1>3, ConcatProperties DEF Serves
<1>5. \A i \in DOMAIN level0' : level0'[i].id < nextSSTableId'
    <2> DEFINE more == ReadersOf(disk, 0)
    <2>1. more \in Seq(Reader) /\ \A i \in DOMAIN more : more[i].id \in DOMAIN disk
        BY <1>3 DEF Serves, Ids
    <2> HIDE DEF more
    <2>2. /\ Len(level0) \in Nat /\ Len(more) \in Nat
          /\ DOMAIN level0 = 1 .. Len(level0) /\ DOMAIN more = 1 .. Len(more)
          /\ DOMAIN level0' = 1 .. Len(level0) + Len(more)
          /\ \A i \in 1 .. Len(level0) + Len(more) :
                level0'[i] = IF i <= Len(level0) THEN level0[i] ELSE more[i - Len(level0)]
        BY <1>1, <1>4, <2>1, ConcatProperties, LenProperties DEF more
    <2> TAKE i \in DOMAIN level0'
    <2>3. CASE i <= Len(level0)
        <3>1. i \in DOMAIN level0 /\ level0'[i] = level0[i]
            BY <2>2, <2>3
        <3>2. level0[i].id < nextSSTableId /\ level0[i].id \in Nat
            BY <1>1, <3>1, RowsType DEF TypeInv
        <3>3. QED
            BY <1>1, <1>2, <3>1, <3>2
    <2>4. CASE ~(i <= Len(level0))
        <3>1. i - Len(level0) \in DOMAIN more /\ level0'[i] = more[i - Len(level0)]
            BY <2>2, <2>4
        <3>2. QED
            BY <1>2, <2>1, <3>1
    <2>5. QED
        BY <2>3, <2>4
<1>6. LsmTypeOK'
    BY <1>1, <1>2, <1>4 DEF TypeInv, LsmTypeOK
<1>7. QED
    BY <1>1, <1>5, <1>6 DEF TypeInv, FilesOf

LEMMA TypeInvInit == LsmInit => TypeInv
<1> SUFFICES ASSUME LsmInit PROVE TypeInv
    OBVIOUS
<1>1. <<>> \in Seq(Reader) /\ <<>> \in Seq(Nat) /\ DOMAIN <<>> = {}
    BY EmptySeq
<1>2. /\ isOpen = FALSE /\ frozen = FALSE /\ closing = FALSE /\ memTable = EmptyTable
      /\ byteSize = 0 /\ nextSSTableId = 1 /\ level0 = <<>> /\ level1 = <<>> /\ clock = 0
      /\ DOMAIN disk = {} /\ pc = "ready" /\ doomed = <<>>
    BY <1>1 DEF LsmInit
<1>3. DOMAIN level0 = {}
    BY <1>1, <1>2
<1>4. LsmTypeOK
    <2>1. isOpen \in BOOLEAN /\ frozen \in BOOLEAN /\ closing \in BOOLEAN
        BY <1>2
    <2>2. level0 \in Seq(Reader) /\ level1 \in Seq(Reader) /\ doomed \in Seq(Nat)
        BY <1>1, <1>2
    <2>3. memTable \in Table
        BY <1>2, EmptyTableType
    <2>4. byteSize \in Nat /\ nextSSTableId \in Nat /\ clock \in Nat
        BY <1>2
    <2>5. QED
        BY <1>2, <2>1, <2>2, <2>3, <2>4 DEF LsmTypeOK
<1>5. DiskOK(disk)
    BY <1>2, FS_EmptySet DEF DiskOK
<1>6. QED
    BY <1>2, <1>3, <1>4, <1>5 DEF TypeInv

LEMMA TypeInvStep ==
    ASSUME TypeInv, [LsmNext]_lsmVars
    PROVE  TypeInv'
<1>1. CASE UNCHANGED lsmVars
    <2>1. UNCHANGED <<isOpen, memTable, byteSize, frozen, level0, level1, nextSSTableId,
                      disk, pc, doomed, closing, clock>>
        BY <1>1, Unpack DEF lsmVars
    <2>2. LsmTypeOK'
        BY <2>1 DEF TypeInv, LsmTypeOK
    <2>3. QED
        BY <2>1, <2>2 DEF TypeInv, FilesOf
<1>2. CASE LsmNext
    BY <1>2, WriteTypes, CloseTypes, FlushTypes, MergeTypes, UnlinkTypes, FailureTypes,
       CrashTypes, OpenTypes DEF LsmNext
<1>3. QED
    BY <1>1, <1>2

\* The types, whatever the sizes, thresholds, deaths and failures are.
THEOREM LsmTypes == LsmSpec => []LsmTypeOK
<1>1. TypeInv => LsmTypeOK
    BY DEF TypeInv
<1>2. QED
    BY <1>1, TypeInvInit, TypeInvStep, PTL DEF LsmSpec

-----------------------------------------------------------------------------
(* Without two rows of one time the order of the tables is the order of     *)
(* their rows.                                                              *)

LEMMA ServesOther ==
    ASSUME NEW list, NEW ids, NEW d, NEW e, Serves(list, ids, d), ids \subseteq DOMAIN e,
           \A id \in ids : e[id].rows = d[id].rows
    PROVE  Serves(list, ids, e)
<1>1. list \in Seq(Reader) /\ Ids(list) = ids /\ NewestFirst(list)
      /\ \A i \in DOMAIN list : list[i].rows = d[list[i].id].rows
    BY DEF Serves
<1>2. \A i \in DOMAIN list : list[i].id \in ids
    BY <1>1 DEF Ids
<1>3. QED
    BY <1>1, <1>2 DEF Serves

LEMMA ServesInFront ==
    ASSUME NEW list, NEW ids \in SUBSET Nat, NEW d, Serves(list, ids, d),
           NEW r \in Reader, \A id \in ids : id < r.id, r.id \in DOMAIN d, d[r.id].rows = r.rows
    PROVE  Serves(<<r>> \o list, ids \cup {r.id}, d)
<1> DEFINE m == <<r>> \o list
<1>1. /\ list \in Seq(Reader) /\ Ids(list) = ids /\ NewestFirst(list) /\ ids \subseteq DOMAIN d
      /\ \A i \in DOMAIN list : list[i].rows = d[list[i].id].rows
    BY DEF Serves
<1>2. /\ m \in Seq(Reader) /\ DOMAIN m = 1 .. Len(list) + 1 /\ m[1] = r
      /\ \A i \in DOMAIN list : i + 1 \in DOMAIN m /\ m[i + 1] = list[i]
      /\ \A i \in DOMAIN m : i = 1 \/ i - 1 \in DOMAIN list
    BY <1>1, ReaderInFront
<1>3. DOMAIN list = 1 .. Len(list) /\ Len(list) \in Nat
    BY <1>1, LenProperties
<1> HIDE DEF m
<1>4. \A i \in DOMAIN m : i = 1 \/ (i - 1 \in DOMAIN list /\ m[i] = list[i - 1])
    <2> TAKE i \in DOMAIN m
    <2>1. i \in Nat /\ (i - 1) + 1 = i
        BY <1>2, <1>3
    <2>2. QED
        BY <1>2, <2>1
<1>5. \A i \in DOMAIN list : list[i].id \in ids
    BY <1>1 DEF Ids
<1>6. Ids(m) = ids \cup {r.id}
    <2>1. \A i \in DOMAIN m : m[i].id \in ids \cup {r.id}
        BY <1>2, <1>4, <1>5
    <2>2. \A id \in ids : \E i \in DOMAIN m : m[i].id = id
        BY <1>1, <1>2 DEF Ids
    <2>3. 1 \in DOMAIN m
        BY <1>2, <1>3
    <2>4. Ids(m) \subseteq ids \cup {r.id}
        BY <2>1 DEF Ids
    <2>5. ids \subseteq Ids(m)
        BY <2>2 DEF Ids
    <2>6. r.id \in Ids(m)
        BY <1>2, <2>3 DEF Ids
    <2>7. QED
        BY <2>4, <2>5, <2>6
<1>7. NewestFirst(m)
    <2> SUFFICES ASSUME NEW i \in DOMAIN m, NEW j \in DOMAIN m, m[i].id > m[j].id
                 PROVE  \E h \in 1 .. j - 1 : m[h].id = m[i].id
        BY DEF NewestFirst
    <2>0. \A id \in ids : id < r.id /\ id \in Nat /\ r.id \in Nat
        BY DEF Reader
    <2>1. j # 1
        <3>1. CASE i = 1
            BY <1>2, <2>0, <3>1 DEF Reader
        <3>2. CASE i # 1
            <4>1. m[i].id \in ids
                BY <1>4, <1>5, <3>2
            <4>2. m[i].id < r.id /\ m[i].id \in Nat /\ r.id \in Nat
                BY <2>0, <4>1
            <4>3. ~(m[i].id > r.id)
                BY <4>2
            <4>4. QED
                BY <1>2, <4>3
        <3>3. QED
            BY <3>1, <3>2
    <2>2. j - 1 \in DOMAIN list /\ m[j] = list[j - 1]
        BY <1>4, <2>1
    <2>3. CASE i = 1
        <3>1. 1 \in 1 .. j - 1
            BY <1>3, <2>2
        <3>2. QED
            BY <2>3, <3>1
    <2>4. CASE i # 1
        <3>1. i - 1 \in DOMAIN list /\ m[i] = list[i - 1]
            BY <1>4, <2>4
        <3>2. PICK h \in 1 .. j - 1 - 1 : list[h].id = list[i - 1].id
            BY <1>1, <2>2, <3>1 DEF NewestFirst
        <3>3. h \in DOMAIN list /\ h + 1 \in 1 .. j - 1
            BY <1>3, <2>2
        <3>4. QED
            BY <1>2, <3>1, <3>2, <3>3
    <2>5. QED
        BY <2>3, <2>4
<1>8. \A i \in DOMAIN m : m[i].rows = d[m[i].id].rows
    <2> TAKE i \in DOMAIN m
    <2>1. CASE i = 1
        BY <1>2, <2>1
    <2>2. CASE i - 1 \in DOMAIN list /\ m[i] = list[i - 1]
        BY <1>1, <2>2
    <2>3. QED
        BY <1>4, <2>1, <2>2
<1>9. QED
    BY <1>1, <1>2, <1>6, <1>7, <1>8 DEF Serves, m

\* What open() adds to the readers of an object that was closed are the same files.
LEMMA ServesTwice ==
    ASSUME NEW list, NEW more, NEW ids \in SUBSET Nat, NEW d, Serves(more, ids, d),
           Serves(list, ids, d) \/ list = <<>>
    PROVE  Serves(list \o more, ids, d)
<1> DEFINE m == list \o more
<1>1. /\ more \in Seq(Reader) /\ Ids(more) = ids /\ NewestFirst(more) /\ ids \subseteq DOMAIN d
      /\ \A i \in DOMAIN more : more[i].rows = d[more[i].id].rows
    BY DEF Serves
<1>2. CASE list = <<>>
    BY <1>1, <1>2, ConcatEmptySeq
<1>3. CASE Serves(list, ids, d)
    <2>1. /\ list \in Seq(Reader) /\ Ids(list) = ids /\ NewestFirst(list)
          /\ \A i \in DOMAIN list : list[i].rows = d[list[i].id].rows
        BY <1>3 DEF Serves
    <2>2. /\ m \in Seq(Reader) /\ DOMAIN m = 1 .. Len(list) + Len(more)
          /\ \A i \in 1 .. Len(list) + Len(more) :
                m[i] = IF i <= Len(list) THEN list[i] ELSE more[i - Len(list)]
          /\ Len(list) \in Nat /\ Len(more) \in Nat
          /\ DOMAIN list = 1 .. Len(list) /\ DOMAIN more = 1 .. Len(more)
        BY <1>1, <2>1, ConcatProperties, LenProperties
    <2> HIDE DEF m
    <2>3. \A i \in DOMAIN list : i \in DOMAIN m /\ m[i] = list[i]
        <3> TAKE i \in DOMAIN list
        <3>1. i \in 1 .. Len(list) + Len(more) /\ i <= Len(list)
            BY <2>2
        <3>2. QED
            BY <2>2, <3>1
    <2>4. \A i \in DOMAIN m : \/ i \in DOMAIN list /\ m[i] = list[i]
                              \/ i > Len(list) /\ i - Len(list) \in DOMAIN more
                                 /\ m[i] = more[i - Len(list)]
        <3> TAKE i \in DOMAIN m
        <3>1. CASE i <= Len(list)
            <4>1. i \in DOMAIN list
                BY <2>2, <3>1
            <4>2. QED
                BY <2>3, <4>1
        <3>2. CASE ~(i <= Len(list))
            <4>1. i > Len(list) /\ i - Len(list) \in DOMAIN more
                BY <2>2, <3>2
            <4>2. QED
                BY <2>2, <3>2, <4>1
        <3>3. QED
            BY <3>1, <3>2
    <2>5. \A i \in DOMAIN m : m[i].id \in ids /\ m[i].rows = d[m[i].id].rows
        <3>1. \A i \in DOMAIN list : list[i].id \in ids
            BY <2>1 DEF Ids
        <3>2. \A i \in DOMAIN more : more[i].id \in ids
            BY <1>1 DEF Ids
        <3> TAKE i \in DOMAIN m
        <3>3. CASE i \in DOMAIN list /\ m[i] = list[i]
            BY <2>1, <3>1, <3>3
        <3>4. CASE i - Len(list) \in DOMAIN more /\ m[i] = more[i - Len(list)]
            BY <1>1, <3>2, <3>4
        <3>5. QED
            BY <2>4, <3>3, <3>4
    <2>6. \A id \in ids : \E i \in DOMAIN list : list[i].id = id
        BY <2>1 DEF Ids
    <2>7. Ids(m) = ids
        <3>1. Ids(m) \subseteq ids
            BY <2>5 DEF Ids
        <3>2. ids \subseteq Ids(m)
            BY <2>3, <2>6 DEF Ids
        <3>3. QED
            BY <3>1, <3>2
    <2>8. NewestFirst(m)
        <3> SUFFICES ASSUME NEW i \in DOMAIN m, NEW j \in DOMAIN m, m[i].id > m[j].id
                     PROVE  \E h \in 1 .. j - 1 : m[h].id = m[i].id
            BY DEF NewestFirst
        <3>1. PICK g \in DOMAIN list : list[g].id = m[i].id
            BY <2>5, <2>6
        <3>2. CASE j \in DOMAIN list /\ m[j] = list[j]
            <4>1. PICK h \in 1 .. j - 1 : list[h].id = list[g].id
                BY <2>1, <3>1, <3>2 DEF NewestFirst
            <4>2. h \in DOMAIN list
                BY <2>2, <3>2
            <4>3. QED
                BY <2>3, <3>1, <4>1, <4>2
        <3>3. CASE j > Len(list)
            <4>1. g \in 1 .. j - 1
                BY <2>2, <3>3
            <4>2. QED
                BY <2>3, <3>1, <4>1
        <3>4. QED
            BY <2>4, <3>2, <3>3
    <2>9. QED
        BY <1>1, <2>2, <2>5, <2>7, <2>8 DEF Serves, m
<1>4. QED
    BY <1>2, <1>3

\* The merge keeps what readers of its inputs would find.
LEMMA MergedIsFirst ==
    ASSUME NEW d, DiskOK(d), FilesOrdered(d), NEW list, Serves(list, FilesOf(d, 0), d), NEW k \in Key
    PROVE  Merged(Rows(list))[k] = FirstRow(Rows(list), k)
<1> DEFINE tables == Rows(list)
           ids == FilesOf(d, 0)
<1>1. /\ tables \in Seq(Table) /\ DOMAIN list = 1 .. Len(list) /\ Len(list) \in Nat
      /\ DOMAIN tables = DOMAIN list
      /\ \A i \in DOMAIN list : tables[i] = list[i].rows
    BY RowsType DEF Serves
<1>2. FirstDecides(tables, k) /\ MergesNewest(tables, k)
    BY <1>1, FirstRowDecides, MergedIsNewest
<1>3. \A i \in DOMAIN list : list[i].id \in ids /\ tables[i] = d[list[i].id].rows
    BY <1>1 DEF Serves, Ids
<1>4. \A id \in ids : id \in Nat /\ d[id].rows \in Table
    BY FilesType DEF DiskOK, FileType
<1>5. CASE \A i \in DOMAIN tables : tables[i][k] = NoRow
    BY <1>2, <1>5 DEF FirstDecides, MergesNewest
<1>6. CASE \E i \in DOMAIN tables : tables[i][k] # NoRow
    <2>1. PICK i \in DOMAIN tables :
              /\ tables[i][k] # NoRow /\ Merged(tables)[k] = tables[i][k]
              /\ \A j \in DOMAIN tables :
                    tables[j][k] # NoRow => tables[j][k].timestamp <= tables[i][k].timestamp
        BY <1>2, <1>6 DEF MergesNewest
    <2>2. PICK j \in DOMAIN tables : /\ tables[j][k] # NoRow /\ FirstRow(tables, k) = tables[j][k]
                                     /\ \A h \in 1 .. j - 1 : tables[h][k] = NoRow
        BY <1>2, <1>6 DEF FirstDecides
    <2> DEFINE a == list[i].id
               b == list[j].id
    <2>3. /\ a \in ids /\ b \in ids /\ tables[i] = d[a].rows /\ tables[j] = d[b].rows
          /\ a \in Nat /\ b \in Nat
        BY <1>1, <1>3, <1>4, <2>1, <2>2
    <2>4. ~(a > b)
        <3> SUFFICES ASSUME a > b PROVE FALSE
            OBVIOUS
        <3>1. PICK h \in 1 .. j - 1 : list[h].id = a
            BY <1>1, <2>1, <2>2 DEF Serves, NewestFirst
        <3>2. h \in DOMAIN list
            BY <1>1, <2>2
        <3>3. QED
            BY <1>3, <2>1, <2>2, <2>3, <3>1, <3>2
    <2>5. ~(a < b)
        <3> SUFFICES ASSUME a < b PROVE FALSE
            OBVIOUS
        <3>1. d[a].rows[k].timestamp < d[b].rows[k].timestamp
            BY <2>1, <2>2, <2>3 DEF FilesOrdered
        <3>2. d[b].rows[k].timestamp <= d[a].rows[k].timestamp
            BY <2>1, <2>2, <2>3
        <3>3. d[a].rows[k] \in Row /\ d[b].rows[k] \in Row
            BY <1>4, <2>1, <2>2, <2>3 DEF Table
        <3>4. d[a].rows[k].timestamp \in Nat /\ d[b].rows[k].timestamp \in Nat
            BY <3>3 DEF Row
        <3>5. QED
            BY <3>1, <3>2, <3>4
    <2>6. a = b
        BY <2>3, <2>4, <2>5
    <2>7. QED
        BY <2>1, <2>2, <2>3, <2>6
<1>7. QED
    BY <1>5, <1>6

\* What a new file is to the files of a level.
LEMMA FilesWith ==
    ASSUME NEW e, NEW f, WithOK(e, f), nextSSTableId \notin DOMAIN disk, NEW l
    PROVE  /\ FilesOf(e, l) = FilesOf(disk, l) \cup IF f.level = l /\ f.whole THEN {nextSSTableId} ELSE {}
           /\ \A id \in DOMAIN disk : e[id] = disk[id]
<1>1. \A id \in DOMAIN disk : e[id] = disk[id] /\ id \in DOMAIN e
    BY DEF WithOK
<1>2. DOMAIN e = DOMAIN disk \cup {nextSSTableId} /\ e[nextSSTableId] = f
    BY DEF WithOK
<1>3. QED
    BY <1>1, <1>2 DEF FilesOf

LEMMA WriteOrder ==
    ASSUME TypeInv, OrderInv, ~TiesAllowed, NEW k \in Key, NEW v \in Value \cup {None}, Write(k, v)
    PROVE  OrderInv'
<1>1. /\ isOpen /\ pc = "ready" /\ clock' = clock + 1 /\ pc' \in {"flush", "ready"}
      /\ memTable' = [memTable EXCEPT ![k] = [value |-> v, timestamp |-> clock']]
      /\ UNCHANGED <<isOpen, frozen, level0, level1, nextSSTableId, disk, doomed, closing>>
    BY DEF Write
<1>2. memTable \in Table /\ clock \in Nat /\ DiskOK(disk)
    BY DEF TypeInv, LsmTypeOK
<1>3. MemoryNewest(memTable', disk, clock')
    <2> SUFFICES ASSUME NEW q \in Key
                 PROVE  /\ memTable'[q] # NoRow => memTable'[q].timestamp <= clock'
                        /\ \A a \in FilesOf(disk, 0) : disk[a].rows[q] # NoRow =>
                              /\ disk[a].rows[q].timestamp <= clock'
                              /\ memTable'[q] # NoRow => disk[a].rows[q].timestamp < memTable'[q].timestamp
        BY DEF MemoryNewest
    <2>1. \A a \in FilesOf(disk, 0) : disk[a].rows[q] # NoRow =>
              disk[a].rows[q].timestamp \in Nat /\ disk[a].rows[q].timestamp <= clock
        <3> SUFFICES ASSUME NEW a \in FilesOf(disk, 0), disk[a].rows[q] # NoRow
                     PROVE  disk[a].rows[q].timestamp \in Nat /\ disk[a].rows[q].timestamp <= clock
            OBVIOUS
        <3>1. a \in DOMAIN disk
            BY DEF FilesOf
        <3>2. disk[a].rows[q] \in Row
            BY <1>2, <3>1 DEF DiskOK, FileType, Table
        <3>3. QED
            BY <3>2 DEF Row, OrderInv, MemoryNewest
    <2>2. CASE q = k
        <3>1. memTable'[q].timestamp = clock'
            BY <1>1, <1>2, <2>2 DEF Table
        <3>2. QED
            BY <1>1, <1>2, <2>1, <3>1
    <2>3. CASE q # k
        <3>1. memTable'[q] = memTable[q]
            BY <1>1, <1>2, <2>3 DEF Table
        <3>2. memTable[q] # NoRow => memTable[q].timestamp \in Nat /\ memTable[q].timestamp <= clock
            BY <1>2 DEF Table, Row, OrderInv, MemoryNewest
        <3>3. \A a \in FilesOf(disk, 0) : disk[a].rows[q] # NoRow /\ memTable[q] # NoRow =>
                  disk[a].rows[q].timestamp < memTable[q].timestamp
            BY DEF OrderInv, MemoryNewest
        <3>4. QED
            BY <1>1, <1>2, <2>1, <3>1, <3>2, <3>3
    <2>4. QED
        BY <2>2, <2>3
<1>4. doomed' = <<>> /\ Level(level0, 0)' /\ Level(level1, 1)'
    BY <1>1 DEF OrderInv, Level
<1>5. FilesOrdered(disk')
    BY <1>1 DEF OrderInv
<1>6. MemoryNewest(memTable', disk', clock')
    BY <1>1, <1>3
<1>7. pc' # "unlink"
    BY <1>1
<1>8. QED
    BY <1>4, <1>5, <1>6, <1>7 DEF OrderInv

LEMMA CloseOrder ==
    ASSUME TypeInv, OrderInv, CloseTree
    PROVE  OrderInv'
<1>1. /\ isOpen /\ pc = "ready" /\ pc' \in {"flush", "ready"}
      /\ UNCHANGED <<memTable, level0, level1, disk, doomed, clock>>
    BY DEF CloseTree
<1>2. Serves(level0, FilesOf(disk, 0), disk) /\ Serves(level1, FilesOf(disk, 1), disk) /\ doomed = <<>>
    BY <1>1 DEF OrderInv, Level
<1>3. Level(level0, 0)' /\ Level(level1, 1)'
    BY <1>1, <1>2 DEF Level
<1>4. FilesOrdered(disk') /\ MemoryNewest(memTable', disk', clock')
    BY <1>1 DEF OrderInv
<1>5. pc' # "unlink"
    BY <1>1
<1>6. QED
    BY <1>1, <1>2, <1>3, <1>4, <1>5 DEF OrderInv

\* Rows have times.
LEMMA TimesAre ==
    ASSUME TypeInv, NEW k \in Key
    PROVE  /\ memTable[k] # NoRow => memTable[k].timestamp \in Nat
           /\ \A a \in DOMAIN disk : disk[a].rows[k] # NoRow => disk[a].rows[k].timestamp \in Nat
<1>1. memTable[k] \in Row \cup {NoRow}
    BY DEF TypeInv, LsmTypeOK, Table
<1>2. \A a \in DOMAIN disk : disk[a].rows[k] \in Row \cup {NoRow}
    BY DEF TypeInv, DiskOK, FileType, Table
<1>3. QED
    BY <1>1, <1>2 DEF Row

LEMMA FlushOrder ==
    ASSUME TypeInv, OrderInv, FlushMemTable
    PROVE  OrderInv'
<1> DEFINE n == nextSSTableId
           r == [id |-> n, rows |-> memTable]
           f == [level |-> 0, rows |-> memTable, whole |-> TRUE]
<1>1. /\ pc = "flush" /\ isOpen /\ n \in Nat /\ memTable \in Table /\ DiskOK(disk) /\ clock \in Nat
      /\ level0 \in Seq(Reader) /\ doomed = <<>>
    BY DEF FlushMemTable, TypeInv, LsmTypeOK
<1>2. /\ disk' = With(f) /\ level0' = <<r>> \o level0 /\ memTable' = EmptyTable
      /\ pc' \in {"merge", "ready"}
      /\ UNCHANGED <<level1, doomed, clock>>
    BY DEF FlushMemTable, File, EndCall
<1>3. f \in FileType /\ f.whole /\ f.level = 0 /\ f.rows = memTable
    BY <1>1 DEF FileType
<1>4. WithOK(disk', f)
    BY <1>1, <1>2, <1>3, WithFile
<1>5. r \in Reader /\ r.id = n /\ r.rows = memTable
    BY <1>1 DEF Reader
<1> HIDE DEF f, r
<1>6. \A id \in DOMAIN disk : id < n /\ id \in Nat
    BY <1>1 DEF TypeInv, LsmTypeOK, DiskOK
<1>7. n \notin DOMAIN disk
    BY <1>1, <1>6
<1>8. /\ FilesOf(disk', 0) = FilesOf(disk, 0) \cup {n} /\ FilesOf(disk', 1) = FilesOf(disk, 1)
      /\ \A id \in DOMAIN disk : disk'[id] = disk[id]
    <2>1. FilesOf(disk', 0) = FilesOf(disk, 0) \cup IF f.level = 0 /\ f.whole THEN {n} ELSE {}
        BY <1>4, <1>7, FilesWith
    <2>2. FilesOf(disk', 1) = FilesOf(disk, 1) \cup IF f.level = 1 /\ f.whole THEN {n} ELSE {}
        BY <1>4, <1>7, FilesWith
    <2>3. \A id \in DOMAIN disk : disk'[id] = disk[id]
        BY <1>4, <1>7, FilesWith
    <2>4. f.whole /\ f.level = 0 /\ f.level # 1
        BY <1>3
    <2>5. QED
        BY <2>1, <2>2, <2>3, <2>4
<1>9. disk'[n].rows = memTable /\ n \in DOMAIN disk' /\ DOMAIN disk \subseteq DOMAIN disk'
    BY <1>3, <1>4 DEF WithOK
<1>10. \A l : FilesOf(disk, l) \subseteq DOMAIN disk /\ FilesOf(disk, l) \in SUBSET Nat
    BY <1>1, FilesType
<1>11. FilesOrdered(disk')
    <2> SUFFICES ASSUME NEW a \in FilesOf(disk', 0), NEW b \in FilesOf(disk', 0), NEW k \in Key,
                        a < b, disk'[a].rows[k] # NoRow, disk'[b].rows[k] # NoRow
                 PROVE  disk'[a].rows[k].timestamp < disk'[b].rows[k].timestamp
        BY DEF FilesOrdered
    <2>1. a # n
        <3>1. b \in FilesOf(disk, 0) => b < n /\ b \in Nat
            BY <1>6, <1>10
        <3>2. QED
            BY <1>1, <1>8, <3>1
    <2>2. a \in FilesOf(disk, 0) /\ disk'[a] = disk[a]
        BY <1>8, <1>10, <2>1
    <2>3. CASE b = n
        <3>1. disk[a].rows[k].timestamp < memTable[k].timestamp
            BY <1>9, <2>2, <2>3 DEF OrderInv, MemoryNewest
        <3>2. QED
            BY <1>9, <2>2, <2>3, <3>1
    <2>4. CASE b # n
        <3>1. b \in FilesOf(disk, 0) /\ disk'[b] = disk[b]
            BY <1>8, <1>10, <2>4
        <3>2. QED
            BY <2>2, <3>1 DEF OrderInv, FilesOrdered
    <2>5. QED
        BY <2>3, <2>4
<1>12. MemoryNewest(memTable', disk', clock')
    <2> SUFFICES ASSUME NEW k \in Key, NEW a \in FilesOf(disk', 0), disk'[a].rows[k] # NoRow
                 PROVE  disk'[a].rows[k].timestamp <= clock
        BY <1>2 DEF MemoryNewest, EmptyTable
    <2>1. CASE a = n
        BY <1>9, <2>1 DEF OrderInv, MemoryNewest
    <2>2. CASE a # n
        <3>1. a \in FilesOf(disk, 0) /\ disk'[a] = disk[a]
            BY <1>8, <1>10, <2>2
        <3>2. QED
            BY <3>1 DEF OrderInv, MemoryNewest
    <2>3. QED
        BY <2>1, <2>2
<1>13. Serves(level0, FilesOf(disk, 0), disk) /\ Serves(level1, FilesOf(disk, 1), disk)
    BY <1>1 DEF OrderInv, Level
<1>14. Serves(level0, FilesOf(disk, 0), disk') /\ Serves(level1, FilesOf(disk, 1), disk')
    <2>1. \A l : FilesOf(disk, l) \subseteq DOMAIN disk' /\ \A id \in FilesOf(disk, l) : disk'[id].rows = disk[id].rows
        BY <1>8, <1>9, <1>10
    <2>2. QED
        BY <1>13, <2>1, ServesOther
<1>15. Serves(level0', FilesOf(disk', 0), disk')
    <2>1. \A id \in FilesOf(disk, 0) : id < r.id
        BY <1>5, <1>6, <1>10
    <2>2. Serves(<<r>> \o level0, FilesOf(disk, 0) \cup {r.id}, disk')
        BY <1>5, <1>9, <1>10, <1>14, <2>1, ServesInFront
    <2>3. QED
        BY <1>2, <1>5, <1>8, <2>2
<1>16. Level(level0, 0)' /\ Level(level1, 1)'
    BY <1>2, <1>8, <1>14, <1>15 DEF Level
<1>17. pc' # "unlink" /\ doomed' = <<>>
    BY <1>1, <1>2
<1>18. QED
    BY <1>11, <1>12, <1>16, <1>17 DEF OrderInv

LEMMA MergeOrder ==
    ASSUME TypeInv, OrderInv, MergeTables
    PROVE  OrderInv'
<1> DEFINE n == nextSSTableId
           f == File(1, Merged(Rows(level0)))
<1>1. /\ pc = "merge" /\ isOpen /\ n \in Nat /\ DiskOK(disk) /\ level0 \in Seq(Reader) /\ doomed = <<>>
    BY DEF MergeTables, TypeInv, LsmTypeOK
<1>2. /\ disk' = With(f) /\ n + 1 = nextSSTableId' /\ pc' = "unlink"
      /\ doomed' = [i \in DOMAIN level0 |-> level0[i].id]
      /\ UNCHANGED <<isOpen, memTable, level0, level1, clock>>
    BY DEF MergeTables
<1>3. f \in FileType /\ f.whole /\ f.level = 1 /\ f.rows = Merged(Rows(level0))
    <2>1. Merged(Rows(level0)) \in Table
        BY <1>1, RowsType, MergedType
    <2>2. QED
        BY <2>1 DEF FileType, File
<1>4. WithOK(disk', f)
    BY <1>1, <1>2, <1>3, WithFile
<1> HIDE DEF f
<1>5. \A id \in DOMAIN disk : id < n /\ id \in Nat
    BY <1>1 DEF TypeInv, LsmTypeOK, DiskOK
<1>6. n \notin DOMAIN disk
    BY <1>1, <1>5
<1>7. /\ FilesOf(disk', 1) = FilesOf(disk, 1) \cup {n} /\ FilesOf(disk', 0) = FilesOf(disk, 0)
      /\ \A id \in DOMAIN disk : disk'[id] = disk[id]
    <2>1. FilesOf(disk', 0) = FilesOf(disk, 0) \cup IF f.level = 0 /\ f.whole THEN {n} ELSE {}
        BY <1>4, <1>6, FilesWith
    <2>2. FilesOf(disk', 1) = FilesOf(disk, 1) \cup IF f.level = 1 /\ f.whole THEN {n} ELSE {}
        BY <1>4, <1>6, FilesWith
    <2>3. \A id \in DOMAIN disk : disk'[id] = disk[id]
        BY <1>4, <1>6, FilesWith
    <2>4. f.whole /\ f.level = 1 /\ f.level # 0
        BY <1>3
    <2>5. QED
        BY <2>1, <2>2, <2>3, <2>4
<1>8. disk'[n].rows = Merged(Rows(level0)) /\ DOMAIN disk \subseteq DOMAIN disk'
    BY <1>3, <1>4 DEF WithOK
<1>9. \A l : FilesOf(disk, l) \subseteq DOMAIN disk /\ FilesOf(disk, l) \in SUBSET Nat
    BY <1>1, FilesType
<1>10. Serves(level0, FilesOf(disk, 0), disk) /\ Serves(level1, FilesOf(disk, 1), disk)
    BY <1>1 DEF OrderInv, Level
<1>11. Serves(level0, FilesOf(disk, 0), disk') /\ Serves(level1, FilesOf(disk, 1), disk')
    <2>1. \A l : FilesOf(disk, l) \subseteq DOMAIN disk' /\ \A id \in FilesOf(disk, l) : disk'[id].rows = disk[id].rows
        BY <1>7, <1>8, <1>9
    <2>2. QED
        BY <1>10, <2>1, ServesOther
<1>12. \A id \in FilesOf(disk, 0) : disk'[id] = disk[id]
    BY <1>7, <1>9
<1>13. FilesOrdered(disk') /\ MemoryNewest(memTable', disk', clock')
    <2>1. FilesOrdered(disk')
        BY <1>7, <1>12 DEF OrderInv, FilesOrdered
    <2>2. MemoryNewest(memTable', disk', clock')
        BY <1>2, <1>7, <1>12 DEF OrderInv, MemoryNewest
    <2>3. QED
        BY <2>1, <2>2
<1>14. Range(doomed') = FilesOf(disk, 0) /\ Len(doomed') = Len(level0)
    <2>1. DOMAIN level0 = 1 .. Len(level0) /\ Len(level0) \in Nat
        BY <1>1, LenProperties
    <2>2. DOMAIN doomed' = 1 .. Len(level0)
        BY <1>2, <2>1
    <2>3. doomed' \in Seq(Nat)
        <3>1. \A i \in DOMAIN level0 : level0[i].id \in Nat
            BY <1>1, RowsType
        <3>2. doomed' \in [1 .. Len(level0) -> Nat]
            BY <1>2, <2>1, <3>1
        <3>3. QED
            BY <2>1, <3>2, SeqDef
    <2>4. Len(doomed') = Len(level0)
        BY <2>1, <2>2, <2>3, LenProperties
    <2>5. Range(doomed') = Ids(level0)
        BY <1>2 DEF Range, Ids
    <2>6. QED
        BY <1>10, <2>4, <2>5 DEF Serves
<1>15. nextSSTableId' - 1 = n
    BY <1>1, <1>2
<1>16. Merging'
    <2>1. n \in FilesOf(disk', 1) /\ \A id \in FilesOf(disk', 1) : id <= n
        BY <1>1, <1>5, <1>7, <1>9
    <2>2. \A k \in Key : disk'[n].rows[k] = FirstRow(Rows(level0), k)
        BY <1>1, <1>8, <1>10, MergedIsFirst DEF OrderInv
    <2>3. FilesOf(disk', 1) \ {n} = FilesOf(disk, 1)
        BY <1>6, <1>7, <1>9
    <2>4. FilesOf(disk', 1) \cap Range(doomed') = {}
        <3>1. FilesOf(disk, 1) \cap FilesOf(disk, 0) = {}
            BY DEF FilesOf
        <3>2. QED
            BY <1>6, <1>7, <1>9, <1>14, <3>1
    <2>5. Len(doomed') <= Len(level0)
        <3>1. Len(level0) \in Nat
            BY <1>1, LenProperties
        <3>2. QED
            BY <1>14, <3>1
    <2>6. Serves(level1', FilesOf(disk', 1) \ {n}, disk') /\ Serves(level0', FilesOf(disk', 0), disk')
        BY <1>2, <1>7, <1>11, <2>3
    <2>7. FilesOf(disk', 0) \subseteq Range(doomed')
        BY <1>7, <1>14
    <2>8. Rows(level0)' = Rows(level0) /\ level0' = level0
        BY <1>2
    <2> HIDE DEF n
    <2>9. QED
        BY <1>15, <2>1, <2>2, <2>4, <2>5, <2>6, <2>7, <2>8 DEF Merging
<1>17. QED
    BY <1>1, <1>2, <1>13, <1>16 DEF OrderInv

LEMMA UnlinkOrder ==
    ASSUME TypeInv, OrderInv, UnlinkNext
    PROVE  OrderInv'
<1> DEFINE new == nextSSTableId - 1
           r == [id |-> new, rows |-> disk[new].rows]
<1>1. /\ DiskOK(disk') /\ DOMAIN disk' = DOMAIN disk \ {Head(doomed)}
      /\ \A id \in DOMAIN disk' : disk'[id] = disk[id]
      /\ doomed \in Seq(Nat) /\ doomed # <<>>
      /\ doomed' \in Seq(Nat) /\ Len(doomed') = Len(doomed) - 1
      /\ Range(doomed) = Range(doomed') \cup {Head(doomed)}
      /\ pc = "unlink" /\ isOpen /\ memTable = EmptyTable
    BY UnlinkOne
<1>2. /\ UNCHANGED <<memTable, nextSSTableId, clock>>
      /\ \/ doomed' = <<>> /\ level0' = <<>> /\ level1' = <<r>> \o level1 /\ pc' = "ready"
         \/ doomed' # <<>> /\ UNCHANGED <<level0, level1, isOpen, pc>>
    BY DEF UnlinkNext, EndCall
<1>3. Merging /\ level0 \in Seq(Reader) /\ DiskOK(disk)
    BY <1>1 DEF OrderInv, TypeInv, LsmTypeOK
<1>4. /\ new \in FilesOf(disk, 1) /\ \A id \in FilesOf(disk, 1) : id <= new
      /\ \A k \in Key : disk[new].rows[k] = FirstRow(Rows(level0), k)
      /\ Serves(level1, FilesOf(disk, 1) \ {new}, disk)
      /\ FilesOf(disk, 0) \subseteq Range(doomed)
      /\ FilesOf(disk, 1) \cap Range(doomed) = {}
      /\ Len(doomed) <= Len(level0)
    BY <1>3 DEF Merging
<1>5. FilesOf(disk', 0) = FilesOf(disk, 0) \ {Head(doomed)} /\ FilesOf(disk', 1) = FilesOf(disk, 1) \ {Head(doomed)}
    <2> DEFINE h == Head(doomed)
    <2>1. DOMAIN disk' = DOMAIN disk \ {h} /\ \A id \in DOMAIN disk' : disk'[id] = disk[id]
        BY <1>1
    <2> HIDE DEF h
    <2>2. FilesOf(disk', 0) = FilesOf(disk, 0) \ {h}
        BY <2>1 DEF FilesOf
    <2>3. FilesOf(disk', 1) = FilesOf(disk, 1) \ {h}
        BY <2>1 DEF FilesOf
    <2>4. QED
        BY <2>2, <2>3 DEF h
<1>6. FilesOf(disk', 1) = FilesOf(disk, 1)
    BY <1>1, <1>4, <1>5
<1>7. \A l : FilesOf(disk', l) \subseteq DOMAIN disk' /\ FilesOf(disk', l) \in SUBSET Nat
    BY <1>1, FilesType
<1>8. \A l : \A id \in FilesOf(disk', l) : disk'[id] = disk[id]
    BY <1>1, <1>7
<1>9. new \in Nat /\ disk'[new] = disk[new] /\ new \in DOMAIN disk' /\ disk[new].rows \in Table
    BY <1>1, <1>4, <1>6, <1>7 DEF DiskOK, FileType
<1>10. Serves(level1, FilesOf(disk', 1) \ {new}, disk')
    <2>1. FilesOf(disk', 1) \ {new} \subseteq DOMAIN disk'
        BY <1>7
    <2>2. \A id \in FilesOf(disk', 1) \ {new} : disk'[id].rows = disk[id].rows
        BY <1>8
    <2>3. QED
        BY <1>4, <1>6, <2>1, <2>2, ServesOther
<1> HIDE DEF new
<1>11. FilesOrdered(disk') /\ MemoryNewest(memTable', disk', clock')
    <2>1. \A a \in FilesOf(disk', 0) : a \in FilesOf(disk, 0) /\ disk'[a] = disk[a]
        BY <1>5, <1>8
    <2>2. FilesOrdered(disk')
        BY <2>1 DEF OrderInv, FilesOrdered
    <2>3. MemoryNewest(memTable', disk', clock')
        BY <1>2, <2>1 DEF OrderInv, MemoryNewest
    <2>4. QED
        BY <2>2, <2>3
<1>12. FilesOf(disk', 0) \subseteq Range(doomed')
    BY <1>1, <1>4, <1>5
<1>13. CASE doomed' = <<>>
    <2>1. level0' = <<>> /\ level1' = <<r>> \o level1 /\ pc' = "ready"
        BY <1>2, <1>13
    <2>2. r \in Reader /\ r.id = new /\ r.rows = disk'[new].rows
        BY <1>9 DEF Reader
    <2> HIDE DEF r
    <2>3. FilesOf(disk', 0) = {}
        <3>1. DOMAIN <<>> = {}
            BY EmptySeq
        <3>2. Range(<<>>) = {}
            BY <3>1 DEF Range
        <3>3. QED
            BY <1>12, <1>13, <3>2
    <2>4. Serves(level0', FilesOf(disk', 0), disk')
        <3>1. <<>> \in Seq(Reader) /\ DOMAIN <<>> = {}
            BY EmptySeq
        <3>2. Ids(<<>>) = {} /\ NewestFirst(<<>>)
            BY <3>1 DEF Ids, NewestFirst
        <3>3. QED
            BY <2>1, <2>3, <3>1, <3>2 DEF Serves
    <2>5. \A id \in FilesOf(disk', 1) \ {new} : id < r.id
        <3>1. \A id \in FilesOf(disk', 1) : id \in Nat /\ id <= new
            BY <1>4, <1>6, <1>7
        <3>2. QED
            BY <1>9, <2>2, <3>1
    <2>6. Serves(level1', FilesOf(disk', 1), disk')
        <3>1. FilesOf(disk', 1) \ {new} \in SUBSET Nat
            BY <1>7
        <3>2. Serves(<<r>> \o level1, (FilesOf(disk', 1) \ {new}) \cup {r.id}, disk')
            BY <1>9, <1>10, <2>2, <2>5, <3>1, ServesInFront
        <3>3. (FilesOf(disk', 1) \ {new}) \cup {r.id} = FilesOf(disk', 1)
            BY <1>4, <1>6, <2>2
        <3>4. QED
            BY <2>1, <3>2, <3>3
    <2>7. Level(level0, 0)' /\ Level(level1, 1)'
        BY <2>4, <2>6 DEF Level
    <2>8. pc' # "unlink"
        BY <2>1
    <2>9. QED
        BY <1>11, <1>13, <2>7, <2>8 DEF OrderInv
<1>14. CASE doomed' # <<>>
    <2>1. UNCHANGED <<level0, level1, isOpen, pc>>
        BY <1>2, <1>14
    <2>2. Len(doomed') < Len(level0)
        <3>1. Len(doomed') \in Nat /\ Len(doomed) \in Nat /\ Len(level0) \in Nat
            BY <1>1, <1>3, LenProperties
        <3>2. QED
            BY <1>1, <1>4, <3>1
    <2>3. Len(doomed') <= Len(level0) /\ Len(doomed') # Len(level0)
        <3>1. Len(doomed') \in Nat /\ Len(level0) \in Nat
            BY <1>1, <1>3, LenProperties
        <3>2. QED
            BY <2>2, <3>1
    <2>4. FilesOf(disk', 1) \cap Range(doomed') = {}
        BY <1>1, <1>4, <1>6
    <2>5. new = nextSSTableId' - 1
        BY <1>2 DEF new
    <2>6. Merging'
        BY <1>4, <1>6, <1>9, <1>10, <1>12, <2>1, <2>3, <2>4, <2>5 DEF Merging
    <2>7. QED
        BY <1>1, <1>11, <2>1, <2>6 DEF OrderInv
<1>15. QED
    BY <1>13, <1>14

\* A torn file is none of a level's.
LEMMA TornFiles ==
    ASSUME TypeInv, isOpen, NEW l \in {0, 1}, NEW e, e \in {disk, With(TornFile(l))}
    PROVE  \A m : /\ FilesOf(e, m) = FilesOf(disk, m)
                  /\ \A id \in FilesOf(disk, m) : e[id] = disk[id]
<1> DEFINE t == TornFile(l)
<1>1. DiskOK(disk) /\ nextSSTableId \in Nat /\ \A id \in DOMAIN disk : id < nextSSTableId /\ id \in Nat
    BY DEF TypeInv, LsmTypeOK, DiskOK
<1>2. nextSSTableId \notin DOMAIN disk
    BY <1>1
<1>3. t \in FileType /\ t.rows = EmptyTable /\ ~t.whole
    BY TornType
<1> HIDE DEF t
<1>4. CASE e = disk
    BY <1>4
<1>5. CASE e = With(t)
    <2>1. WithOK(e, t)
        BY <1>1, <1>3, <1>5, WithFile
    <2> TAKE m
    <2>2. FilesOf(e, m) = FilesOf(disk, m) \cup IF t.level = m /\ t.whole THEN {nextSSTableId} ELSE {}
        BY <1>2, <2>1, FilesWith
    <2>3. \A id \in DOMAIN disk : e[id] = disk[id]
        BY <1>2, <2>1, FilesWith
    <2>4. FilesOf(disk, m) \subseteq DOMAIN disk
        BY DEF FilesOf
    <2>5. QED
        BY <1>3, <2>2, <2>3, <2>4
<1>6. QED
    BY <1>4, <1>5 DEF t

\* Rows in the same order on a disk with the same files.
LEMMA SameFilesOrder ==
    ASSUME NEW d, NEW e, FilesOf(e, 0) = FilesOf(d, 0), \A id \in FilesOf(d, 0) : e[id] = d[id],
           NEW table, NEW now, FilesOrdered(d), MemoryNewest(table, d, now)
    PROVE  FilesOrdered(e) /\ MemoryNewest(table, e, now)
<1>1. FilesOrdered(e)
    BY DEF FilesOrdered
<1>2. MemoryNewest(table, e, now)
    BY DEF MemoryNewest
<1>3. QED
    BY <1>1, <1>2

LEMMA SameFilesServe ==
    ASSUME NEW d, NEW e, NEW l, FilesOf(e, l) = FilesOf(d, l), \A id \in FilesOf(d, l) : e[id] = d[id],
           NEW list, Serves(list, FilesOf(d, l), d)
    PROVE  Serves(list, FilesOf(e, l), e)
<1>1. FilesOf(e, l) \subseteq DOMAIN e
    BY DEF FilesOf
<1>2. QED
    BY <1>1, ServesOther

LEMMA FailureOrder ==
    ASSUME TypeInv, OrderInv, WriteFails
    PROVE  OrderInv'
<1> DEFINE l == IF pc = "flush" THEN 0 ELSE 1
<1>1. /\ pc \in {"flush", "merge"} /\ isOpen
      /\ disk' \in {disk, With(TornFile(l))} /\ pc' = "ready"
      /\ UNCHANGED <<isOpen, memTable, level0, level1, doomed, clock>>
    BY DEF WriteFails, TypeInv, LsmTypeOK
<1>2. l \in {0, 1}
    OBVIOUS
<1> HIDE DEF l
<1>3. \A m : FilesOf(disk', m) = FilesOf(disk, m) /\ \A id \in FilesOf(disk, m) : disk'[id] = disk[id]
    BY <1>1, <1>2, TornFiles
<1>4. FilesOrdered(disk') /\ MemoryNewest(memTable, disk', clock)
    <2>1. FilesOrdered(disk) /\ MemoryNewest(memTable, disk, clock)
        BY DEF OrderInv
    <2>2. QED
        BY <1>3, <2>1, SameFilesOrder
<1>5. Serves(level0, FilesOf(disk', 0), disk') /\ Serves(level1, FilesOf(disk', 1), disk')
    <2>1. Serves(level0, FilesOf(disk, 0), disk) /\ Serves(level1, FilesOf(disk, 1), disk)
        BY <1>1 DEF OrderInv, Level
    <2>2. Serves(level0, FilesOf(disk', 0), disk')
        BY <1>3, <2>1, SameFilesServe
    <2>3. Serves(level1, FilesOf(disk', 1), disk')
        BY <1>3, <2>1, SameFilesServe
    <2>4. QED
        BY <2>2, <2>3
<1>6. Level(level0, 0)' /\ Level(level1, 1)' /\ doomed' = <<>>
    BY <1>1, <1>5 DEF Level, OrderInv
<1>7. MemoryNewest(memTable', disk', clock')
    BY <1>1, <1>4
<1>8. pc' # "unlink"
    BY <1>1
<1>9. QED
    BY <1>4, <1>6, <1>7, <1>8 DEF OrderInv

LEMMA CrashOrder ==
    ASSUME TypeInv, OrderInv, CrashTree
    PROVE  OrderInv'
<1> DEFINE l == IF pc = "flush" THEN 0 ELSE 1
<1>1. /\ isOpen /\ disk' \in {disk, With(TornFile(l))}
      /\ isOpen' = FALSE /\ memTable' = EmptyTable /\ level0' = <<>> /\ level1' = <<>>
      /\ pc' = "ready" /\ doomed' = <<>> /\ clock' = clock
    BY DEF CrashTree
<1>2. l \in {0, 1}
    OBVIOUS
<1> HIDE DEF l
<1>3. \A m : FilesOf(disk', m) = FilesOf(disk, m) /\ \A id \in FilesOf(disk, m) : disk'[id] = disk[id]
    BY <1>1, <1>2, TornFiles
<1>4. FilesOrdered(disk') /\ MemoryNewest(EmptyTable, disk', clock)
    <2>1. FilesOrdered(disk)
        BY DEF OrderInv
    <2>2. MemoryNewest(EmptyTable, disk, clock)
        BY DEF OrderInv, MemoryNewest, EmptyTable
    <2>3. QED
        BY <1>3, <2>1, <2>2, SameFilesOrder
<1>5. MemoryNewest(memTable', disk', clock')
    BY <1>1, <1>4
<1>6. Level(level0, 0)' /\ Level(level1, 1)' /\ doomed' = <<>> /\ pc' # "unlink"
    BY <1>1 DEF Level
<1>7. QED
    BY <1>4, <1>5, <1>6 DEF OrderInv

LEMMA OpenOrder ==
    ASSUME TypeInv, OrderInv, Open
    PROVE  OrderInv'
<1>1. /\ ~isOpen /\ pc = "ready" /\ DiskOK(disk)
      /\ \A id \in DOMAIN disk : disk[id].whole
      /\ level0' = level0 \o ReadersOf(disk, 0) /\ level1' = level1 \o ReadersOf(disk, 1)
      /\ isOpen' = TRUE
      /\ UNCHANGED <<memTable, disk, pc, doomed, clock>>
    BY DEF Open, TypeInv
<1>2. Serves(ReadersOf(disk, 0), FilesOf(disk, 0), disk) /\ Serves(ReadersOf(disk, 1), FilesOf(disk, 1), disk)
    BY <1>1, ReadersServe
<1>3. FilesOf(disk, 0) \in SUBSET Nat /\ FilesOf(disk, 1) \in SUBSET Nat
    BY <1>1, FilesType
<1>4. Serves(level0', FilesOf(disk, 0), disk) /\ Serves(level1', FilesOf(disk, 1), disk)
    <2>1. /\ Serves(level0, FilesOf(disk, 0), disk) \/ level0 = <<>>
          /\ Serves(level1, FilesOf(disk, 1), disk) \/ level1 = <<>>
        BY <1>1 DEF OrderInv, Level
    <2>2. Serves(level0 \o ReadersOf(disk, 0), FilesOf(disk, 0), disk)
        BY <1>2, <1>3, <2>1, ServesTwice
    <2>3. Serves(level1 \o ReadersOf(disk, 1), FilesOf(disk, 1), disk)
        BY <1>2, <1>3, <2>1, ServesTwice
    <2>4. QED
        BY <1>1, <2>2, <2>3
<1>5. Level(level0, 0)' /\ Level(level1, 1)'
    BY <1>1, <1>4 DEF Level
<1>6. FilesOrdered(disk') /\ MemoryNewest(memTable', disk', clock') /\ doomed' = <<>> /\ pc' # "unlink"
    BY <1>1 DEF OrderInv
<1>7. QED
    BY <1>5, <1>6 DEF OrderInv

LEMMA OrderInvInit == LsmInit => OrderInv
<1> SUFFICES ASSUME LsmInit PROVE OrderInv
    OBVIOUS
<1>1. /\ isOpen = FALSE /\ memTable = EmptyTable /\ level0 = <<>> /\ level1 = <<>>
      /\ disk = <<>> /\ pc = "ready" /\ doomed = <<>>
    BY DEF LsmInit
<1>2. \A l : FilesOf(disk, l) = {}
    <2>1. DOMAIN <<>> = {}
        BY EmptySeq
    <2>2. DOMAIN disk = {}
        BY <1>1, <2>1
    <2>3. QED
        BY <2>2 DEF FilesOf
<1>3. FilesOrdered(disk)
    BY <1>2 DEF FilesOrdered
<1>4. MemoryNewest(memTable, disk, clock)
    BY <1>1, <1>2 DEF MemoryNewest, EmptyTable
<1>5. Level(level0, 0) /\ Level(level1, 1)
    BY <1>1 DEF Level
<1>6. QED
    BY <1>1, <1>3, <1>4, <1>5 DEF OrderInv

LEMMA OrderInvStep ==
    ASSUME TypeInv, OrderInv, ~TiesAllowed, [LsmNext]_lsmVars
    PROVE  OrderInv'
<1>1. CASE UNCHANGED lsmVars
    <2>1. UNCHANGED <<isOpen, memTable, byteSize, frozen, level0, level1, nextSSTableId,
                      disk, pc, doomed, closing, clock>>
        BY <1>1, Unpack DEF lsmVars
    <2>2. Level(level0, 0)' = Level(level0, 0) /\ Level(level1, 1)' = Level(level1, 1) /\ Merging' = Merging
        BY <2>1 DEF Level, Merging
    <2>3. QED
        BY <2>1, <2>2 DEF OrderInv
<1>2. CASE LsmNext
    BY <1>2, WriteOrder, CloseOrder, FlushOrder, MergeOrder, UnlinkOrder, FailureOrder,
       CrashOrder, OpenOrder DEF LsmNext
<1>3. QED
    BY <1>1, <1>2

-----------------------------------------------------------------------------
(* What the files and the readers hold, as rows.                            *)

Shown(row) == IF row = NoRow THEN None ELSE row.value

\* The row of a key on a disk without the files gone.
DiskRow(d, gone, k) ==
    LET upper == NewestRow(d, FilesOf(d, 0) \ gone, k)
    IN  IF upper # NoRow THEN upper ELSE NewestRow(d, FilesOf(d, 1) \ gone, k)

\* The row the readers find.
ReadersRow(upper, lower, k) ==
    IF FirstRow(Rows(upper), k) # NoRow THEN FirstRow(Rows(upper), k) ELSE FirstRow(Rows(lower), k)

\* The operators of the model with their state as parameters.
DiskMap(d, gone) ==
    LET Having(k, level) == {id \in DOMAIN d : d[id].level = level /\ d[id].rows[k] # NoRow}
        Kept(k, level) == Having(k, level) \ gone
        Newest(k) == Max(IF Kept(k, 0) # {} THEN Kept(k, 0) ELSE Kept(k, 1))
    IN  [k \in Key |-> IF Kept(k, 0) \cup Kept(k, 1) = {} THEN None ELSE d[Newest(k)].rows[k].value]

LEMMA DiskMapIs ==
    ASSUME NEW d, DiskOK(d), NEW gone
    PROVE  DiskMap(d, gone) = [k \in Key |-> Shown(DiskRow(d, gone, k))]
<1> DEFINE Kept(k, l) == {id \in DOMAIN d : d[id].level = l /\ d[id].rows[k] # NoRow} \ gone
           Newest(k) == Max(IF Kept(k, 0) # {} THEN Kept(k, 0) ELSE Kept(k, 1))
           At(k) == IF Kept(k, 0) \cup Kept(k, 1) = {} THEN None ELSE d[Newest(k)].rows[k].value
<1>1. DiskMap(d, gone) = [k \in Key |-> At(k)]
    BY DEF DiskMap
<1>2. ASSUME NEW k \in Key PROVE At(k) = Shown(DiskRow(d, gone, k))
    <2>1. \A l : Kept(k, l) = {id \in FilesOf(d, l) \ gone : d[id].rows[k] # NoRow}
        BY DEF DiskOK, FilesOf, EmptyTable
    <2> DEFINE N(l) == NewestRow(d, FilesOf(d, l) \ gone, k)
    <2>2. \A l : N(l) = IF Kept(k, l) = {} THEN NoRow ELSE d[Max(Kept(k, l))].rows[k]
        BY <2>1 DEF NewestRow
    <2>3. ASSUME NEW l, Kept(k, l) # {} PROVE d[Max(Kept(k, l))].rows[k] # NoRow
        <3> DEFINE S == Kept(k, l)
        <3>1. S \in SUBSET Nat /\ IsFiniteSet(S)
            <4>1. S \subseteq DOMAIN d
                OBVIOUS
            <4>2. QED
                BY <4>1, FS_Subset DEF DiskOK
        <3>2. \A id \in S : d[id].rows[k] # NoRow
            OBVIOUS
        <3> HIDE DEF S
        <3>3. S # {}
            BY <2>3 DEF S
        <3>4. Max(S) \in S
            BY <3>1, <3>3, MaxIsGreatest
        <3>5. QED
            BY <3>2, <3>4 DEF S
    <2>4. At(k) = IF Kept(k, 0) \cup Kept(k, 1) = {} THEN None ELSE d[Newest(k)].rows[k].value
        OBVIOUS
    <2>5. DiskRow(d, gone, k) = IF N(0) # NoRow THEN N(0) ELSE N(1)
        BY DEF DiskRow
    <2> HIDE DEF N, Kept, At
    <2>6. CASE Kept(k, 0) # {}
        <3>1. N(0) = d[Max(Kept(k, 0))].rows[k] /\ N(0) # NoRow
            BY <2>2, <2>3, <2>6
        <3>2. At(k) = d[Max(Kept(k, 0))].rows[k].value
            BY <2>4, <2>6
        <3>3. QED
            BY <2>5, <3>1, <3>2 DEF Shown
    <2>7. CASE Kept(k, 0) = {} /\ Kept(k, 1) # {}
        <3>1. N(0) = NoRow /\ N(1) = d[Max(Kept(k, 1))].rows[k] /\ N(1) # NoRow
            BY <2>2, <2>3, <2>7
        <3>2. At(k) = d[Max(Kept(k, 1))].rows[k].value
            BY <2>4, <2>7
        <3>3. QED
            BY <2>5, <3>1, <3>2 DEF Shown
    <2>8. CASE Kept(k, 0) = {} /\ Kept(k, 1) = {}
        <3>1. N(0) = NoRow /\ N(1) = NoRow
            BY <2>2, <2>8
        <3>2. At(k) = None
            BY <2>4, <2>8
        <3>3. QED
            BY <2>5, <3>1, <3>2 DEF Shown
    <2>9. QED
        BY <2>6, <2>7, <2>8
<1> HIDE DEF At
<1>3. QED
    BY <1>1, <1>2

LEMMA FoundIs ==
    ASSUME NEW table \in Table, NEW upper \in Seq(Reader), NEW lower \in Seq(Reader), NEW k
    PROVE  FirstRow(<<table>> \o Rows(upper) \o Rows(lower), k) =
               IF table[k] # NoRow THEN table[k] ELSE ReadersRow(upper, lower, k)
<1> DEFINE one == <<table>>
<1>1. Rows(upper) \in Seq(Table) /\ Rows(lower) \in Seq(Table)
    BY RowsType
<1>2. one \in Seq(Table) /\ DOMAIN one = {1} /\ one[1] = table
    OBVIOUS
<1>3. FirstRow(one, k) = table[k]
    <2>1. FirstDecides(one, k)
        BY <1>2, FirstRowDecides
    <2>2. (FirstRow(one, k) = NoRow <=> table[k] = NoRow)
        BY <1>2, <2>1 DEF FirstDecides
    <2>3. FirstRow(one, k) # NoRow => FirstRow(one, k) = table[k]
        BY <1>2, <2>1 DEF FirstDecides
    <2>4. QED
        BY <2>2, <2>3
<1> HIDE DEF one
<1> DEFINE both == one \o Rows(upper)
           rest == Rows(lower)
<1>4. both \in Seq(Table) /\ rest \in Seq(Table)
    BY <1>1, <1>2, ConcatProperties
<1>5. FirstRow(both, k) =
          IF FirstRow(one, k) # NoRow THEN FirstRow(one, k) ELSE FirstRow(Rows(upper), k)
    BY <1>1, <1>2, FirstRowOfBoth
<1> HIDE DEF both, rest
<1>6. FirstRow(both \o rest, k) =
          IF FirstRow(both, k) # NoRow THEN FirstRow(both, k) ELSE FirstRow(rest, k)
    BY <1>4, FirstRowOfBoth
<1>7. FirstRow(both \o rest, k) = IF table[k] # NoRow THEN table[k] ELSE ReadersRow(upper, lower, k)
    BY <1>3, <1>5, <1>6 DEF ReadersRow, rest
<1>8. QED
    BY <1>7 DEF both, one, rest

\* The newest row, with one more file that is newer, or with none of its files.
LEMMA NewestRowMore ==
    ASSUME NEW d, NEW ids \in SUBSET Nat, IsFiniteSet(ids), NEW n \in Nat, \A id \in ids : id < n, NEW k
    PROVE  NewestRow(d, ids \cup {n}, k) = IF d[n].rows[k] # NoRow THEN d[n].rows[k] ELSE NewestRow(d, ids, k)
<1>1. CASE d[n].rows[k] # NoRow
    <2>1. ids \cup {n} \in SUBSET Nat /\ IsFiniteSet(ids \cup {n})
        BY FS_AddElement
    <2>2. \A other \in ids \cup {n} : other > n => d[other].rows[k] = NoRow
        OBVIOUS
    <2>3. QED
        BY <1>1, <2>1, <2>2, NewestRowIs
<1>2. CASE d[n].rows[k] = NoRow
    <2>1. {id \in ids \cup {n} : d[id].rows[k] # NoRow} = {id \in ids : d[id].rows[k] # NoRow}
        BY <1>2
    <2>2. QED
        BY <1>2, <2>1 DEF NewestRow
<1>3. QED
    BY <1>1, <1>2

LEMMA NewestRowSame ==
    ASSUME NEW d, NEW e, NEW ids \in SUBSET Nat, IsFiniteSet(ids), \A id \in ids : e[id] = d[id], NEW k
    PROVE  NewestRow(e, ids, k) = NewestRow(d, ids, k)
<1> DEFINE has == {id \in ids : d[id].rows[k] # NoRow}
<1>1. {id \in ids : e[id].rows[k] # NoRow} = has
    OBVIOUS
<1>2. has \subseteq ids /\ has \in SUBSET Nat /\ IsFiniteSet(has)
    <2>1. has \subseteq ids
        OBVIOUS
    <2>2. QED
        BY <2>1, FS_Subset
<1> HIDE DEF has
<1>3. has # {} => Max(has) \in has
    BY <1>2, MaxIsGreatest
<1>4. NewestRow(e, ids, k) = IF has = {} THEN NoRow ELSE e[Max(has)].rows[k]
    BY <1>1 DEF NewestRow
<1>5. NewestRow(d, ids, k) = IF has = {} THEN NoRow ELSE d[Max(has)].rows[k]
    BY DEF NewestRow, has
<1>6. CASE has = {}
    BY <1>4, <1>5, <1>6
<1>7. CASE has # {}
    <2>1. Max(has) \in ids
        BY <1>2, <1>3, <1>7
    <2>2. e[Max(has)] = d[Max(has)]
        BY <2>1
    <2>3. QED
        BY <1>4, <1>5, <1>7, <2>2
<1>8. QED
    BY <1>6, <1>7

LEMMA DiskRowSame ==
    ASSUME NEW d, NEW e, NEW gone, NEW goneToo, DiskOK(d), NEW k,
           \A l : /\ FilesOf(e, l) \ goneToo = FilesOf(d, l) \ gone
                  /\ \A id \in FilesOf(d, l) \ gone : e[id] = d[id]
    PROVE  DiskRow(e, goneToo, k) = DiskRow(d, gone, k)
<1>1. ASSUME NEW l PROVE NewestRow(e, FilesOf(e, l) \ goneToo, k) = NewestRow(d, FilesOf(d, l) \ gone, k)
    <2> DEFINE ids == FilesOf(d, l) \ gone
    <2>1. ids \in SUBSET Nat /\ IsFiniteSet(ids)
        BY FilesType, FS_Subset
    <2>2. FilesOf(e, l) \ goneToo = ids /\ \A id \in ids : e[id] = d[id]
        OBVIOUS
    <2> HIDE DEF ids
    <2>3. NewestRow(e, ids, k) = NewestRow(d, ids, k)
        BY <2>1, <2>2, NewestRowSame
    <2>4. QED
        BY <2>2, <2>3 DEF ids
<1>2. QED
    BY <1>1 DEF DiskRow

\* What the mapping says of a state, and why the readers agree with the disk.
Agree ==
    /\ OnDisk = [k \in Key |-> Shown(DiskRow(disk, Range(doomed), k))]
    /\ isOpen => \A k \in Key : DiskRow(disk, Range(doomed), k) = ReadersRow(level0, level1, k)
    /\ Contents = IF isOpen
                  THEN [k \in Key |-> Shown(IF memTable[k] # NoRow THEN memTable[k]
                                            ELSE DiskRow(disk, Range(doomed), k))]
                  ELSE OnDisk

\* A new table and the readers of the old level answer as the files of level 1.
LEMMA NewTableAnswers ==
    ASSUME DiskOK(disk), Merging, NEW k \in Key
    PROVE  NewestRow(disk, FilesOf(disk, 1), k) = ReadersRow(level0, level1, k)
<1> DEFINE new == nextSSTableId - 1
           old == FilesOf(disk, 1) \ {new}
<1>1. /\ new \in FilesOf(disk, 1) /\ \A id \in FilesOf(disk, 1) : id <= new
      /\ disk[new].rows[k] = FirstRow(Rows(level0), k)
      /\ Serves(level1, old, disk)
    BY DEF Merging
<1> HIDE DEF new
<1>2. FilesOf(disk, 1) \in SUBSET Nat /\ IsFiniteSet(FilesOf(disk, 1))
    BY FilesType
<1>3. old \subseteq FilesOf(disk, 1) /\ FilesOf(disk, 1) = old \cup {new}
    BY <1>1
<1>4. IsFiniteSet(old)
    BY <1>2, <1>3, FS_Subset
<1>5. new \in Nat
    BY <1>1, <1>2
<1>6. \A id \in old : id \in Nat /\ id <= new /\ id # new
    BY <1>1, <1>2, <1>3
<1> HIDE DEF old
<1>7. \A id \in old : id < new
    BY <1>5, <1>6
<1>8. old \in SUBSET Nat
    BY <1>6
<1>9. NewestRow(disk, old \cup {new}, k) =
          IF disk[new].rows[k] # NoRow THEN disk[new].rows[k] ELSE NewestRow(disk, old, k)
    BY <1>4, <1>5, <1>7, <1>8, NewestRowMore
<1>10. FirstRow(Rows(level1), k) = NewestRow(disk, old, k)
    BY <1>1, <1>4, <1>8, ServesNewest
<1>11. QED
    BY <1>1, <1>3, <1>9, <1>10 DEF ReadersRow

LEMMA ReadersAgree ==
    ASSUME TypeInv, OrderInv, isOpen, NEW k \in Key
    PROVE  DiskRow(disk, Range(doomed), k) = ReadersRow(level0, level1, k)
<1>1. DiskOK(disk) /\ doomed \in Seq(Nat) /\ level0 \in Seq(Reader) /\ nextSSTableId \in Nat
    BY DEF TypeInv, LsmTypeOK
<1>2. \A l : FilesOf(disk, l) \in SUBSET Nat /\ IsFiniteSet(FilesOf(disk, l))
    BY <1>1, FilesType
<1>3. CASE pc # "unlink"
    <2>1. doomed = <<>> /\ Serves(level0, FilesOf(disk, 0), disk) /\ Serves(level1, FilesOf(disk, 1), disk)
        BY <1>3 DEF OrderInv, Level
    <2>2. Range(<<>>) = {}
        BY EmptySeq DEF Range
    <2>3. FilesOf(disk, 0) \ Range(doomed) = FilesOf(disk, 0) /\ FilesOf(disk, 1) \ Range(doomed) = FilesOf(disk, 1)
        BY <2>1, <2>2
    <2>4. FirstRow(Rows(level0), k) = NewestRow(disk, FilesOf(disk, 0), k)
        BY <1>2, <2>1, ServesNewest
    <2>5. FirstRow(Rows(level1), k) = NewestRow(disk, FilesOf(disk, 1), k)
        BY <1>2, <2>1, ServesNewest
    <2>6. QED
        BY <2>3, <2>4, <2>5 DEF DiskRow, ReadersRow
<1>4. CASE pc = "unlink"
    <2>1. Merging
        BY <1>4 DEF OrderInv
    <2>2. FilesOf(disk, 0) \subseteq Range(doomed) /\ FilesOf(disk, 1) \cap Range(doomed) = {}
        BY <2>1 DEF Merging
    <2>3. FilesOf(disk, 0) \ Range(doomed) = {} /\ FilesOf(disk, 1) \ Range(doomed) = FilesOf(disk, 1)
        BY <2>2
    <2>4. NewestRow(disk, {}, k) = NoRow
        BY NoNewestRow
    <2>5. NewestRow(disk, FilesOf(disk, 1), k) = ReadersRow(level0, level1, k)
        BY <1>1, <2>1, NewTableAnswers
    <2>6. QED
        BY <2>3, <2>4, <2>5 DEF DiskRow
<1>5. QED
    BY <1>3, <1>4

LEMMA AgreeAlways ==
    ASSUME TypeInv, OrderInv, ~CrashBetweenUnlinks
    PROVE  Agree
<1>1. DiskOK(disk) /\ memTable \in Table /\ level0 \in Seq(Reader) /\ level1 \in Seq(Reader)
    BY DEF TypeInv, LsmTypeOK
<1>2. OnDisk = [k \in Key |-> Shown(DiskRow(disk, Range(doomed), k))]
    <2>1. OnDisk = DiskMap(disk, Range(doomed))
        BY DEF OnDisk, DiskMap
    <2>2. QED
        BY <1>1, <2>1, DiskMapIs
<1>3. isOpen => \A k \in Key : DiskRow(disk, Range(doomed), k) = ReadersRow(level0, level1, k)
    BY ReadersAgree
<1>4. \A k \in Key : Get(k) = Shown(IF memTable[k] # NoRow THEN memTable[k] ELSE ReadersRow(level0, level1, k))
    <2> TAKE k \in Key
    <2>1. Found(k) = IF memTable[k] # NoRow THEN memTable[k] ELSE ReadersRow(level0, level1, k)
        BY <1>1, FoundIs DEF Found
    <2>2. QED
        BY <2>1 DEF Get, Shown
<1>5. isOpen => \A k \in Key : Get(k) = Shown(IF memTable[k] # NoRow THEN memTable[k]
                                              ELSE DiskRow(disk, Range(doomed), k))
    BY <1>3, <1>4
<1>6. isOpen => Contents = [k \in Key |-> Shown(IF memTable[k] # NoRow THEN memTable[k]
                                                ELSE DiskRow(disk, Range(doomed), k))]
    BY <1>5 DEF Contents
<1>7. ~isOpen => Contents = OnDisk
    BY DEF Contents
<1>8. QED
    BY <1>2, <1>3, <1>6, <1>7 DEF Agree

-----------------------------------------------------------------------------
(* The steps, as steps of the map.                                          *)

StoreStep == [Store!Next]_Store!vars

LEMMA StoreStutters ==
    ASSUME OnDisk' = OnDisk, Contents' = Contents
    PROVE  StoreStep
BY DEF StoreStep, Store!vars

\* No file of a level is changed, and none is taken for gone that was not.
LEMMA RowsStay ==
    ASSUME DiskOK(disk),
           \A l : /\ FilesOf(disk', l) \ Range(doomed') = FilesOf(disk, l) \ Range(doomed)
                  /\ \A id \in FilesOf(disk, l) \ Range(doomed) : disk'[id] = disk[id]
    PROVE  \A k \in Key : DiskRow(disk', Range(doomed'), k) = DiskRow(disk, Range(doomed), k)
<1> DEFINE e == disk'
           before == Range(doomed)
           after == Range(doomed')
<1>1. \A l : /\ FilesOf(e, l) \ after = FilesOf(disk, l) \ before
             /\ \A id \in FilesOf(disk, l) \ before : e[id] = disk[id]
    OBVIOUS
<1> HIDE DEF e, before, after
<1>2. \A k \in Key : DiskRow(e, after, k) = DiskRow(disk, before, k)
    BY <1>1, DiskRowSame
<1>3. QED
    BY <1>2 DEF e, before, after

LEMMA WriteMaps ==
    ASSUME TypeInv, Agree, Agree', NEW k \in Key, NEW v \in Value \cup {None}, Write(k, v)
    PROVE  StoreStep
<1>1. /\ isOpen /\ isOpen' = isOpen /\ disk' = disk /\ doomed' = doomed
      /\ memTable' = [memTable EXCEPT ![k] = [value |-> v, timestamp |-> clock']] /\ clock' \in Nat
    BY DEF Write, TypeInv, LsmTypeOK
<1> DEFINE row == [value |-> v, timestamp |-> clock']
<1>2. row \in Row /\ row.value = v
    BY <1>1 DEF Row
<1> HIDE DEF row
<1>3. memTable' = [memTable EXCEPT ![k] = row] /\ DOMAIN memTable = Key
    BY <1>1 DEF row, TypeInv, LsmTypeOK, Table
<1>4. row # NoRow /\ Shown(row) = v
    BY <1>2 DEF Shown
<1>5. OnDisk' = OnDisk
    BY <1>1 DEF Agree
<1>6. Contents = [q \in Key |-> Shown(IF memTable[q] # NoRow THEN memTable[q] ELSE DiskRow(disk, Range(doomed), q))]
    BY <1>1 DEF Agree
<1>7. Contents' = [q \in Key |-> Shown(IF memTable'[q] # NoRow THEN memTable'[q] ELSE DiskRow(disk, Range(doomed), q))]
    BY <1>1 DEF Agree
<1>8. Contents'[k] = v
    BY <1>3, <1>4, <1>7
<1>9. Contents' = [Contents EXCEPT ![k] = Contents'[k]]
    <2>1. \A q \in Key : q # k => Contents'[q] = Contents[q]
        BY <1>3, <1>6, <1>7
    <2>2. DOMAIN Contents = Key /\ DOMAIN Contents' = Key
        BY <1>6, <1>7
    <2>3. \A q \in Key : [Contents EXCEPT ![k] = Contents'[k]][q] = Contents'[q]
        BY <2>1, <2>2
    <2>4. Contents = [q \in Key |-> Contents[q]] /\ Contents' = [q \in Key |-> Contents'[q]]
        BY <1>6, <1>7
    <2>5. QED
        BY <2>2, <2>3, <2>4
<1>10. Store!Write(k)
    BY <1>5, <1>8, <1>9 DEF Store!Write
<1>11. QED
    BY <1>10 DEF StoreStep, Store!Next

\* With the memtable empty reads are what the disk holds.
LEMMA EmptyMemory ==
    ASSUME Agree, memTable = EmptyTable
    PROVE  Contents = OnDisk
<1>1. \A q \in Key : (IF memTable[q] # NoRow THEN memTable[q] ELSE DiskRow(disk, Range(doomed), q))
                     = DiskRow(disk, Range(doomed), q)
    BY DEF EmptyTable
<1>2. QED
    BY <1>1 DEF Agree

LEMMA CloseMaps ==
    ASSUME Agree, Agree', CloseTree
    PROVE  StoreStep
<1>1. /\ isOpen /\ UNCHANGED <<memTable, disk, doomed>>
      /\ \/ isOpen' = isOpen
         \/ memTable = EmptyTable /\ isOpen' = FALSE
    BY DEF CloseTree
<1>2. OnDisk' = OnDisk
    BY <1>1 DEF Agree
<1>3. CASE isOpen' = isOpen
    <2>1. Contents' = Contents
        BY <1>1, <1>3 DEF Agree
    <2>2. QED
        BY <1>2, <2>1, StoreStutters
<1>4. CASE memTable = EmptyTable /\ isOpen' = FALSE
    <2>1. Contents = OnDisk
        BY <1>4, EmptyMemory
    <2>2. Contents' = OnDisk'
        BY <1>4 DEF Agree
    <2>3. QED
        BY <1>2, <2>1, <2>2, StoreStutters
<1>5. QED
    BY <1>1, <1>3, <1>4

LEMMA FlushMaps ==
    ASSUME TypeInv, OrderInv, Agree, Agree', FlushMemTable
    PROVE  StoreStep
<1> DEFINE n == nextSSTableId
           f == [level |-> 0, rows |-> memTable, whole |-> TRUE]
<1>1. /\ pc = "flush" /\ isOpen /\ n \in Nat /\ memTable \in Table /\ DiskOK(disk) /\ doomed = <<>>
      /\ disk' = With(f) /\ memTable' = EmptyTable /\ doomed' = doomed
    BY DEF FlushMemTable, File, TypeInv, LsmTypeOK
<1>2. f \in FileType /\ f.whole /\ f.level = 0 /\ f.rows = memTable
    BY <1>1 DEF FileType
<1>3. WithOK(disk', f)
    BY <1>1, <1>2, WithFile
<1> HIDE DEF f
<1>4. \A id \in DOMAIN disk : id < n /\ id \in Nat
    BY <1>1 DEF TypeInv, LsmTypeOK, DiskOK
<1>5. n \notin DOMAIN disk
    BY <1>1, <1>4
<1>6. /\ FilesOf(disk', 0) = FilesOf(disk, 0) \cup {n} /\ FilesOf(disk', 1) = FilesOf(disk, 1)
      /\ \A id \in DOMAIN disk : disk'[id] = disk[id]
    <2>1. FilesOf(disk', 0) = FilesOf(disk, 0) \cup IF f.level = 0 /\ f.whole THEN {n} ELSE {}
        BY <1>3, <1>5, FilesWith
    <2>2. FilesOf(disk', 1) = FilesOf(disk, 1) \cup IF f.level = 1 /\ f.whole THEN {n} ELSE {}
        BY <1>3, <1>5, FilesWith
    <2>3. \A id \in DOMAIN disk : disk'[id] = disk[id]
        BY <1>3, <1>5, FilesWith
    <2>4. f.whole /\ f.level = 0 /\ f.level # 1
        BY <1>2
    <2>5. QED
        BY <2>1, <2>2, <2>3, <2>4
<1>7. disk'[n].rows = memTable
    BY <1>2, <1>3 DEF WithOK
<1>8. \A l : FilesOf(disk, l) \subseteq DOMAIN disk /\ FilesOf(disk, l) \in SUBSET Nat /\ IsFiniteSet(FilesOf(disk, l))
    BY <1>1, FilesType
<1>9. Range(doomed) = {} /\ Range(doomed') = {}
    <2>1. Range(<<>>) = {}
        BY EmptySeq DEF Range
    <2>2. QED
        BY <1>1, <2>1
<1>10. \A k \in Key : DiskRow(disk', Range(doomed'), k) =
           IF memTable[k] # NoRow THEN memTable[k] ELSE DiskRow(disk, Range(doomed), k)
    <2> TAKE k \in Key
    <2> DEFINE e == disk'
    <2>1. \A l : NewestRow(e, FilesOf(disk, l), k) = NewestRow(disk, FilesOf(disk, l), k)
        <3> TAKE l
        <3> DEFINE ids == FilesOf(disk, l)
        <3>1. ids \in SUBSET Nat /\ IsFiniteSet(ids) /\ \A id \in ids : e[id] = disk[id]
            BY <1>6, <1>8
        <3> HIDE DEF ids, e
        <3>2. NewestRow(e, ids, k) = NewestRow(disk, ids, k)
            BY <3>1, NewestRowSame
        <3>3. QED
            BY <3>2 DEF ids
    <2>2. NewestRow(e, FilesOf(disk, 0) \cup {n}, k) =
              IF e[n].rows[k] # NoRow THEN e[n].rows[k] ELSE NewestRow(e, FilesOf(disk, 0), k)
        <3> DEFINE ids == FilesOf(disk, 0)
        <3>1. ids \in SUBSET Nat /\ IsFiniteSet(ids) /\ \A id \in ids : id < n
            BY <1>4, <1>8
        <3> HIDE DEF ids, e, n
        <3>2. n \in Nat
            BY <1>1
        <3>3. NewestRow(e, ids \cup {n}, k) =
                  IF e[n].rows[k] # NoRow THEN e[n].rows[k] ELSE NewestRow(e, ids, k)
            BY <3>1, <3>2, NewestRowMore
        <3>4. QED
            BY <3>3 DEF ids
    <2>3. DiskRow(disk, {}, k) = IF NewestRow(disk, FilesOf(disk, 0), k) # NoRow
                                 THEN NewestRow(disk, FilesOf(disk, 0), k)
                                 ELSE NewestRow(disk, FilesOf(disk, 1), k)
        <3>1. \A l : FilesOf(disk, l) \ {} = FilesOf(disk, l)
            OBVIOUS
        <3>2. QED
            BY <3>1 DEF DiskRow
    <2>4. DiskRow(e, {}, k) = IF NewestRow(e, FilesOf(e, 0), k) # NoRow
                              THEN NewestRow(e, FilesOf(e, 0), k)
                              ELSE NewestRow(e, FilesOf(e, 1), k)
        <3>1. \A l : FilesOf(e, l) \ {} = FilesOf(e, l)
            OBVIOUS
        <3>2. QED
            BY <3>1 DEF DiskRow
    <2>5. FilesOf(e, 0) = FilesOf(disk, 0) \cup {n} /\ FilesOf(e, 1) = FilesOf(disk, 1) /\ e[n].rows = memTable
        BY <1>6, <1>7
    <2> HIDE DEF e
    <2>6. DiskRow(e, {}, k) = IF memTable[k] # NoRow THEN memTable[k] ELSE DiskRow(disk, {}, k)
        BY <2>1, <2>2, <2>3, <2>4, <2>5
    <2>7. QED
        BY <1>9, <2>6 DEF e
<1>11. OnDisk' = Contents
    <2>1. OnDisk' = [k \in Key |-> Shown(DiskRow(disk', Range(doomed'), k))]
        BY DEF Agree
    <2>2. Contents = [k \in Key |-> Shown(IF memTable[k] # NoRow THEN memTable[k]
                                          ELSE DiskRow(disk, Range(doomed), k))]
        BY <1>1 DEF Agree
    <2>3. QED
        BY <1>10, <2>1, <2>2
<1>12. Contents' = OnDisk'
    <2>1. \A q \in Key : (IF memTable'[q] # NoRow THEN memTable'[q] ELSE DiskRow(disk', Range(doomed'), q))
                         = DiskRow(disk', Range(doomed'), q)
        BY <1>1 DEF EmptyTable
    <2>2. QED
        BY <2>1 DEF Agree
<1>13. Store!Save
    BY <1>11, <1>12 DEF Store!Save
<1>14. QED
    BY <1>13 DEF StoreStep, Store!Next

\* Steps between which neither the memtable nor the rows of the disk change.
LEMMA RowsStayMaps ==
    ASSUME Agree, Agree', isOpen' = isOpen, memTable' = memTable,
           \A k \in Key : DiskRow(disk', Range(doomed'), k) = DiskRow(disk, Range(doomed), k)
    PROVE  StoreStep
<1>1. OnDisk' = OnDisk
    BY DEF Agree
<1>2. Contents' = Contents
    BY <1>1 DEF Agree
<1>3. QED
    BY <1>1, <1>2, StoreStutters

LEMMA MergeMaps ==
    ASSUME TypeInv, TypeInv', Agree, Agree', MergeTables
    PROVE  StoreStep
<1>1. isOpen /\ UNCHANGED <<isOpen, memTable, level0, level1>>
    BY DEF MergeTables, TypeInv
<1>2. \A k \in Key : DiskRow(disk, Range(doomed), k) = ReadersRow(level0, level1, k)
    BY <1>1 DEF Agree
<1>3. \A k \in Key : DiskRow(disk', Range(doomed'), k) = ReadersRow(level0, level1, k)
    BY <1>1 DEF Agree
<1>4. QED
    BY <1>1, <1>2, <1>3, RowsStayMaps

LEMMA UnlinkMaps ==
    ASSUME TypeInv, Agree, Agree', UnlinkNext
    PROVE  StoreStep
<1> DEFINE h == Head(doomed)
<1>1. /\ DOMAIN disk' = DOMAIN disk \ {h} /\ \A id \in DOMAIN disk' : disk'[id] = disk[id]
      /\ Range(doomed) = Range(doomed') \cup {h}
      /\ memTable = EmptyTable /\ isOpen
    BY UnlinkOne
<1> HIDE DEF h
<1>2. DiskOK(disk) /\ memTable' = memTable
    BY DEF UnlinkNext, TypeInv
<1>3. \A l : /\ FilesOf(disk', l) \ Range(doomed') = FilesOf(disk, l) \ Range(doomed)
             /\ \A id \in FilesOf(disk, l) \ Range(doomed) : disk'[id] = disk[id]
    BY <1>1 DEF FilesOf
<1>4. \A k \in Key : DiskRow(disk', Range(doomed'), k) = DiskRow(disk, Range(doomed), k)
    BY <1>2, <1>3, RowsStay
<1>5. CASE isOpen' = isOpen
    BY <1>2, <1>4, <1>5, RowsStayMaps
<1>6. CASE ~isOpen'
    <2>1. OnDisk' = OnDisk
        BY <1>4 DEF Agree
    <2>2. Contents = OnDisk
        BY <1>1, EmptyMemory
    <2>3. Contents' = OnDisk'
        BY <1>6 DEF Agree
    <2>4. QED
        BY <2>1, <2>2, <2>3, StoreStutters
<1>7. isOpen' = isOpen \/ ~isOpen'
    BY <1>1 DEF UnlinkNext, EndCall
<1>8. QED
    BY <1>5, <1>6, <1>7

\* A file that is torn adds no row.
LEMMA TornMaps ==
    ASSUME TypeInv, isOpen, NEW l \in {0, 1}, disk' \in {disk, With(TornFile(l))}, doomed' = doomed
    PROVE  \A k \in Key : DiskRow(disk', Range(doomed'), k) = DiskRow(disk, Range(doomed), k)
<1>1. \A m : FilesOf(disk', m) = FilesOf(disk, m) /\ \A id \in FilesOf(disk, m) : disk'[id] = disk[id]
    BY TornFiles
<1>2. DiskOK(disk)
    BY DEF TypeInv
<1>3. \A m : /\ FilesOf(disk', m) \ Range(doomed') = FilesOf(disk, m) \ Range(doomed)
             /\ \A id \in FilesOf(disk, m) \ Range(doomed) : disk'[id] = disk[id]
    BY <1>1
<1>4. QED
    BY <1>2, <1>3, RowsStay

LEMMA FailureMaps ==
    ASSUME TypeInv, Agree, Agree', WriteFails
    PROVE  StoreStep
<1> DEFINE l == IF pc = "flush" THEN 0 ELSE 1
<1>1. /\ isOpen /\ disk' \in {disk, With(TornFile(l))} /\ doomed' = doomed
      /\ isOpen' = isOpen /\ memTable' = memTable
    BY DEF WriteFails, TypeInv
<1>2. l \in {0, 1}
    OBVIOUS
<1> HIDE DEF l
<1>3. QED
    BY <1>1, <1>2, TornMaps, RowsStayMaps

LEMMA CrashMaps ==
    ASSUME TypeInv, OrderInv, ~CrashBetweenUnlinks, Agree, Agree', CrashTree
    PROVE  StoreStep
<1> DEFINE l == IF pc = "flush" THEN 0 ELSE 1
<1>1. /\ isOpen /\ disk' \in {disk, With(TornFile(l))} /\ doomed' = <<>> /\ isOpen' = FALSE
      /\ pc # "unlink" \/ Len(doomed) = Len(level0)
      /\ pc = "unlink" => disk' = disk
    BY DEF CrashTree
<1>2. l \in {0, 1}
    OBVIOUS
<1> HIDE DEF l
<1>3. \A k \in Key : DiskRow(disk', Range(doomed'), k) = DiskRow(disk, Range(doomed), k)
    <2>1. CASE pc # "unlink"
        <3>1. doomed' = doomed
            BY <1>1, <2>1 DEF OrderInv
        <3>2. QED
            BY <1>1, <1>2, <3>1, TornMaps
    <2>2. CASE pc = "unlink"
        <3>1. Merging /\ DiskOK(disk) /\ disk' = disk
            BY <1>1, <2>2 DEF OrderInv, TypeInv
        <3>2. Serves(level0, FilesOf(disk, 0), disk)
            BY <1>1, <2>2, <3>1 DEF Merging
        <3>3. FilesOf(disk, 0) \in SUBSET Nat /\ IsFiniteSet(FilesOf(disk, 0))
            BY <3>1, FilesType
        <3> TAKE k \in Key
        <3>4. NewestRow(disk, FilesOf(disk, 1), k) = ReadersRow(level0, level1, k)
            BY <3>1, NewTableAnswers
        <3>5. FirstRow(Rows(level0), k) = NewestRow(disk, FilesOf(disk, 0), k)
            BY <3>2, <3>3, ServesNewest
        <3>6. DiskRow(disk, {}, k) = ReadersRow(level0, level1, k)
            <4>1. FilesOf(disk, 0) \ {} = FilesOf(disk, 0) /\ FilesOf(disk, 1) \ {} = FilesOf(disk, 1)
                OBVIOUS
            <4>2. QED
                BY <3>4, <3>5, <4>1 DEF DiskRow, ReadersRow
        <3>7. DiskRow(disk, Range(doomed), k) = ReadersRow(level0, level1, k)
            BY <1>1 DEF Agree
        <3>8. Range(doomed') = {}
            <4>1. Range(<<>>) = {}
                BY EmptySeq DEF Range
            <4>2. QED
                BY <1>1, <4>1
        <3>9. QED
            BY <3>1, <3>6, <3>7, <3>8
    <2>3. QED
        BY <2>1, <2>2
<1>4. OnDisk' = OnDisk
    BY <1>3 DEF Agree
<1>5. Contents' = OnDisk'
    BY <1>1 DEF Agree
<1>6. Store!Die
    BY <1>4, <1>5 DEF Store!Die
<1>7. QED
    BY <1>6 DEF StoreStep, Store!Next

LEMMA OpenMaps ==
    ASSUME TypeInv, Agree, Agree', Open
    PROVE  StoreStep
<1>1. ~isOpen /\ memTable' = EmptyTable /\ isOpen' /\ UNCHANGED <<disk, doomed>>
    BY DEF Open, TypeInv
<1>2. OnDisk' = OnDisk
    BY <1>1 DEF Agree
<1>3. Contents = OnDisk
    BY <1>1 DEF Agree
<1>4. Contents' = OnDisk'
    <2>1. \A q \in Key : (IF memTable'[q] # NoRow THEN memTable'[q] ELSE DiskRow(disk', Range(doomed'), q))
                         = DiskRow(disk', Range(doomed'), q)
        BY <1>1 DEF EmptyTable
    <2>2. QED
        BY <1>1, <2>1 DEF Agree
<1>5. QED
    BY <1>2, <1>3, <1>4, StoreStutters

LEMMA StoreInit ==
    ASSUME LsmInit, Agree
    PROVE  Store!Init
<1>1. ~isOpen /\ \A l : FilesOf(disk, l) = {}
    <2>1. DOMAIN <<>> = {}
        BY EmptySeq
    <2>2. DOMAIN disk = {}
        BY <2>1 DEF LsmInit
    <2>3. QED
        BY <2>2 DEF FilesOf, LsmInit
<1>2. \A k \in Key : DiskRow(disk, Range(doomed), k) = NoRow
    <2> TAKE k \in Key
    <2>1. NewestRow(disk, {}, k) = NoRow
        BY NoNewestRow
    <2>2. FilesOf(disk, 0) \ Range(doomed) = {} /\ FilesOf(disk, 1) \ Range(doomed) = {}
        BY <1>1
    <2>3. QED
        BY <2>1, <2>2 DEF DiskRow
<1>3. OnDisk = [k \in Key |-> None]
    BY <1>2 DEF Agree, Shown
<1>4. Contents = OnDisk
    BY <1>1 DEF Agree
<1>5. QED
    BY <1>3, <1>4 DEF Store!Init

LEMMA StoreNext ==
    ASSUME TypeInv, TypeInv', OrderInv, ~CrashBetweenUnlinks, Agree, Agree', [LsmNext]_lsmVars
    PROVE  StoreStep
<1>1. CASE UNCHANGED lsmVars
    <2>1. UNCHANGED <<isOpen, memTable, byteSize, frozen, level0, level1, nextSSTableId,
                      disk, pc, doomed, closing, clock>>
        BY <1>1, Unpack DEF lsmVars
    <2>2. QED
        BY <2>1, RowsStayMaps
<1>2. CASE LsmNext
    BY <1>2, WriteMaps, CloseMaps, FlushMaps, MergeMaps, UnlinkMaps, FailureMaps,
       CrashMaps, OpenMaps DEF LsmNext
<1>3. QED
    BY <1>1, <1>2

\* If no two rows of a key have one time and no death falls between two removals, the
\* engine is a map for every threshold and size, through any flushes, compactions,
\* failed writes, closes and deaths: a death takes it back to its last flush.
THEOREM KeepsTheMap ==
    ASSUME ~TiesAllowed, ~CrashBetweenUnlinks
    PROVE  LsmSpec => KeepsMap
<1>1. LsmInit => TypeInv /\ OrderInv
    BY TypeInvInit, OrderInvInit
<1>2. TypeInv /\ OrderInv /\ [LsmNext]_lsmVars => TypeInv' /\ OrderInv'
    BY TypeInvStep, OrderInvStep
<1>3. TypeInv /\ OrderInv => Agree
    BY AgreeAlways
<1>4. LsmInit /\ Agree => Store!Init
    BY StoreInit
<1>5. TypeInv /\ TypeInv' /\ OrderInv /\ Agree /\ Agree' /\ [LsmNext]_lsmVars => [Store!Next]_Store!vars
    BY StoreNext DEF StoreStep
<1>6. QED
    BY <1>1, <1>2, <1>3, <1>4, <1>5, PTL DEF LsmSpec, KeepsMap, Store!Spec
=============================================================================
