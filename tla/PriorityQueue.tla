--------------------------- MODULE PriorityQueue ---------------------------
(***************************************************************************)
(* The binary heap of packages/core/src/priority_queue.js, in which the    *)
(* scheduler keeps the tasks that are ready.  Items are told apart by what *)
(* the comparator sees of them.  Position i of the heap is heap[i - 1].    *)
(*                                                                         *)
(* A call is a sequence of steps, one for each round of a sifting loop;    *)
(* the next call comes when it has returned.                               *)
(***************************************************************************)
EXTENDS Integers, Sequences, FiniteSets

CONSTANTS
    Rank,       \* what the comparator sees of an item
    MaxHeap     \* bound on the items

ASSUME RankAssumption == Rank \subseteq Int

VARIABLES
    heap,      \* heap
    sifting,   \* the loop that runs, "none" between calls
    idx,       \* where it is
    hole,      \* where the call put an item
    kept       \* history: how many items of each rank should be there

heapVars == <<heap, sifting, idx, hole, kept>>

Swapped(h, i, j) == [h EXCEPT ![i] = h[j], ![j] = h[i]]

\* The smaller child, the left one of two equals.
BestChild(h, i) == IF 2 * i < Len(h) /\ h[2 * i + 1] < h[2 * i] THEN 2 * i + 1 ELSE 2 * i

\* One round of _siftUp.
SiftUp ==
    /\ sifting = "up"
    /\ IF idx > 1 /\ heap[idx] < heap[idx \div 2]
       THEN heap' = Swapped(heap, idx, idx \div 2) /\ idx' = idx \div 2 /\ UNCHANGED sifting
       ELSE sifting' = "none" /\ UNCHANGED <<heap, idx>>
    /\ UNCHANGED <<hole, kept>>

\* A mutant: the item that takes a place in the middle only goes down.
SinkOnly ==
    /\ sifting = "down"
    /\ IF 2 * idx <= Len(heap) /\ heap[BestChild(heap, idx)] < heap[idx]
       THEN /\ heap' = Swapped(heap, idx, BestChild(heap, idx))
            /\ idx' = BestChild(heap, idx)
            /\ UNCHANGED sifting
       ELSE sifting' = "none" /\ UNCHANGED <<heap, idx>>
    /\ UNCHANGED <<hole, kept>>

\* One round of _siftDown.  After the last one the item that is at the hole goes up; pop
\* leaves that out, as at the top there is nothing to sift.
SiftDown ==
    /\ sifting = "down"
    /\ IF 2 * idx <= Len(heap) /\ heap[BestChild(heap, idx)] < heap[idx]
       THEN /\ heap' = Swapped(heap, idx, BestChild(heap, idx))
            /\ idx' = BestChild(heap, idx)
            /\ UNCHANGED sifting
       ELSE sifting' = "up" /\ idx' = hole /\ UNCHANGED heap
    /\ UNCHANGED <<hole, kept>>

-----------------------------------------------------------------------------
PushItem(r) ==
    /\ sifting = "none" /\ Len(heap) < MaxHeap
    /\ heap' = Append(heap, r)
    /\ sifting' = "up" /\ idx' = Len(heap) + 1 /\ hole' = Len(heap) + 1
    /\ kept' = [kept EXCEPT ![r] = @ + 1]

\* The last item takes the place and goes where it belongs, down or up.
RemoveItemAt(i) ==
    /\ sifting = "none"
    /\ heap' = SubSeq(Swapped(heap, i, Len(heap)), 1, Len(heap) - 1)
    /\ IF i < Len(heap) THEN sifting' = "down" /\ idx' = i /\ hole' = i
       ELSE UNCHANGED <<sifting, idx, hole>>
    /\ kept' = [kept EXCEPT ![heap[i]] = @ - 1]

PopTop == heap # <<>> /\ RemoveItemAt(1)

\* removeMatching: any item may be the first that the predicate holds of.
RemoveMatching(i) == RemoveItemAt(i)

Clear ==
    /\ sifting = "none"
    /\ heap' = <<>>
    /\ kept' = [r \in Rank |-> 0]
    /\ UNCHANGED <<sifting, idx, hole>>

HeapInit ==
    /\ heap = <<>> /\ kept = [r \in Rank |-> 0]
    /\ sifting = "none" /\ idx = 1 /\ hole = 1

HeapNext ==
    \/ \E r \in Rank : PushItem(r)
    \/ PopTop
    \/ \E i \in DOMAIN heap : RemoveMatching(i)
    \/ Clear
    \/ SiftUp \/ SiftDown

HeapSpec == HeapInit /\ [][HeapNext]_heapVars

-----------------------------------------------------------------------------
\* Whatever was pushed, popped and removed from the middle, nothing is lost or
\* doubled, and between calls the item at the top is the first of those that are there.
TopIsFirst ==
    /\ \A r \in Rank : kept[r] = Cardinality({i \in DOMAIN heap : heap[i] = r})
    /\ sifting = "none" /\ heap # <<>> => \A r \in Rank : kept[r] > 0 => heap[1] <= r
=============================================================================
