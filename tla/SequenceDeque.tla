---------------------------- MODULE SequenceDeque ----------------------------
(***************************************************************************)
(* What a work-stealing deque promises: the owner puts and takes at the    *)
(* end, thieves take at the front, and everything is taken once.           *)
(***************************************************************************)
EXTENDS Sequences, Naturals

CONSTANTS Task, Nothing

VARIABLES items, taken

vars == <<items, taken>>

Init == items = <<>> /\ taken = Nothing

Push == /\ \E t \in Task : items' = Append(items, t)
        /\ taken' = Nothing

Pop == IF items = <<>> THEN taken' = Nothing /\ UNCHANGED items
       ELSE /\ taken' = items[Len(items)]
            /\ items' = SubSeq(items, 1, Len(items) - 1)

Steal == IF items = <<>> THEN taken' = Nothing /\ UNCHANGED items
         ELSE taken' = Head(items) /\ items' = Tail(items)

Next == Push \/ Pop \/ Steal

Spec == Init /\ [][Next]_vars
=============================================================================
