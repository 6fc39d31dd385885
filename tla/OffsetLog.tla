------------------------------ MODULE OffsetLog ------------------------------
(***************************************************************************)
(* What a partition promises to producers and consumers: records lie at    *)
(* consecutive offsets, new ones come at the end, retention takes them     *)
(* from the front and truncation, when it is called, from the end.         *)
(***************************************************************************)
EXTENDS Naturals, Sequences

CONSTANT Value

VARIABLES
    start,     \* the offset of the first record
    records,
    cuts       \* how often a client had the log truncated

vars == <<start, records, cuts>>

Init == start = 0 /\ records = <<>> /\ cuts = 0

Append1 == /\ UNCHANGED <<start, cuts>>
           /\ \E v \in Value : records' = Append(records, v)

Expire == \E n \in 1 .. Len(records) :
            /\ start' = start + n /\ UNCHANGED cuts
            /\ records' = SubSeq(records, n + 1, Len(records))

Truncate == /\ cuts' = cuts + 1 /\ UNCHANGED start
            /\ \E n \in 0 .. Len(records) : records' = SubSeq(records, 1, n)

Next == Append1 \/ Expire \/ Truncate

Spec == Init /\ [][Next]_vars
=============================================================================
