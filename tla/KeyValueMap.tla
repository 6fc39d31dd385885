----------------------------- MODULE KeyValueMap -----------------------------
(***************************************************************************)
(* What a key-value store promises to its clients: a read returns the last *)
(* write of the key, and a process death takes the store back to one       *)
(* earlier state of it as a whole, the one that was saved.                 *)
(***************************************************************************)
CONSTANTS Key, Value, None

VARIABLES
    map,    \* what reads return, None for a key without value
    saved   \* what survives a process death

vars == <<map, saved>>

Init == map = [k \in Key |-> None] /\ saved = map

Write(k) == /\ map'[k] \in Value \cup {None}
            /\ map' = [map EXCEPT ![k] = map'[k]]
            /\ UNCHANGED saved
Save == saved' = map /\ UNCHANGED map
Die == map' = saved /\ UNCHANGED saved

Next == Save \/ Die \/ \E k \in Key : Write(k)

Spec == Init /\ [][Next]_vars
=============================================================================
