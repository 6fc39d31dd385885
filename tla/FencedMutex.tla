----------------------------- MODULE FencedMutex -----------------------------
(***************************************************************************)
(* What a table of leases or locks promises: each has one holder at a time *)
(* and every grant comes with a larger token than the grants before, so    *)
(* that whoever uses the tokens can tell a late holder from the present.   *)
(***************************************************************************)
EXTENDS Integers

CONSTANTS Key, Node, Nobody

VARIABLES
    holder,   \* holder[k]: of the lease k, or Nobody
    last,     \* last[k]: to whom k was granted last, or Nobody
    token     \* token[k]: that came with the last grant of k

vars == <<holder, last, token>>

Init ==
    /\ holder = [k \in Key |-> Nobody]
    /\ last = [k \in Key |-> Nobody]
    /\ token = [k \in Key |-> 0]

Grant(k, n) ==
    /\ holder[k] = Nobody
    /\ holder' = [holder EXCEPT ![k] = n]
    /\ last' = [last EXCEPT ![k] = n]
    /\ \E t \in {token'[k]} : t > token[k] /\ token' = [token EXCEPT ![k] = t]

\* By expiry or by release; time passes for all of them.
Lose(ks) ==
    /\ holder' = [k \in Key |-> IF k \in ks THEN Nobody ELSE holder[k]]
    /\ UNCHANGED <<last, token>>

\* A holder that lost it to nobody may have it back, with the token it had.
Regain(k) ==
    /\ holder[k] = Nobody
    /\ holder' = [holder EXCEPT ![k] = last[k]]
    /\ UNCHANGED <<last, token>>

\* The process that keeps the entries ks is started again: it knows neither the
\* holders nor the tokens of the past.
Forget(ks) ==
    /\ holder' = [k \in Key |-> IF k \in ks THEN Nobody ELSE holder[k]]
    /\ last' = [k \in Key |-> IF k \in ks THEN Nobody ELSE last[k]]
    /\ token' = [k \in Key |-> IF k \in ks THEN 0 ELSE token[k]]

Next == \/ \E ks \in SUBSET Key : Lose(ks)
        \/ \E k \in Key, n \in Node : Grant(k, n)

VolatileNext == Next \/ \E ks \in SUBSET Key : Forget(ks)

RenewableNext == Next \/ \E k \in Key : Regain(k)

\* What a table in memory promises, and one whose locks may be renewed late.
VolatileSpec  == Init /\ [][VolatileNext]_vars
RenewableSpec == Init /\ [][RenewableNext]_vars
=============================================================================
