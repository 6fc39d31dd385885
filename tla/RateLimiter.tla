---------------------------- MODULE RateLimiter ----------------------------
(***************************************************************************)
(* The token buckets of the gateway: packages/gateway/src/rate_limiter.js, *)
(* and the same bucket in adaptive_throttler.js, which can also forget a   *)
(* tenant.  Time is the wall clock, which may be set back; a tick of it is *)
(* one refill of Rate tokens.                                              *)
(***************************************************************************)
EXTENDS Integers

CONSTANTS
    Client,          \* keys of the limiter, tenants of the throttler
    Capacity,        \* capacity of a bucket
    Rate,            \* refillRatePerSec
    Costs,           \* tokens a call may ask for
    MaxClock,        \* bound on the clock
    MaxGranted       \* bound on the tokens counted in a window

ASSUME RateAssumption ==
    /\ Capacity \in Nat /\ Rate \in Nat
    /\ Costs \subseteq Nat
    /\ MaxClock \in Nat /\ MaxGranted \in Nat

VARIABLES
    clock,      \* Date.now()
    bucket,     \* buckets: what each client has left and since when, or none
    window      \* history: a window of each client's calls, since its last reset

rateVars == <<clock, bucket, window>>

NoBucket == [exists |-> FALSE, tokens |-> 0, lastRefill |-> 0]

\* No call was counted yet.
NoWindow == [open |-> FALSE, from |-> 0, latest |-> 0, granted |-> 0]

Smaller(a, b) == IF a < b THEN a ELSE b
Larger(a, b) == IF a > b THEN a ELSE b

\* A mutant: the bucket has no rim.
RefilledOver(b) ==
    [exists |-> TRUE,
     tokens |-> IF b.exists THEN b.tokens + Rate * (clock - b.lastRefill) ELSE Capacity,
     lastRefill |-> clock]

\* A mutant: a clock that was set back is ignored, and the time is noted all the same.
RefilledForward(b) ==
    [exists |-> TRUE,
     tokens |-> IF b.exists THEN Smaller(Capacity, b.tokens + Rate * Larger(0, clock - b.lastRefill))
                            ELSE Capacity,
     lastRefill |-> clock]

\* The bucket a call finds once it is made or refilled; a clock that was set
\* back takes tokens away.
Refilled(b) ==
    [exists |-> TRUE,
     tokens |-> IF b.exists THEN Smaller(Capacity, b.tokens + Rate * (clock - b.lastRefill))
                            ELSE Capacity,
     lastRefill |-> clock]

Allowed(c, n) == Refilled(bucket[c]).tokens >= n

\* A window may begin with any call.
Counted(w, fresh, n) ==
    IF fresh THEN [open |-> TRUE, from |-> clock, latest |-> clock, granted |-> n]
             ELSE [w EXCEPT !.latest = Larger(@, clock), !.granted = @ + n]

TryConsume(c, n) ==
    LET taken == IF Allowed(c, n) THEN n ELSE 0
    IN  /\ bucket' = [bucket EXCEPT ![c] = [Refilled(bucket[c]) EXCEPT !.tokens = @ - taken]]
        /\ \E fresh \in BOOLEAN :
               /\ ~window[c].open => fresh
               /\ ~fresh => window[c].granted + taken <= MaxGranted
               /\ window' = [window EXCEPT ![c] = Counted(@, fresh, taken)]
        /\ UNCHANGED clock

\* resetTenant: the next call finds a full bucket, so the window ends here.
ResetTenant(c) ==
    /\ bucket' = [bucket EXCEPT ![c] = NoBucket]
    /\ window' = [window EXCEPT ![c] = NoWindow]
    /\ UNCHANGED clock

\* The clock goes on, or is set back.
SetClock ==
    /\ clock' \in 0..MaxClock
    /\ clock' <= clock + 1
    /\ UNCHANGED <<bucket, window>>

RateInit ==
    /\ clock = 0
    /\ bucket = [c \in Client |-> NoBucket]
    /\ window = [c \in Client |-> NoWindow]

RateNext ==
    \/ \E c \in Client, n \in Costs : TryConsume(c, n)
    \/ \E c \in Client : ResetTenant(c)
    \/ SetClock

RateSpec == RateInit /\ [][RateNext]_rateVars

RateTypeOK ==
    /\ clock \in 0..MaxClock
    /\ bucket \in [Client -> [exists : BOOLEAN, tokens : Int, lastRefill : 0..MaxClock]]
    /\ window \in [Client -> [open : BOOLEAN, from : 0..MaxClock, latest : 0..MaxClock, granted : Nat]]

-----------------------------------------------------------------------------
\* Whichever call a window begins with, its calls are granted no more than a full
\* bucket and what was refilled between its first and its latest moment, however
\* often the clock was set back and on again in between.
GrantsWithinRate ==
    \A c \in Client :
        window[c].granted <= Capacity + Rate * (window[c].latest - window[c].from)

=============================================================================
