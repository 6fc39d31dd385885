------------------------------- MODULE Leases -------------------------------
(***************************************************************************)
(* The leases of packages/cluster/src/lease_manager.js and the nodes that  *)
(* take them.  A coordinator makes a manager of its own, so that what is   *)
(* said of leases depends on who shares a manager.                         *)
(*                                                                         *)
(* A call of a manager is one step.  A node keeps the last grant it got    *)
(* and takes itself for the holder until the grant expires.                *)
(***************************************************************************)
EXTENDS Integers

CONSTANTS
    Node, Key,
    Manager,       \* the instances of LeaseManager
    ManagerOf,     \* ManagerOf[n]: the instance node n calls
    Ttls,          \* the lifetimes asked for
    Drift,         \* how far the clock of a node may be behind the manager's
    None, Nobody,
    MaxTime, MaxToken, MaxRestarts   \* bounds of the exploration

ASSUME ManagerAssumption == ManagerOf \in [Node -> Manager]
ASSUME TimeAssumption    == Ttls \subseteq Nat \ {0} /\ Drift \in Nat
ASSUME NobodyAssumption  == Nobody \notin Node

VARIABLES
    now,           \* Date.now(), which does not go back
    leases,        \* leases[m][k]: the entry of manager m for k, or None
    counter,       \* globalFencingCounter of each manager
    grant,         \* grant[n][k]: what node n was granted last of k, or None
    last,          \* last[m][k]: the last grant the process of m made of k
    restarts       \* how often each manager was started again

vars == <<now, leases, counter, grant, last, restarts>>

\* process is not in the code: it tells the processes of a manager apart.
Lease == [holder : Node, expiresAt : Nat, epoch : Nat, token : Nat, process : Nat]

NoGrant == [holder |-> Nobody, expiresAt |-> 0, epoch |-> 0, token |-> 0, process |-> 0]

\* None is not a lease.
ASSUME NoneAssumption == None \notin Lease

-----------------------------------------------------------------------------
\* A mutant: a lease is free one unit of time too early.
FreeEarly(m, k) == leases[m][k] # None => now + 1 >= leases[m][k].expiresAt

Free(m, k) == leases[m][k] # None => now >= leases[m][k].expiresAt

\* A mutant: the epoch of the former lease is taken over as it is.
SameEpoch(m, k) == IF leases[m][k] = None THEN 0 ELSE leases[m][k].epoch

NextEpoch(m, k) == IF leases[m][k] = None THEN 1 ELSE leases[m][k].epoch + 1

\* A mutant: the counter is not increased.
SameToken(m) == counter[m]

NextToken(m) == counter[m] + 1

ValidateFencingToken(m, k, token) == ~Free(m, k) /\ leases[m][k].token = token

\* acquireLease of a lease that nobody has, or no longer.
GrantLease(n, k, ttl) ==
    LET m == ManagerOf[n]
        lease == [holder |-> n, expiresAt |-> now + ttl,
                  epoch |-> NextEpoch(m, k), token |-> NextToken(m), process |-> restarts[m]]
    IN  /\ Free(m, k) /\ counter[m] < MaxToken
        /\ counter' = [counter EXCEPT ![m] = NextToken(m)]
        /\ leases' = [leases EXCEPT ![m][k] = lease]
        /\ grant' = [grant EXCEPT ![n][k] = lease]
        /\ last' = [last EXCEPT ![m][k] = lease]
        /\ UNCHANGED <<now, restarts>>

\* A mutant: the holder renews what has expired.
RenewExpiredLease(n, k, ttl) ==
    LET m == ManagerOf[n]
        lease == [leases[m][k] EXCEPT !.expiresAt = now + ttl]
    IN  /\ leases[m][k] # None /\ leases[m][k].holder = n
        /\ leases' = [leases EXCEPT ![m][k] = lease]
        /\ grant' = [grant EXCEPT ![n][k] = lease]
        /\ UNCHANGED <<now, counter, last, restarts>>

\* acquireLease by the holder: the token and the epoch stay.
RenewLease(n, k, ttl) ==
    LET m == ManagerOf[n]
        lease == [leases[m][k] EXCEPT !.expiresAt = now + ttl]
    IN  /\ ~Free(m, k) /\ leases[m][k].holder = n
        /\ leases' = [leases EXCEPT ![m][k] = lease]
        /\ grant' = [grant EXCEPT ![n][k] = lease]
        /\ UNCHANGED <<now, counter, last, restarts>>

\* acquireLease of a lease that another node has.
RefuseLease(n, k) ==
    /\ ~Free(ManagerOf[n], k) /\ leases[ManagerOf[n]][k].holder # n
    /\ grant' = [grant EXCEPT ![n][k] = None]
    /\ UNCHANGED <<now, leases, counter, last, restarts>>

\* A mutant: whoever asks releases the lease.
ReleaseByAnyone(n, k) ==
    /\ leases' = [leases EXCEPT ![ManagerOf[n]][k] = None]
    /\ grant' = [grant EXCEPT ![n][k] = None]
    /\ UNCHANGED <<now, counter, last, restarts>>

\* The entry goes, and its epoch with it; expiry is not looked at.
ReleaseLease(n, k) ==
    LET held == leases[ManagerOf[n]][k]
    IN  /\ IF held # None /\ held.holder = n
           THEN leases' = [leases EXCEPT ![ManagerOf[n]][k] = None]
           ELSE UNCHANGED leases
        /\ grant' = [grant EXCEPT ![n][k] = None]
        /\ UNCHANGED <<now, counter, last, restarts>>

Tick ==
    /\ now < MaxTime
    /\ now' = now + 1
    /\ UNCHANGED <<leases, counter, grant, last, restarts>>

\* The process of a manager is started again: nothing was saved.
Restart(m) ==
    /\ restarts[m] < MaxRestarts
    /\ restarts' = [restarts EXCEPT ![m] = @ + 1]
    /\ leases' = [leases EXCEPT ![m] = [k \in Key |-> None]]
    /\ counter' = [counter EXCEPT ![m] = 1]
    /\ last' = [last EXCEPT ![m] = [k \in Key |-> NoGrant]]
    /\ UNCHANGED <<now, grant>>

Init ==
    /\ now = 0
    /\ leases = [m \in Manager |-> [k \in Key |-> None]]
    /\ counter = [m \in Manager |-> 1]
    /\ grant = [n \in Node |-> [k \in Key |-> None]]
    /\ last = [m \in Manager |-> [k \in Key |-> NoGrant]]
    /\ restarts = [m \in Manager |-> 0]

Next ==
    \/ \E n \in Node, k \in Key :
            \/ \E ttl \in Ttls : GrantLease(n, k, ttl) \/ RenewLease(n, k, ttl)
            \/ RefuseLease(n, k)
            \/ ReleaseLease(n, k)
    \/ Tick
    \/ \E m \in Manager : Restart(m)

Spec == Init /\ [][Next]_vars

-----------------------------------------------------------------------------
\* The types; epochs and tokens of grants start above those of no grant.
TypeOK ==
    /\ now \in Nat /\ restarts \in [Manager -> Nat]
    /\ counter \in [Manager -> Nat \ {0}]
    /\ leases \in [Manager -> [Key -> Lease \cup {None}]]
    /\ grant \in [Node -> [Key -> Lease \cup {None}]]
    /\ last \in [Manager -> [Key -> Lease \cup {NoGrant}]]
    /\ \A m \in Manager, k \in Key :
            leases[m][k] # None => leases[m][k].epoch > 0 /\ leases[m][k].token > 1

\* Node n takes itself for the holder of k.
Holds(n, k) == grant[n][k] # None /\ now < grant[n][k].expiresAt + Drift

\* It was granted by the process its manager runs in now.
IsPresent(n, k) == grant[n][k].process = restarts[ManagerOf[n]]

\* A lease of one manager has one holder: it is not given to a node while another
\* one, which may have been late to renew or to release, still takes itself for
\* the holder.  A restart makes the manager forget its holders.
OneHolder ==
    \A k \in Key : \A n1, n2 \in Node :
        /\ ManagerOf[n1] = ManagerOf[n2]
        /\ Holds(n1, k) /\ IsPresent(n1, k)
        /\ Holds(n2, k) /\ IsPresent(n2, k)
        => n1 = n2

\* A node that takes itself for the holder passes the check of its token,
\* whatever the other nodes called in between.
HolderIsValid ==
    \A n \in Node, k \in Key :
        Holds(n, k) /\ IsPresent(n, k)
            => ValidateFencingToken(ManagerOf[n], k, grant[n][k].token)

\* Once a process has refused the token of a holder it refuses it for good: a node
\* that comes back late is not taken for the holder again, by renewal neither.
StaysFenced ==
    [][\A m \in Manager, k \in Key : \A token \in 1..counter[m] :
            ~ValidateFencingToken(m, k, token) => ~ValidateFencingToken(m, k, token)']_vars

\* Each lease of each manager has one holder at a time and growing tokens, until
\* its process ends and the tokens start again.
Fenced ==
    INSTANCE FencedMutex WITH
        Key    <- Manager \X Key,
        holder <- [e \in Manager \X Key |->
                     IF Free(e[1], e[2]) THEN Nobody ELSE leases[e[1]][e[2]].holder],
        last   <- [e \in Manager \X Key |-> last[e[1]][e[2]].holder],
        token  <- [e \in Manager \X Key |-> last[e[1]][e[2]].token]

KeepsFencing == Fenced!VolatileSpec
=============================================================================
