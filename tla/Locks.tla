-------------------------------- MODULE Locks --------------------------------
(***************************************************************************)
(* The locks of packages/cluster/src/distributed_lock_manager.js and the   *)
(* sessions that take them.  Sessions of one owner are the threads of work *)
(* of one client: a lock is re-entrant for them.                           *)
(*                                                                         *)
(* A call is one step.  The random token of a lock is as good as its       *)
(* fencing number, which stands for both.  Nothing ever waits: acquire     *)
(* does not enqueue, so that release has nobody to wake.                   *)
(***************************************************************************)
EXTENDS Integers

CONSTANTS
    Session, Owner,
    OwnerOf,       \* OwnerOf[s]: the owner session s acts for
    Resource,
    LockTtls,      \* the lifetimes asked for by acquire
    Extensions,    \* and by renew
    NoLock, NoOwner,
    MaxLockTime, MaxNumber   \* bounds of the exploration

ASSUME OwnerAssumption == OwnerOf \in [Session -> Owner] /\ NoOwner \notin Owner
ASSUME LockTimeAssumption == LockTtls \subseteq Nat \ {0} /\ Extensions \subseteq Nat \ {0}

VARIABLES
    time,              \* Date.now(), which does not go back
    locks,             \* locks[r]: the entry of r, or NoLock
    fencingSequence,
    got,               \* got[s][r]: token and deadline as session s knows them, or NoLock
    lastLock           \* lastLock[r]: owner and fencing number of the last new lock of r

lockVars == <<time, locks, fencingSequence, got, lastLock>>

Lock == [owner : Owner, validUntil : Nat, token : Nat]
Handle == [token : Nat, validUntil : Nat]

\* NoLock is neither.
ASSUME NoLockAssumption == NoLock \notin Lock \cup Handle

-----------------------------------------------------------------------------
Valid(r) == locks[r] # NoLock /\ locks[r].validUntil > time

\* A mutant: the number of the lock before is given again.
SameNumber == fencingSequence

NextNumber == fencingSequence + 1

\* A mutant: the number is given out and the sequence stays.
NewLockUncounted(s, r, ttl) ==
    LET lock == [owner |-> OwnerOf[s], validUntil |-> time + ttl, token |-> NextNumber]
    IN  /\ ~Valid(r) /\ fencingSequence < MaxNumber
        /\ locks' = [locks EXCEPT ![r] = lock]
        /\ got' = [got EXCEPT ![s][r] = [token |-> lock.token, validUntil |-> time + ttl]]
        /\ lastLock' = [lastLock EXCEPT ![r] = [owner |-> OwnerOf[s], token |-> lock.token]]
        /\ UNCHANGED <<time, fencingSequence>>

\* acquire of a lock nobody has, or no longer.
NewLock(s, r, ttl) ==
    LET lock == [owner |-> OwnerOf[s], validUntil |-> time + ttl, token |-> NextNumber]
    IN  /\ ~Valid(r) /\ fencingSequence < MaxNumber
        /\ fencingSequence' = NextNumber
        /\ locks' = [locks EXCEPT ![r] = lock]
        /\ got' = [got EXCEPT ![s][r] = [token |-> lock.token, validUntil |-> time + ttl]]
        /\ lastLock' = [lastLock EXCEPT ![r] = [owner |-> OwnerOf[s], token |-> lock.token]]
        /\ UNCHANGED time

\* acquire of a lock the owner has already.
EnterAgain(s, r, ttl) ==
    /\ Valid(r) /\ locks[r].owner = OwnerOf[s]
    /\ locks' = [locks EXCEPT ![r].validUntil = time + ttl]
    /\ got' = [got EXCEPT ![s][r] = [token |-> locks[r].token, validUntil |-> time + ttl]]
    /\ UNCHANGED <<time, fencingSequence, lastLock>>

\* acquire of a lock that another owner has returns null.
Refuse(s, r) ==
    /\ Valid(r) /\ locks[r].owner # OwnerOf[s]
    /\ got' = [got EXCEPT ![s][r] = NoLock]
    /\ UNCHANGED <<time, locks, fencingSequence, lastLock>>

\* A mutant: any token opens the lock.
OpensAny(s, r) == got[s][r] # NoLock /\ locks[r] # NoLock

\* The token session s has is the one of the lock.
Opens(s, r) == got[s][r] # NoLock /\ locks[r] # NoLock /\ locks[r].token = got[s][r].token

Release(s, r) ==
    /\ got[s][r] # NoLock
    /\ IF Opens(s, r) THEN locks' = [locks EXCEPT ![r] = NoLock] ELSE UNCHANGED locks
    /\ got' = [got EXCEPT ![s][r] = NoLock]
    /\ UNCHANGED <<time, fencingSequence, lastLock>>

\* That the lock may have expired is not looked at.
Renew(s, r, extension) ==
    /\ got[s][r] # NoLock
    /\ IF Opens(s, r)
       THEN /\ locks' = [locks EXCEPT ![r].validUntil = time + extension]
            /\ got' = [got EXCEPT ![s][r].validUntil = time + extension]
       ELSE got' = [got EXCEPT ![s][r] = NoLock] /\ UNCHANGED locks
    /\ UNCHANGED <<time, fencingSequence, lastLock>>

LockTick ==
    /\ time < MaxLockTime
    /\ time' = time + 1
    /\ UNCHANGED <<locks, fencingSequence, got, lastLock>>

LockInit ==
    /\ time = 0
    /\ locks = [r \in Resource |-> NoLock]
    /\ fencingSequence = 0
    /\ got = [s \in Session |-> [r \in Resource |-> NoLock]]
    /\ lastLock = [r \in Resource |-> [owner |-> NoOwner, token |-> 0]]

LockNext ==
    \/ \E s \in Session, r \in Resource :
            \/ \E ttl \in LockTtls : NewLock(s, r, ttl) \/ EnterAgain(s, r, ttl)
            \/ Refuse(s, r)
            \/ Release(s, r)
            \/ \E extension \in Extensions : Renew(s, r, extension)
    \/ LockTick

LockSpec == LockInit /\ [][LockNext]_lockVars

-----------------------------------------------------------------------------
\* The types; no lock and no session has a number that was not given out.
LockTypeOK ==
    /\ time \in Nat /\ fencingSequence \in Nat
    /\ locks \in [Resource -> Lock \cup {NoLock}]
    /\ got \in [Session -> [Resource -> Handle \cup {NoLock}]]
    /\ lastLock \in [Resource -> [owner : Owner \cup {NoOwner}, token : Nat]]
    /\ \A r \in Resource :
        /\ locks[r] # NoLock => locks[r].token = lastLock[r].token
        /\ lastLock[r].token <= fencingSequence
        /\ \A s \in Session : got[s][r] # NoLock => got[s][r].token <= lastLock[r].token

\* Session s takes itself for a holder of r.
Owns(s, r) == got[s][r] # NoLock /\ got[s][r].validUntil > time

\* Mutual exclusion: sessions that take themselves for holders of one resource
\* have one owner, though a lock may be renewed after it expired.
OneOwner ==
    \A r \in Resource : \A s1, s2 \in Session :
        Owns(s1, r) /\ Owns(s2, r) => OwnerOf[s1] = OwnerOf[s2]

\* A lock has one holder at a time and growing numbers; only the last holder
\* gets it back without a new number.
LocksFenced ==
    INSTANCE FencedMutex WITH
        Key    <- Resource,
        Node   <- Owner,
        Nobody <- NoOwner,
        holder <- [r \in Resource |-> IF Valid(r) THEN locks[r].owner ELSE NoOwner],
        last   <- [r \in Resource |-> lastLock[r].owner],
        token  <- [r \in Resource |-> lastLock[r].token]

LocksKeepFencing == LocksFenced!RenewableSpec
=============================================================================
