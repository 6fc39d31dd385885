----------------------------- MODULE Supervisor -----------------------------
(***************************************************************************)
(* The child processes of packages/worker/src/process_supervisor.js, each  *)
(* under a watchdog: what Worker sees of a run is its outcome only.        *)
(*                                                                         *)
(* A child may be deaf, that is ignore SIGTERM; and it may be killed by    *)
(* someone else, such as the kernel that is short of memory.               *)
(***************************************************************************)
CONSTANT Run   \* the calls of ProcessSupervisor.execute

VARIABLES
    child,       \* "none", "alive", "exited" or "closed"
    deaf,
    exitCode,    \* of a child that is not alive: "zero", "other", "null" after a signal
    watchdog,    \* timeoutTimer is set
    escalation,  \* the timer of one second after SIGTERM is set
    timedOut,
    killed,      \* child.killed: kill() was able to send a signal
    outcome      \* of the promise: "pending", "rejected" or an exit code

supVars == <<child, deaf, exitCode, watchdog, escalation, timedOut, killed, outcome>>

-----------------------------------------------------------------------------
Spawn(r) ==
    /\ child[r] = "none"
    /\ child' = [child EXCEPT ![r] = "alive"]
    /\ \E b \in BOOLEAN : deaf' = [deaf EXCEPT ![r] = b]
    /\ watchdog' = [watchdog EXCEPT ![r] = TRUE]
    /\ UNCHANGED <<exitCode, escalation, timedOut, killed, outcome>>

\* The command cannot be started: the event 'error' comes at once.
SpawnError(r) ==
    /\ child[r] = "none"
    /\ child' = [child EXCEPT ![r] = "closed"]
    /\ outcome' = [outcome EXCEPT ![r] = "rejected"]
    /\ UNCHANGED <<deaf, exitCode, watchdog, escalation, timedOut, killed>>

End(r, code) ==
    /\ child' = [child EXCEPT ![r] = "exited"]
    /\ exitCode' = [exitCode EXCEPT ![r] = code]

\* The child ends by itself or by the signal of another process.
Exit(r) ==
    /\ child[r] = "alive"
    /\ \E code \in {"zero", "other", "null"} : End(r, code)
    /\ UNCHANGED <<deaf, watchdog, escalation, timedOut, killed, outcome>>

\* A mutant: the signal is sent to none.
KillNone(r, heard) == UNCHANGED <<child, exitCode, killed>>

\* child.kill with a signal the child obeys or not.
Kill(r, heard) ==
    IF child[r] = "alive"
    THEN /\ killed' = [killed EXCEPT ![r] = TRUE]
         /\ IF heard THEN End(r, "null") ELSE UNCHANGED <<child, exitCode>>
    ELSE UNCHANGED <<child, exitCode, killed>>

Timeout(r) ==
    /\ watchdog[r]
    /\ watchdog' = [watchdog EXCEPT ![r] = FALSE]
    /\ timedOut' = [timedOut EXCEPT ![r] = TRUE]
    /\ Kill(r, ~deaf[r])
    /\ escalation' = [escalation EXCEPT ![r] = TRUE]
    /\ UNCHANGED <<deaf, outcome>>

\* SIGKILL for a child that no signal was sent to.
Escalate(r) ==
    /\ escalation[r]
    /\ escalation' = [escalation EXCEPT ![r] = FALSE]
    /\ IF killed[r] THEN UNCHANGED <<child, exitCode, killed>> ELSE Kill(r, TRUE)
    /\ UNCHANGED <<deaf, watchdog, timedOut, outcome>>

\* A mutant: a run that timed out is resolved like any other.
OutcomeOfCode(r) == IF exitCode[r] = "null" THEN "zero" ELSE exitCode[r]

Outcome(r) ==
    IF timedOut[r] THEN "rejected"
    ELSE IF exitCode[r] = "null" THEN "zero" ELSE exitCode[r]

\* A mutant: the watchdog stays armed.
CloseOnly(r) ==
    /\ child[r] = "exited"
    /\ child' = [child EXCEPT ![r] = "closed"]
    /\ outcome' = [outcome EXCEPT ![r] = Outcome(r)]
    /\ UNCHANGED <<deaf, exitCode, watchdog, escalation, timedOut, killed>>

\* The event 'close': the child has ended and its streams with it.
Close(r) ==
    /\ child[r] = "exited"
    /\ child' = [child EXCEPT ![r] = "closed"]
    /\ watchdog' = [watchdog EXCEPT ![r] = FALSE]
    /\ outcome' = [outcome EXCEPT ![r] = Outcome(r)]
    /\ UNCHANGED <<deaf, exitCode, escalation, timedOut, killed>>

SupInit ==
    /\ child = [r \in Run |-> "none"]
    /\ exitCode = [r \in Run |-> "null"]
    /\ outcome = [r \in Run |-> "pending"]
    /\ deaf = [r \in Run |-> FALSE]
    /\ watchdog = [r \in Run |-> FALSE]
    /\ escalation = [r \in Run |-> FALSE]
    /\ timedOut = [r \in Run |-> FALSE]
    /\ killed = [r \in Run |-> FALSE]

SupNext ==
    \E r \in Run :
        \/ Spawn(r) \/ SpawnError(r) \/ Exit(r) \/ Close(r)
        \/ Timeout(r) \/ Escalate(r)

SupSpec == SupInit /\ [][SupNext]_supVars

\* Timers fire and the event of the end of a process arrives.  That a child ends
\* by itself is not assumed.
SupFairness ==
    \A r \in Run : WF_supVars(Close(r)) /\ WF_supVars(Timeout(r)) /\ WF_supVars(Escalate(r))

-----------------------------------------------------------------------------
\* The types; no watchdog is set for a run that is over.
SupTypeOK ==
    /\ child \in [Run -> {"none", "alive", "exited", "closed"}]
    /\ exitCode \in [Run -> {"zero", "other", "null"}]
    /\ outcome \in [Run -> {"pending", "rejected", "zero", "other"}]
    /\ {deaf, watchdog, escalation, timedOut, killed} \subseteq [Run -> BOOLEAN]
    /\ \A r \in Run : child[r] = "closed" => ~watchdog[r]

\* A run whose watchdog fired never counts as a success, though the child may
\* end with code 0 between the timeout and the event of its end.
TimeoutIsFailure == \A r \in Run : timedOut[r] => outcome[r] \in {"pending", "rejected"}

\* A run ends though its child does not, if the child obeys SIGTERM.
HearingRunsEnd ==
    \A r \in Run : child[r] = "alive" /\ ~deaf[r] ~> outcome[r] # "pending"
=============================================================================
