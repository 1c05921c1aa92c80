-------------------------------- MODULE Lock --------------------------------
(***************************************************************************)
(* CacheDomain.withLock: a lock of Redlock on one Redis server.  A key     *)
(* holds the random value of the handler that has it, for ttl seconds; a   *)
(* timer of the handler extends it every third of the ttl, and stops at    *)
(* the first extension that fails.  The handler is not told: it goes on    *)
(* without the lock once the key has lapsed.                               *)
(*                                                                         *)
(* An extension that succeeds changes nothing here.  One that fails stands *)
(* for every reason: Redis does not answer, the process comes too late.    *)
(***************************************************************************)
EXTENDS Naturals

CONSTANTS
    Requests,       \* slots for the handlers served at the same time
    Keys,           \* what is locked
    Null,
    MaxFaults       \* bound on the extensions that fail

ASSUME LockAssumption ==
    /\ Null \notin Requests
    /\ MaxFaults \in Nat

VARIABLES
    holder,         \* whose value each key holds
    renewed,        \* the keys whose holder's timer is running
    faults          \* extensions that have failed

lockVars == <<holder, renewed, faults>>

LockTypeOK ==
    /\ holder \in [Keys -> Requests \cup {Null}]
    /\ renewed \subseteq Keys
    /\ faults \in 0 .. MaxFaults

LockInit ==
    /\ holder = [k \in Keys |-> Null]
    /\ renewed = {}
    /\ faults = 0

Acquire(r, k) ==
    /\ holder[k] = Null
    /\ holder' = [holder EXCEPT ![k] = r]
    /\ renewed' = renewed \cup {k}
    /\ UNCHANGED faults

ExtendFails(k) ==
    /\ k \in renewed
    /\ faults < MaxFaults
    /\ renewed' = renewed \ {k}
    /\ faults' = faults + 1
    /\ UNCHANGED holder

\* The ttl runs out.
Lapse(k) ==
    /\ holder[k] # Null
    /\ k \notin renewed
    /\ holder' = [holder EXCEPT ![k] = Null]
    /\ UNCHANGED <<renewed, faults>>

\* Mutant: the interval is not cleared when the handler is done.
KeepTimer(r, k) == UNCHANGED <<renewed, faults>>

\* clearInterval, or the end of the process and of its timers.
StopTimer(r, k) ==
    /\ renewed' = IF holder[k] = r THEN renewed \ {k} ELSE renewed
    /\ UNCHANGED faults

\* The key is deleted if it still holds the handler's value; an error of
\* the deletion is only logged.
Release(r, k) ==
    /\ StopTimer(r, k)
    /\ \/ holder' = [holder EXCEPT ![k] = IF @ = r THEN Null ELSE @]
       \/ UNCHANGED holder
=============================================================================
