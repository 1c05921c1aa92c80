------------------------------ MODULE Throttle ------------------------------
(***************************************************************************)
(* What the counting of attempts promises while the lock is kept: attempts *)
(* at one key are made one at a time, every one that must be counted is    *)
(* counted, Limit of them in a row lock the key out for about Timeout, and *)
(* nothing is attempted while it is locked out.                            *)
(*                                                                         *)
(* Nothing is promised once the lock of a handler at work was not kept.    *)
(***************************************************************************)
EXTENDS Naturals

CONSTANTS
    Keys,
    Limit,          \* attempts that lock a key out
    Timeout,        \* for how long
    Latency         \* how long an attempt may last

VARIABLES
    now,
    failures,       \* attempts counted at each key
    kept,           \* until when each count is remembered
    until,          \* when each key opens again; 0 when it is open
    disturbed       \* the lock was not kept

vars == <<now, failures, kept, until, disturbed>>

Open(k) == until[k] = 0

Init ==
    /\ now = 0
    /\ failures = [k \in Keys |-> 0]
    /\ kept = [k \in Keys |-> 0]
    /\ until = [k \in Keys |-> 0]
    /\ disturbed = FALSE

\* The count may be ahead of failures: what was forgotten while the attempt
\* was being made is counted again.
Counted(k) ==
    /\ Open(k)
    /\ \E n \in failures[k] + 1 .. Limit - 1 :
          failures' = [failures EXCEPT ![k] = n]
    /\ kept' = [kept EXCEPT ![k] = now + Timeout]
    /\ UNCHANGED <<now, until, disturbed>>

LockedOut(k) ==
    /\ Open(k)
    /\ failures' = [failures EXCEPT ![k] = 0]
    /\ kept' = [kept EXCEPT ![k] = now + Timeout]
    /\ \E t \in now + Timeout - Latency .. now + Timeout :
          until' = [until EXCEPT ![k] = t]
    /\ UNCHANGED <<now, disturbed>>

Cleared(k) ==
    /\ Open(k)
    /\ failures' = [failures EXCEPT ![k] = 0]
    /\ kept' = [kept EXCEPT ![k] = 0]
    /\ UNCHANGED <<now, until, disturbed>>

\* A lock-out ends, and a count is forgotten, when its time has come.
Tick ==
    /\ now' = now + 1
    /\ until' = [k \in Keys |-> IF until[k] > now + 1 THEN until[k] ELSE 0]
    /\ failures' = [k \in Keys |-> IF kept[k] > now + 1 THEN failures[k] ELSE 0]
    /\ UNCHANGED <<kept, disturbed>>

Next ==
    \/ \E k \in Keys : Counted(k) \/ LockedOut(k) \/ Cleared(k)
    \/ Tick
    \/ disturbed'

Spec == Init /\ [][Next]_vars
=============================================================================
