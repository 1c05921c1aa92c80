--------------------------- MODULE Attempts_proofs ---------------------------
(***************************************************************************)
(* Proofs about Attempts: its types, that the lock excludes while it is    *)
(* extended, that the counting of login and resendVerifyEmail implements   *)
(* module Throttle, and how far a streak of attempts may go when the lock  *)
(* does not exclude.                                                       *)
(***************************************************************************)
EXTENDS Attempts, FiniteSetTheorems, TLAPS

----------------------------------------------------------------------------
(* Typing, and what a handler knows of the time *)

\* A handler at work has a key and is not older than Latency.  Once it has
\* found the key open, the data it read is open, and stays so.
HandlerOK(r) ==
    /\ ~At(r, "idle") =>
          req[r].key \in Keys /\ req[r].began <= now /\ now <= req[r].began + Latency
    /\ req[r].pc \in {"attempt", "count", "clear"} =>
          /\ req[r].data.count < Limit
          /\ req[r].data.lockedUntil <= req[r].now
          /\ req[r].began <= req[r].now /\ req[r].now <= now

\* A lock-out is over when its key is gone, if not before.
RetryOK(k) == retry[k].count < Limit /\ retry[k].lockedUntil <= retry[k].gone

Typed ==
    /\ TypeOK
    /\ \A r \in Requests : HandlerOK(r)
    /\ \A k \in Keys : RetryOK(k)

LEMMA InitTyped == Init => Typed
<1> USE AttemptsAssumption, LockAssumption
<1> SUFFICES ASSUME Init PROVE Typed OBVIOUS
<1>1. TypeOK
  BY DEF Init, LockInit, TypeOK, LockTypeOK, Idle, Request, NoRetry, Retry, Inside
<1>2. \A r \in Requests : HandlerOK(r)
  BY DEF Init, HandlerOK, At, Idle
<1>3. \A k \in Keys : RetryOK(k)
  BY DEF Init, RetryOK, NoRetry
<1> QED BY <1>1, <1>2, <1>3 DEF Typed

\* The parts of Typed that a step of the handler r can disturb.
LEMMA HandlerTypedIf ==
    ASSUME Typed, NEW r \in Requests,
           LockTypeOK', now' = now, retry' \in [Keys -> Retry],
           streak' \in [Keys -> Nat], lost' \in [Keys -> Nat],
           \E q \in Request : req' = [req EXCEPT ![r] = q],
           HandlerOK(r)', \A k \in Keys : RetryOK(k)'
    PROVE  Typed'
<1>1. PICK q \in Request : req' = [req EXCEPT ![r] = q] OBVIOUS
<1>2. TypeOK'
  BY <1>1 DEF Typed, TypeOK
<1>3. ASSUME NEW p \in Requests, p # r PROVE HandlerOK(p)'
  <2>1. req'[p] = req[p] BY <1>1, <1>3 DEF Typed, TypeOK
  <2> QED BY <2>1 DEF Typed, HandlerOK, At
<1> QED BY <1>2, <1>3 DEF Typed

LEMMA StoredTyped ==
    ASSUME Typed, NEW k \in Keys
    PROVE  /\ Stored(k) \in Retry
           /\ Stored(k).count < Limit
           /\ Stored(k) = retry[k] \/ Stored(k) = NoRetry
BY AttemptsAssumption DEF Typed, TypeOK, RetryOK, Stored, NoRetry, Retry

LEMMA CountedTyped ==
    ASSUME NEW d \in Retry, NEW t \in Nat, d.count < Limit
    PROVE  /\ CountedIn(d, t) \in Retry
           /\ CountedIn(d, t).count < Limit
           /\ CountedIn(d, t).lockedUntil \in {d.lockedUntil, t + Timeout}
           /\ CountedIn(d, t).gone = d.gone
<1>1. d.count \in Nat /\ Timeout \in Nat /\ Limit \in Nat
  BY AttemptsAssumption DEF Retry
<1>2. CASE d.count + 1 >= Limit
  <2>1. CountedIn(d, t) = [count |-> 0, lockedUntil |-> t + Timeout, gone |-> d.gone]
    BY <1>2 DEF CountedIn, Retry
  <2> QED BY <1>1, <2>1, AttemptsAssumption DEF Retry
<1>3. CASE ~(d.count + 1 >= Limit)
  <2>1. CountedIn(d, t) =
           [count |-> d.count + 1, lockedUntil |-> d.lockedUntil, gone |-> d.gone]
    BY <1>3 DEF CountedIn, Retry
  <2> QED BY <1>1, <1>3, <2>1 DEF Retry
<1> QED BY <1>2, <1>3

\* The locked steps keep the lock's types.
LEMMA LockTyped ==
    ASSUME LockTypeOK, NEW r \in Requests, NEW k \in Keys,
           \/ Acquire(r, k) \/ ExtendFails(k) \/ Lapse(k) \/ Release(r, k)
           \/ StopTimer(r, k) /\ UNCHANGED holder
           \/ UNCHANGED lockVars
    PROVE  LockTypeOK'
BY LockAssumption DEF LockTypeOK, Acquire, ExtendFails, Lapse, Release, StopTimer, lockVars

LEMMA StepTyped ==
    ASSUME Typed, NEW r \in Requests, Step(r) PROVE Typed'
<1> USE AttemptsAssumption
<1>t. /\ req \in [Requests -> Request] /\ retry \in [Keys -> Retry]
      /\ now \in Nat /\ streak \in [Keys -> Nat] /\ lost \in [Keys -> Nat]
      /\ LockTypeOK /\ HandlerOK(r) /\ \A k \in Keys : RetryOK(k)
      /\ req[r].pc # "idle" => req[r].key \in Keys
  BY DEF Typed, TypeOK, HandlerOK, At
<1> USE DEF history
<1>1. CASE Enter(r)
  <2>1. LockTypeOK'
    BY <1>1, <1>t, LockTyped DEF Enter, At
  <2>2. HandlerOK(r)' /\ [req[r] EXCEPT !.pc = "read"] \in Request
    BY <1>1, <1>t DEF Enter, Goto, HandlerOK, At, Request, Inside
  <2>3. \A k \in Keys : RetryOK(k)'
    BY <1>1, <1>t DEF Enter, RetryOK
  <2>4. \E q \in Request : req' = [req EXCEPT ![r] = q]
    BY <1>1, <1>t, <2>2 DEF Enter, Goto
  <2> QED BY <1>1, <1>t, <2>1, <2>2, <2>3, <2>4, HandlerTypedIf DEF Enter
<1>2. CASE CannotEnter(r)
  <2>1. HandlerOK(r)' /\ Idle \in Request
    BY <1>2, <1>t DEF CannotEnter, Return, HandlerOK, At, Idle, Request, NoRetry, Retry
  <2>2. LockTypeOK' /\ \A k \in Keys : RetryOK(k)'
    BY <1>2, <1>t DEF CannotEnter, LockTypeOK, lockVars, RetryOK
  <2> QED BY <1>2, <1>t, <2>1, <2>2, HandlerTypedIf DEF CannotEnter, Return
<1>3. CASE Read(r)
  <2> DEFINE k == req[r].key
             q == [req[r] EXCEPT !.pc = IF IsOpen(Stored(k)) THEN "attempt" ELSE "release",
                                 !.data = Stored(k), !.now = now]
  <2>1. k \in Keys /\ Stored(k) \in Retry /\ Stored(k).count < Limit
    BY <1>3, <1>t, StoredTyped DEF Read, At
  <2>2. q \in Request /\ req' = [req EXCEPT ![r] = q]
    <3>1. \A x \in Request, pc \in {"attempt", "release"}, d \in Retry, t \in Nat :
             [x EXCEPT !.pc = pc, !.data = d, !.now = t] \in Request
      BY DEF Request, Inside
    <3>2. q \in Request
      BY <1>t, <2>1, <3>1
    <3> QED BY <1>3, <3>2 DEF Read
  <2>3. HandlerOK(r)'
    BY <1>3, <1>t, <2>1, <2>2 DEF Read, HandlerOK, At, IsOpen, Request
  <2>4. LockTypeOK' /\ \A j \in Keys : RetryOK(j)'
    BY <1>3, <1>t DEF Read, LockTypeOK, lockVars, RetryOK
  <2> QED BY <1>3, <1>t, <2>2, <2>3, <2>4, HandlerTypedIf DEF Read
<1>4. CASE AttemptCounts(r) \/ PasswordRight(r) \/ OpenSession(r)
  <2>1. PICK pc \in {"count", "clear", "release"} : Goto(r, pc)
    BY <1>4 DEF AttemptCounts, PasswordRight, OpenSession
  <2>2. /\ req[r].pc \in {"attempt", "open"}
        /\ pc # "release" => req[r].pc = "attempt"
        /\ UNCHANGED <<lockVars, now, retry, lost>>
        /\ streak' \in [Keys -> Nat]
    BY <1>4, <1>t, <2>1 DEF AttemptCounts, PasswordRight, OpenSession, At, Goto, Request
  <2>3. HandlerOK(r)' /\ [req[r] EXCEPT !.pc = pc] \in Request
    BY <1>t, <2>1, <2>2 DEF Goto, HandlerOK, At, Request, Inside
  <2>4. LockTypeOK' /\ \A k \in Keys : RetryOK(k)'
    BY <1>t, <2>2 DEF LockTypeOK, lockVars, RetryOK
  <2>5. \E q \in Request : req' = [req EXCEPT ![r] = q]
    BY <1>t, <2>1, <2>3 DEF Goto
  <2> QED BY <1>t, <2>2, <2>3, <2>4, <2>5, HandlerTypedIf
<1>5. CASE Count(r)
  <2> DEFINE k == req[r].key
             c == CountedIn(req[r].data, req[r].now)
  <2>1. /\ k \in Keys /\ req[r].data \in Retry /\ req[r].now \in Nat
        /\ req[r].data.count < Limit
        /\ req[r].data.lockedUntil <= req[r].now /\ req[r].now <= now
    BY <1>5, <1>t DEF Count, At, HandlerOK, Request
  <2>2. /\ c \in Retry /\ c.count < Limit /\ c.lockedUntil <= now + Timeout
    <3>1. /\ c \in Retry /\ c.count < Limit
          /\ c.lockedUntil \in {req[r].data.lockedUntil, req[r].now + Timeout}
      BY <2>1, CountedTyped
    <3>2. req[r].data.lockedUntil \in Nat /\ Timeout \in Nat
      BY <2>1 DEF Retry
    <3> QED BY <1>t, <2>1, <3>1, <3>2
  <2>3. /\ retry' \in [Keys -> Retry]
        /\ \A j \in Keys : RetryOK(j)'
    BY <1>5, <1>t, <2>1, <2>2 DEF Count, RetryOK, Retry
  <2>4. HandlerOK(r)' /\ [req[r] EXCEPT !.pc = "release"] \in Request
    BY <1>5, <1>t DEF Count, Goto, HandlerOK, At, Request, Inside
  <2>5. LockTypeOK'
    BY <1>5, <1>t DEF Count, LockTypeOK, lockVars
  <2>6. \E q \in Request : req' = [req EXCEPT ![r] = q]
    BY <1>5, <1>t, <2>4 DEF Count, Goto
  <2> QED BY <1>5, <1>t, <2>3, <2>4, <2>5, <2>6, HandlerTypedIf DEF Count
<1>6. CASE Clear(r)
  <2>1. /\ retry' \in [Keys -> Retry]
        /\ \A j \in Keys : RetryOK(j)'
    <3>1. NoRetry \in Retry /\ NoRetry.count = 0 /\ NoRetry.lockedUntil <= NoRetry.gone
      BY DEF NoRetry, Retry
    <3>2. 0 < Limit OBVIOUS
    <3> QED BY <1>6, <1>t, <3>1, <3>2 DEF Clear, RetryOK
  <2>2. HandlerOK(r)' /\ [req[r] EXCEPT !.pc = "open"] \in Request
    BY <1>6, <1>t DEF Clear, Goto, HandlerOK, At, Request, Inside
  <2>3. LockTypeOK' /\ streak' \in [Keys -> Nat] /\ lost' \in [Keys -> Nat]
    BY <1>6, <1>t DEF Clear, LockTypeOK, lockVars
  <2>4. \E q \in Request : req' = [req EXCEPT ![r] = q]
    BY <1>6, <1>t, <2>2 DEF Clear, Goto
  <2> QED BY <1>6, <1>t, <2>1, <2>2, <2>3, <2>4, HandlerTypedIf DEF Clear
<1>7. CASE Leave(r)
  <2>1. LockTypeOK'
    BY <1>7, <1>t, LockTyped DEF Leave, At
  <2>2. HandlerOK(r)' /\ Idle \in Request
    BY <1>7, <1>t DEF Leave, Return, HandlerOK, At, Idle, Request, NoRetry, Retry
  <2>3. \A k \in Keys : RetryOK(k)'
    BY <1>7, <1>t DEF Leave, RetryOK
  <2> QED BY <1>7, <1>t, <2>1, <2>2, <2>3, HandlerTypedIf DEF Leave, Return
<1>8. CASE Fail(r)
  <2>1. lost' \in [Keys -> Nat]
    BY <1>8, <1>t DEF Fail, Uncounted
  <2>2. HandlerOK(r)' /\ [req[r] EXCEPT !.pc = "release"] \in Request
    BY <1>8, <1>t DEF Fail, Goto, HandlerOK, IsInside, At, Request, Inside
  <2>3. LockTypeOK' /\ \A k \in Keys : RetryOK(k)'
    BY <1>8, <1>t DEF Fail, LockTypeOK, lockVars, RetryOK
  <2>4. \E q \in Request : req' = [req EXCEPT ![r] = q]
    BY <1>8, <1>t, <2>2 DEF Fail, Goto
  <2> QED BY <1>8, <1>t, <2>1, <2>2, <2>3, <2>4, HandlerTypedIf DEF Fail
<1> QED BY <1>1, <1>2, <1>3, <1>4, <1>5, <1>6, <1>7, <1>8 DEF Step

LEMMA NextTyped == Typed /\ [Next]_vars => Typed'
<1> SUFFICES ASSUME Typed, [Next]_vars PROVE Typed' OBVIOUS
<1> USE AttemptsAssumption
<1>t. /\ req \in [Requests -> Request] /\ retry \in [Keys -> Retry]
      /\ now \in Nat /\ streak \in [Keys -> Nat] /\ lost \in [Keys -> Nat]
      /\ LockTypeOK /\ \A r \in Requests : HandlerOK(r)
      /\ \A k \in Keys : RetryOK(k)
  BY DEF Typed, TypeOK
<1> USE DEF history
<1>1. ASSUME NEW r \in Requests, NEW k \in Keys, Begin(r, k) PROVE Typed'
  <2> DEFINE q == [Idle EXCEPT !.pc = "lock", !.key = k, !.began = now]
  <2>1. q \in Request /\ req' = [req EXCEPT ![r] = q]
    BY <1>1, <1>t DEF Begin, Idle, Request, NoRetry, Retry
  <2>2. HandlerOK(r)'
    BY <1>1, <1>t, <2>1 DEF Begin, HandlerOK, At, Idle
  <2>3. LockTypeOK' /\ \A j \in Keys : RetryOK(j)'
    BY <1>1, <1>t DEF Begin, LockTypeOK, lockVars, RetryOK
  <2> QED BY <1>1, <1>t, <2>1, <2>2, <2>3, HandlerTypedIf DEF Begin
<1>2. ASSUME NEW r \in Requests, Step(r) PROVE Typed'
  BY <1>2, StepTyped
<1>3. ASSUME NEW r \in Requests, Crash(r) PROVE Typed'
  <2>1. lost' \in [Keys -> Nat]
    BY <1>3, <1>t DEF Crash, Uncounted
  <2>2. HandlerOK(r)' /\ Idle \in Request
    BY <1>3, <1>t DEF Crash, Return, HandlerOK, At, Idle, Request, NoRetry, Retry
  <2>3. LockTypeOK'
    BY <1>3, <1>t, LockTyped
       DEF Crash, HandlerOK, IsInside, At, Inside, lockVars, LockTypeOK, StopTimer
  <2>4. \A k \in Keys : RetryOK(k)'
    BY <1>3, <1>t DEF Crash, RetryOK
  <2> QED BY <1>3, <1>t, <2>1, <2>2, <2>3, <2>4, HandlerTypedIf DEF Crash, Return
<1>4. ASSUME NEW k \in Keys, LockStep(k) PROVE Typed'
  BY <1>4, <1>t, LockAssumption DEF LockStep, ExtendFails, Lapse, LockTypeOK, Typed, TypeOK,
     HandlerOK, At, RetryOK
<1>5. CASE Tick
  <2>1. TypeOK'
    BY <1>5, <1>t DEF Tick, TypeOK, LockTypeOK, lockVars
  <2>2. ASSUME NEW r \in Requests PROVE HandlerOK(r)'
    BY <1>5, <1>t DEF Tick, HandlerOK, At, Request
  <2> QED BY <1>5, <1>t, <2>1, <2>2 DEF Typed, Tick, RetryOK
<1>6. CASE UNCHANGED vars
  BY <1>6, <1>t DEF vars, lockVars, LockTypeOK, Typed, TypeOK, HandlerOK, At, RetryOK
<1> QED BY <1>1, <1>2, <1>3, <1>4, <1>5, <1>6 DEF Next

\* Every variable keeps its type.
THEOREM AttemptsTypeCorrect == Spec => []TypeOK
<1>1. Spec => []Typed
  BY InitTyped, NextTyped, PTL DEF Spec
<1> QED BY <1>1, PTL DEF Typed

----------------------------------------------------------------------------
(* The lock excludes *)

\* While no extension has failed, the handler in the callback of a key has
\* its lock and its timer.
Held(r) == IsInside(r) => holder[req[r].key] = r /\ req[r].key \in renewed

AllHeld == faults = 0 => \A r \in Requests : Held(r)

LEMMA InitHeld == Init => AllHeld
BY DEF Init, AllHeld, Held, IsInside, Inside, Idle

\* A handler that nothing happens to, in a step that keeps its lock.
LEMMA HeldKept ==
    ASSUME NEW r, Held(r), req'[r] = req[r],
           IsInside(r) => holder'[req[r].key] = holder[req[r].key],
           IsInside(r) /\ req[r].key \in renewed => req[r].key \in renewed'
    PROVE  Held(r)'
BY DEF Held, IsInside

LEMMA NextHeld == Typed /\ AllHeld /\ [Next]_vars => AllHeld'
<1> SUFFICES ASSUME Typed, AllHeld, [Next]_vars, faults' = 0, NEW p \in Requests
             PROVE  Held(p)'
  BY DEF AllHeld
<1>t. /\ req \in [Requests -> Request] /\ holder \in [Keys -> Requests \cup {Null}]
      /\ renewed \subseteq Keys /\ faults \in Nat
      /\ \A r \in Requests : IsInside(r) => req[r].key \in Keys
  BY DEF Typed, TypeOK, LockTypeOK, HandlerOK, At, IsInside, Inside
<1> USE DEF history, lockVars
<1>1. ASSUME UNCHANGED lockVars, Held(p),
             IsInside(p)' => IsInside(p) /\ req'[p].key = req[p].key
      PROVE  Held(p)'
  BY <1>1 DEF Held
<1>2. ASSUME faults = 0 PROVE \A r \in Requests : Held(r)
  BY <1>2 DEF AllHeld
<1>3. ASSUME NEW r \in Requests, NEW k \in Keys, Begin(r, k) PROVE Held(p)'
  <2>1. IsInside(p)' => IsInside(p) /\ req'[p].key = req[p].key
    BY <1>3, <1>t DEF Begin, Idle, IsInside, Inside
  <2> QED BY <1>1, <1>2, <1>3, <2>1 DEF Begin
<1>4. ASSUME NEW r \in Requests, Step(r) PROVE Held(p)'
  <2>1. CASE Enter(r)
    <3>1. faults = 0 /\ \A q \in Requests : Held(q)
      BY <1>2, <2>1 DEF Enter, Acquire
    <3>2. req[r].key \in Keys
      BY <2>1 DEF Enter, Typed, HandlerOK, At
    <3>3. CASE p = r
      BY <2>1, <3>2, <3>3, <1>t DEF Enter, Acquire, Goto, Held, Request
    <3>4. CASE p # r
      <4>1. req'[p] = req[p] /\ Held(p)
        BY <2>1, <3>1, <3>4, <1>t DEF Enter, Goto
      <4>2. IsInside(p) => req[p].key # req[r].key
        BY <4>1, <2>1, LockAssumption DEF Held, Enter, Acquire
      <4> QED BY <2>1, <4>1, <4>2, <3>2, <1>t, HeldKept DEF Enter, Acquire
    <3> QED BY <3>3, <3>4
  <2>2. CASE CannotEnter(r) \/ Read(r) \/ AttemptCounts(r) \/ PasswordRight(r)
               \/ Count(r) \/ Clear(r) \/ OpenSession(r) \/ Fail(r)
    <3>1. UNCHANGED lockVars
      BY <2>2 DEF CannotEnter, Read, AttemptCounts, PasswordRight, Count, Clear,
                  OpenSession, Fail
    <3>2. IsInside(p)' => IsInside(p) /\ req'[p].key = req[p].key
      BY <2>2, <1>t DEF CannotEnter, Read, AttemptCounts, PasswordRight, Count, Clear,
                  OpenSession, Fail, Return, Goto, Idle, IsInside, Inside, At, Request
    <3> QED BY <1>1, <1>2, <3>1, <3>2
  <2>3. CASE Leave(r)
    <3>1. faults = 0 /\ Held(p) /\ Held(r)
      BY <1>2, <2>3 DEF Leave, Release, StopTimer
    <3>2. CASE p = r
      BY <2>3, <3>2, <1>t DEF Leave, Return, Held, IsInside, Inside, Idle
    <3>3. CASE p # r
      <4>1. req'[p] = req[p]
        BY <2>3, <3>3, <1>t DEF Leave, Return
      <4>2. req[r].key \in Keys /\ holder[req[r].key] = r
        BY <2>3, <3>1, <1>t DEF Leave, At, Held, IsInside, Inside
      <4>3. IsInside(p) => req[p].key # req[r].key
        BY <3>1, <3>3, <4>2 DEF Held
      <4> QED BY <2>3, <3>1, <4>1, <4>2, <4>3, <1>t, HeldKept
              DEF Leave, Release, StopTimer
    <3> QED BY <3>2, <3>3
  <2> QED BY <1>4, <2>1, <2>2, <2>3 DEF Step
<1>5. ASSUME NEW r \in Requests, Crash(r) PROVE Held(p)'
  <2>1. faults = 0 /\ Held(p) /\ Held(r)
    BY <1>2, <1>5 DEF Crash, StopTimer
  <2>2. CASE p = r
    BY <1>5, <2>2, <1>t DEF Crash, Return, Held, IsInside, Inside, Idle
  <2>3. CASE p # r
    <3>1. req'[p] = req[p]
      BY <1>5, <2>3, <1>t DEF Crash, Return
    <3>2. IsInside(p) /\ IsInside(r) => req[p].key # req[r].key
      BY <2>1, <2>3 DEF Held
    <3> QED BY <1>5, <2>1, <3>1, <3>2, HeldKept DEF Crash, StopTimer
  <2> QED BY <2>2, <2>3
<1>6. ASSUME NEW k \in Keys, LockStep(k) PROVE Held(p)'
  <2>1. Lapse(k) /\ UNCHANGED req
    BY <1>6, <1>t DEF LockStep, ExtendFails
  <2>2. faults = 0 /\ Held(p)
    BY <1>2, <2>1 DEF Lapse
  <2>3. IsInside(p) => req[p].key # k
    BY <2>1, <2>2 DEF Lapse, Held
  <2> QED BY <2>1, <2>2, <2>3, <1>t, HeldKept DEF Lapse
<1>7. CASE Tick \/ UNCHANGED vars
  BY <1>1, <1>2, <1>7 DEF Tick, vars, IsInside
<1> QED BY <1>3, <1>4, <1>5, <1>6, <1>7 DEF Next

\* The callback of a key is one handler's at a time until an extension of
\* its lock fails, in any number of handlers, keys and crashes.
THEOREM LockExcludes == Spec => []ExclusiveWhileRenewed
<1>1. Spec => [](Typed /\ AllHeld)
  BY InitTyped, NextTyped, InitHeld, NextHeld, PTL DEF Spec
<1>2. AllHeld => ExclusiveWhileRenewed
  BY DEF AllHeld, Held, ExclusiveWhileRenewed, Has
<1> QED BY <1>1, <1>2, PTL

----------------------------------------------------------------------------
(* The counting implements Throttle *)

\* What the handler read is what is stored, or was until its key was gone.
Fresh(r) == req[r].pc \in {"attempt", "count", "clear"} =>
                Stored(req[r].key) \in {req[r].data, NoRetry}

AllFresh == faults = 0 => \A r \in Requests : Fresh(r)

TInv == Typed /\ AllHeld /\ AllFresh

LEMMA StoredTick ==
    ASSUME Typed, Tick, NEW k \in Keys
    PROVE  Stored(k)' \in {Stored(k), NoRetry}
BY DEF Tick, Stored, Live, Typed, TypeOK, Retry

\* Nothing makes good an extension that failed.
LEMMA FaultsStay ==
    ASSUME Typed, [Next]_vars PROVE faults' \in Nat /\ faults' >= faults
<1>t. faults \in Nat
  BY DEF Typed, TypeOK, LockTypeOK
<1> USE DEF lockVars
<1>1. ASSUME NEW r \in Requests, Step(r) PROVE faults' = faults
  BY <1>1 DEF Step, Enter, Acquire, CannotEnter, Read, AttemptCounts, PasswordRight,
     Count, Clear, OpenSession, Leave, Release, StopTimer, Fail
<1>2. ASSUME NEW r \in Requests, Crash(r) PROVE faults' = faults
  BY <1>2 DEF Crash, StopTimer
<1>3. ASSUME NEW r \in Requests, NEW k \in Keys, Begin(r, k) PROVE faults' = faults
  BY <1>3 DEF Begin
<1>4. ASSUME NEW k \in Keys, LockStep(k) PROVE faults' \in {faults, faults + 1}
  BY <1>4 DEF LockStep, ExtendFails, Lapse
<1>5. Tick \/ UNCHANGED vars => faults' = faults
  BY DEF Tick, vars
<1> QED BY <1>t, <1>1, <1>2, <1>3, <1>4, <1>5 DEF Next

LEMMA FreshKept ==
    ASSUME NEW r, Fresh(r), req'[r] = req[r], Stored(req[r].key)' = Stored(req[r].key)
    PROVE  Fresh(r)'
BY DEF Fresh

LEMMA NextFresh == TInv /\ [Next]_vars => AllFresh'
<1> SUFFICES ASSUME TInv, [Next]_vars, faults' = 0, NEW p \in Requests
             PROVE  Fresh(p)'
  BY DEF AllFresh
<1>t. /\ req \in [Requests -> Request] /\ retry \in [Keys -> Retry]
      /\ faults \in Nat
      /\ \A r \in Requests : ~At(r, "idle") => req[r].key \in Keys
  BY DEF TInv, Typed, TypeOK, LockTypeOK, HandlerOK
<1>0. faults = 0
  BY <1>t, FaultsStay DEF TInv
<1>1. Fresh(p) /\ \A r \in Requests : Held(r)
  BY <1>0 DEF TInv, AllFresh, AllHeld
<1> USE DEF history, lockVars
\* A step that leaves the counters alone and takes nobody to an attempt.
<1>2. ASSUME UNCHANGED <<now, retry>>,
             req'[p].pc \in {"attempt", "count", "clear"} =>
                /\ req[p].pc \in {"attempt", "count", "clear"}
                /\ req'[p].key = req[p].key /\ req'[p].data = req[p].data
      PROVE  Fresh(p)'
  BY <1>1, <1>2 DEF Fresh, Stored, Live
<1>3. ASSUME NEW r \in Requests, NEW k \in Keys, Begin(r, k) PROVE Fresh(p)'
  BY <1>2, <1>3, <1>t DEF Begin, Idle
<1>4. ASSUME NEW r \in Requests, Step(r) PROVE Fresh(p)'
  <2>1. CASE Read(r)
    <3>1. CASE p = r
      <4>1. /\ req'[p].data = Stored(req[p].key) /\ req'[p].key = req[p].key
            /\ UNCHANGED <<now, retry>>
        BY <2>1, <3>1, <1>t DEF Read, Request
      <4> QED BY <4>1 DEF Fresh, Stored, Live
    <3>2. CASE p # r
      BY <1>2, <2>1, <3>2, <1>t DEF Read
    <3> QED BY <3>1, <3>2
  <2>2. CASE Enter(r) \/ CannotEnter(r) \/ AttemptCounts(r) \/ PasswordRight(r)
               \/ OpenSession(r) \/ Leave(r) \/ Fail(r)
    <3>1. UNCHANGED <<now, retry>>
      BY <2>2 DEF Enter, CannotEnter, AttemptCounts, PasswordRight, OpenSession, Leave, Fail
    <3>2. req'[p].pc \in {"attempt", "count", "clear"} =>
             /\ req[p].pc \in {"attempt", "count", "clear"}
             /\ req'[p].key = req[p].key /\ req'[p].data = req[p].data
      BY <2>2, <1>t DEF Enter, CannotEnter, AttemptCounts, PasswordRight, OpenSession,
         Leave, Fail, Goto, Return, At, Idle, Request
    <3> QED BY <1>2, <3>1, <3>2
  <2>3. CASE Count(r) \/ Clear(r)
    <3>1. /\ \A q \in Requests \ {r} : req'[q] = req[q]
          /\ req'[r].pc \in {"release", "open"}
          /\ \A k \in Keys \ {req[r].key} : retry'[k] = retry[k]
          /\ now' = now /\ IsInside(r)
      BY <2>3, <1>t DEF Count, Clear, Goto, At, IsInside, Inside, Request
    <3>2. CASE p = r
      BY <3>1, <3>2 DEF Fresh
    <3>3. CASE p # r
      <4>1. IsInside(p) => req[p].key # req[r].key /\ req[p].key \in Keys
        BY <1>1, <1>t, <3>1, <3>3 DEF Held, IsInside, Inside, At
      <4>2. IsInside(p) => Stored(req[p].key)' = Stored(req[p].key)
        <5> SUFFICES ASSUME IsInside(p) PROVE Stored(req[p].key)' = Stored(req[p].key)
          OBVIOUS
        <5>1. req'[p].key = req[p].key /\ retry'[req[p].key] = retry[req[p].key]
          BY <3>1, <3>3, <4>1
        <5> QED BY <3>1, <5>1 DEF Stored, Live
      <4>3. ~IsInside(p) => Fresh(p)'
        BY <3>1, <3>3 DEF Fresh, IsInside, Inside
      <4> QED BY <1>1, <3>1, <3>3, <4>2, <4>3, FreshKept
    <3> QED BY <3>2, <3>3
  <2> QED BY <1>4, <2>1, <2>2, <2>3 DEF Step
<1>5. ASSUME NEW r \in Requests, Crash(r) PROVE Fresh(p)'
  BY <1>2, <1>5, <1>t DEF Crash, Return, Idle
<1>6. ASSUME NEW k \in Keys, LockStep(k) PROVE Fresh(p)'
  BY <1>2, <1>6 DEF LockStep
<1>7. CASE Tick
  <2>1. req' = req
    BY <1>7 DEF Tick
  <2>2. req[p].pc \in {"attempt", "count", "clear"} =>
           Stored(req[p].key)' \in {Stored(req[p].key), NoRetry}
    <3> SUFFICES ASSUME req[p].pc \in {"attempt", "count", "clear"}
                 PROVE  Stored(req[p].key)' \in {Stored(req[p].key), NoRetry}
      OBVIOUS
    <3>1. PICK k \in Keys : k = req[p].key
      BY <1>t DEF At
    <3>2. Stored(k)' \in {Stored(k), NoRetry}
      BY <1>7, StoredTick DEF TInv
    <3> QED BY <2>1, <3>1, <3>2
  <2> QED BY <1>1, <2>1, <2>2 DEF Fresh
<1>8. CASE UNCHANGED vars
  BY <1>2, <1>8 DEF vars
<1> QED BY <1>3, <1>4, <1>5, <1>6, <1>7, <1>8 DEF Next

LEMMA InitTInv == Init => TInv
BY InitTyped, InitHeld DEF TInv, Init, AllFresh, Fresh, Idle

LEMMA NextTInv == TInv /\ [Next]_vars => TInv'
BY NextTyped, NextHeld, NextFresh DEF TInv

\* The mapping: what Throttle sees of a key.
Failures(k) == Stored(k).count
Until(k) == IF Stored(k).lockedUntil > now THEN retry[k].lockedUntil ELSE 0

LEMMA AbstractInit == Init => OneAtATime!Init
BY AttemptsAssumption DEF Init, LockInit, Stored, Live, NoRetry, OneAtATime!Init

\* A step that leaves the counters alone is no step of Throttle, or spoils
\* the lock.
LEMMA AbstractStutter ==
    ASSUME Typed, faults' \in Nat, faults' >= faults, UNCHANGED <<now, retry>>
    PROVE  [OneAtATime!Next]_(OneAtATime!vars)
<1>1. CASE faults' = faults
  BY <1>1 DEF OneAtATime!vars, Stored, Live
<1>2. CASE faults' # faults
  <2>1. faults' > 0
    BY <1>2 DEF Typed, TypeOK, LockTypeOK
  <2> QED BY <2>1 DEF OneAtATime!Next
<1> QED BY <1>1, <1>2

\* A write of one key, seen by Throttle.
LEMMA WriteKey ==
    ASSUME Typed, NEW k \in Keys, NEW c \in Retry, UNCHANGED now,
           retry' = [retry EXCEPT ![k] = c]
    PROVE  /\ \A j \in Keys \ {k} : Failures(j)' = Failures(j) /\ Until(j)' = Until(j)
           /\ now < c.gone => Failures(k)' = c.count
           /\ now < c.gone => Until(k)' = IF c.lockedUntil > now THEN c.lockedUntil ELSE 0
           /\ ~(now < c.gone) => Failures(k)' = 0 /\ Until(k)' = 0
<1>t. retry \in [Keys -> Retry] /\ now \in Nat
  BY DEF Typed, TypeOK
<1>1. \A j \in Keys \ {k} : retry'[j] = retry[j]
  BY <1>t
<1>2. retry'[k] = c
  BY <1>t
<1> QED BY <1>t, <1>1, <1>2 DEF Failures, Until, Stored, Live, NoRetry, Retry

LEMMA AbstractCount ==
    ASSUME TInv, NEW r \in Requests, Count(r)
    PROVE  OneAtATime!Next
<1> USE AttemptsAssumption
<1> DEFINE d == req[r].data
<1>1. PICK k \in Keys : k = req[r].key
  BY DEF TInv, Typed, HandlerOK, Count, At
<1>t. /\ retry \in [Keys -> Retry] /\ now \in Nat /\ faults \in Nat
      /\ d \in Retry /\ req[r].now \in Nat /\ req[r].began \in Nat
      /\ d.count < Limit /\ d.lockedUntil <= req[r].now
      /\ req[r].began <= req[r].now /\ req[r].now <= now
      /\ now <= req[r].began + Latency
      /\ Timeout \in Nat /\ Limit \in Nat /\ Latency \in Nat /\ Latency < Timeout
  BY DEF TInv, Typed, TypeOK, LockTypeOK, HandlerOK, Request, Count, At
<1>2. PICK c : c = [CountedIn(d, req[r].now) EXCEPT !.gone = now + Timeout]
  OBVIOUS
<1>3. /\ c \in Retry /\ c.gone = now + Timeout
      /\ c.count = CountedIn(d, req[r].now).count
      /\ c.lockedUntil = CountedIn(d, req[r].now).lockedUntil
  BY <1>t, <1>2, CountedTyped DEF Retry
<1>4. retry' = [retry EXCEPT ![k] = c] /\ now' = now /\ faults' = faults
  BY <1>1, <1>2 DEF Count, lockVars
<1>5. /\ \A j \in Keys \ {k} : Failures(j)' = Failures(j) /\ Until(j)' = Until(j)
      /\ Failures(k)' = c.count
      /\ Until(k)' = IF c.lockedUntil > now THEN c.lockedUntil ELSE 0
  <2>1. now < c.gone
    BY <1>t, <1>3
  <2>2. Typed
    BY DEF TInv
  <2> QED BY <1>3, <1>4, <2>1, <2>2, WriteKey
<1>6. CASE faults > 0
  BY <1>4, <1>6 DEF OneAtATime!Next
<1>7. CASE faults = 0
  <2>1. Stored(k) \in {d, NoRetry}
    BY <1>1, <1>7 DEF TInv, AllFresh, Fresh, Count, At
  <2>2. Until(k) = 0 /\ Failures(k) \in {d.count, 0}
    BY <1>t, <2>1 DEF Until, Failures, NoRetry, Retry
  <2>3. [j \in Keys |-> retry[j].gone]' =
           [[j \in Keys |-> retry[j].gone] EXCEPT ![k] = now + Timeout]
    <3>1. \A j \in Keys : retry'[j] = IF j = k THEN c ELSE retry[j]
      BY <1>t, <1>4
    <3> QED BY <1>3, <3>1
  <2>4. CASE d.count + 1 >= Limit
    <3>1. c.count = 0 /\ c.lockedUntil = req[r].now + Timeout
      BY <1>t, <1>3, <2>4 DEF CountedIn, Retry
    <3>2. /\ [j \in Keys |-> Failures(j)]' = [[j \in Keys |-> Failures(j)] EXCEPT ![k] = 0]
      BY <1>5, <3>1
    <3>3. c.lockedUntil \in now + Timeout - Latency .. now + Timeout
      BY <1>t, <3>1
    <3>4. Until(k)' = c.lockedUntil
      BY <1>t, <1>5, <3>3
    <3>5. [j \in Keys |-> Until(j)]' = [[j \in Keys |-> Until(j)] EXCEPT ![k] = c.lockedUntil]
      BY <1>5, <3>4
    <3>6. OneAtATime!LockedOut(k)
      BY <1>4, <2>2, <2>3, <3>2, <3>3, <3>5
         DEF OneAtATime!LockedOut, OneAtATime!Open, Failures, Until
    <3> QED BY <3>6 DEF OneAtATime!Next
  <2>5. CASE ~(d.count + 1 >= Limit)
    <3>1. c.count = d.count + 1 /\ c.lockedUntil = d.lockedUntil
      BY <1>t, <1>3, <2>5 DEF CountedIn, Retry
    <3>2. c.count \in Failures(k) + 1 .. Limit - 1
      BY <1>t, <2>2, <2>5, <3>1 DEF Retry
    <3>3. [j \in Keys |-> Failures(j)]' = [[j \in Keys |-> Failures(j)] EXCEPT ![k] = c.count]
      BY <1>5
    <3>4. Until(k)' = 0
      BY <1>t, <1>5, <3>1 DEF Retry
    <3>5. [j \in Keys |-> Until(j)]' = [j \in Keys |-> Until(j)]
      BY <1>5, <2>2, <3>4
    <3>6. OneAtATime!Counted(k)
      BY <1>4, <2>2, <2>3, <3>2, <3>3, <3>5
         DEF OneAtATime!Counted, OneAtATime!Open, Failures, Until
    <3> QED BY <3>6 DEF OneAtATime!Next
  <2> QED BY <2>4, <2>5
<1> QED BY <1>t, <1>6, <1>7

LEMMA AbstractClear ==
    ASSUME TInv, NEW r \in Requests, Clear(r)
    PROVE  OneAtATime!Next
<1>1. PICK k \in Keys : k = req[r].key
  BY DEF TInv, Typed, HandlerOK, Clear, At
<1>t. /\ retry \in [Keys -> Retry] /\ now \in Nat /\ faults \in Nat
      /\ req[r].data \in Retry /\ req[r].now \in Nat
      /\ req[r].data.lockedUntil <= req[r].now /\ req[r].now <= now
  BY DEF TInv, Typed, TypeOK, LockTypeOK, HandlerOK, Request, Clear, At
<1>2. retry' = [retry EXCEPT ![k] = NoRetry] /\ now' = now /\ faults' = faults
  BY <1>1 DEF Clear, lockVars
<1>3. NoRetry \in Retry /\ ~(now < NoRetry.gone)
  BY <1>t DEF NoRetry, Retry
<1>4. /\ \A j \in Keys \ {k} : Failures(j)' = Failures(j) /\ Until(j)' = Until(j)
      /\ Failures(k)' = 0 /\ Until(k)' = 0
  BY <1>2, <1>3, WriteKey DEF TInv
<1>5. CASE faults > 0
  BY <1>2, <1>5 DEF OneAtATime!Next
<1>6. CASE faults = 0
  <2>1. Stored(k) \in {req[r].data, NoRetry}
    BY <1>1, <1>6 DEF TInv, AllFresh, Fresh, Clear, At
  <2>2. Until(k) = 0
    BY <1>t, <2>1 DEF Until, NoRetry, Retry
  <2>3. /\ [j \in Keys |-> Failures(j)]' = [[j \in Keys |-> Failures(j)] EXCEPT ![k] = 0]
        /\ [j \in Keys |-> Until(j)]' = [j \in Keys |-> Until(j)]
        /\ [j \in Keys |-> retry[j].gone]' = [[j \in Keys |-> retry[j].gone] EXCEPT ![k] = 0]
    BY <1>t, <1>2, <1>4, <2>2 DEF NoRetry
  <2>4. OneAtATime!Cleared(k)
    BY <1>2, <2>2, <2>3 DEF OneAtATime!Cleared, OneAtATime!Open, Failures, Until
  <2> QED BY <2>4 DEF OneAtATime!Next
<1> QED BY <1>t, <1>5, <1>6

LEMMA AbstractTick ==
    ASSUME TInv, Tick
    PROVE  OneAtATime!Next
<1>t. /\ retry \in [Keys -> Retry] /\ now \in Nat
      /\ \A k \in Keys : retry[k].lockedUntil <= retry[k].gone
  BY DEF TInv, Typed, TypeOK, RetryOK
<1>1. now' = now + 1 /\ retry' = retry /\ faults' = faults
  BY DEF Tick, lockVars
<1>2. ASSUME NEW k \in Keys
      PROVE  /\ Until(k)' = IF Until(k) > now + 1 THEN Until(k) ELSE 0
             /\ Failures(k)' = IF retry[k].gone > now + 1 THEN Failures(k) ELSE 0
  <2>1. retry[k].lockedUntil \in Nat /\ retry[k].gone \in Nat
    BY <1>t DEF Retry
  <2>2. Stored(k) = IF now < retry[k].gone THEN retry[k] ELSE NoRetry
    BY DEF Stored, Live
  <2>3. Stored(k)' = IF now + 1 < retry[k].gone THEN retry[k] ELSE NoRetry
    BY <1>1 DEF Stored, Live
  <2> QED BY <1>t, <1>1, <2>1, <2>2, <2>3 DEF Until, Failures, NoRetry
<1>3. [k \in Keys |-> Until(k)]' =
         [k \in Keys |-> IF [j \in Keys |-> Until(j)][k] > now + 1
                          THEN [j \in Keys |-> Until(j)][k] ELSE 0]
  BY <1>2
<1>4. [k \in Keys |-> Failures(k)]' =
         [k \in Keys |-> IF [j \in Keys |-> retry[j].gone][k] > now + 1
                          THEN [j \in Keys |-> Failures(j)][k] ELSE 0]
  BY <1>2
<1>5. OneAtATime!Tick
  BY <1>1, <1>3, <1>4 DEF OneAtATime!Tick, Failures, Until
<1> QED BY <1>5 DEF OneAtATime!Next

LEMMA StepImplements ==
    ASSUME TInv, [Next]_vars PROVE [OneAtATime!Next]_(OneAtATime!vars)
<1>t. Typed /\ faults' \in Nat /\ faults' >= faults
  BY FaultsStay DEF TInv
<1> USE DEF history
<1>1. ASSUME NEW r \in Requests, NEW k \in Keys, Begin(r, k)
      PROVE  UNCHANGED <<now, retry>>
  BY <1>1 DEF Begin
<1>2. ASSUME NEW r \in Requests, Step(r)
      PROVE  Count(r) \/ Clear(r) \/ UNCHANGED <<now, retry>>
  BY <1>2 DEF Step, Enter, CannotEnter, Read, AttemptCounts, PasswordRight,
     OpenSession, Leave, Fail
<1>3. ASSUME NEW r \in Requests, Crash(r) PROVE UNCHANGED <<now, retry>>
  BY <1>3 DEF Crash
<1>4. ASSUME NEW k \in Keys, LockStep(k) PROVE UNCHANGED <<now, retry>>
  BY <1>4 DEF LockStep
<1>5. UNCHANGED vars => UNCHANGED <<now, retry>>
  BY DEF vars
<1> QED BY <1>t, <1>1, <1>2, <1>3, <1>4, <1>5, AbstractStutter, AbstractCount,
           AbstractClear, AbstractTick DEF Next

\* While every extension of the locks succeeds, login and resendVerifyEmail
\* count one attempt at a time and keep to the limit and the time-out;
\* whatever fails or crashes otherwise, a handler's counter is never
\* overwritten by another's.
THEOREM AttemptsImplementThrottle == Spec => ThrottleSpec
<1>1. Spec => []TInv
  BY InitTInv, NextTInv, PTL DEF Spec
<1>2. TInv /\ [Next]_vars => [OneAtATime!Next]_(OneAtATime!vars)
  BY StepImplements
<1> QED BY <1>1, <1>2, AbstractInit, PTL DEF Spec, ThrottleSpec, OneAtATime!Spec

----------------------------------------------------------------------------
(* How far a streak may go *)

\* The handlers that may still write a counter without having its lock: an
\* extension failed for each.  When one of them has written, or given up,
\* the failure is spent: what it may have undone is a round at most.
Holds(r) == holder[req[r].key] = r /\ req[r].key \in renewed
Astray == {r \in Requests :
             req[r].pc \in {"read", "attempt", "count", "clear"} /\ ~Holds(r)}
Spent == faults - Cardinality(Astray)
Rounds == Limit * Spent

\* The attempts on k that are still to be counted, and all that the counter
\* of k need not show.
Pending(k) == {r \in Requests : At(r, "count") /\ req[r].key = k}
Owed(k) == Cardinality(Pending(k)) + lost[k] + Rounds

\* What the counter of k says of the streak; a locked one says Limit.
Shown(k) == IF Stored(k).lockedUntil > now THEN Limit ELSE Stored(k).count

\* The counter accounts for the streak, and so does the one that the holder
\* of the lock is about to write.
Accounted(k) == streak[k] <= Shown(k) + Owed(k)

Foreseen(r) == \A k \in Keys :
    req[r].pc \in {"attempt", "count"} /\ req[r].key = k /\ Holds(r) =>
       streak[k] <= req[r].data.count + Owed(k)

AstrayOK == IsFiniteSet(Astray) /\ Cardinality(Astray) <= faults

SInv ==
    /\ AstrayOK
    /\ \A k \in Keys : Accounted(k)
    /\ \A r \in Requests : Foreseen(r)

LEMMA CardinalityLess ==
    ASSUME NEW S, IsFiniteSet(S), NEW T, T \subseteq S
    PROVE  /\ IsFiniteSet(T) /\ Cardinality(T) \in Nat /\ Cardinality(S) \in Nat
           /\ Cardinality(T) <= Cardinality(S)
           /\ \A x \in S \ T : Cardinality(T) + 1 <= Cardinality(S)
<1>1. /\ IsFiniteSet(T) /\ Cardinality(T) \in Nat /\ Cardinality(S) \in Nat
      /\ Cardinality(T) <= Cardinality(S)
  BY FS_Subset, FS_CardinalityType
<1>2. ASSUME NEW x \in S \ T PROVE Cardinality(T) + 1 <= Cardinality(S)
  <2>1. IsFiniteSet(S \ {x}) /\ Cardinality(S \ {x}) = Cardinality(S) - 1
    BY <1>2, FS_RemoveElement
  <2>2. T \subseteq S \ {x}
    BY <1>2
  <2>3. Cardinality(T) <= Cardinality(S \ {x})
    BY <2>1, <2>2, FS_Subset
  <2> QED BY <1>1, <2>1, <2>3
<1> QED BY <1>1, <1>2

LEMMA CardinalityMore ==
    ASSUME NEW S, IsFiniteSet(S), NEW x, NEW T, T \subseteq S \cup {x}
    PROVE  /\ IsFiniteSet(T) /\ Cardinality(T) \in Nat
           /\ Cardinality(T) <= Cardinality(S) + 1
<1>1. /\ IsFiniteSet(S \cup {x}) /\ Cardinality(S) \in Nat
      /\ Cardinality(S \cup {x}) \in {Cardinality(S), Cardinality(S) + 1}
  BY FS_AddElement, FS_CardinalityType
<1>2. IsFiniteSet(T) /\ Cardinality(T) \in Nat /\ Cardinality(T) <= Cardinality(S \cup {x})
  BY <1>1, FS_Subset, FS_CardinalityType
<1> QED BY <1>1, <1>2

LEMMA TimesLimit ==
    ASSUME NEW s \in Nat, NEW t \in Nat
    PROVE  /\ Limit * s \in Nat
           /\ s <= Limit * s
           /\ s <= t => Limit * s <= Limit * t
           /\ s + 1 <= t => Limit * s + Limit <= Limit * t
           /\ Limit * (1 + s) = Limit + Limit * s
<1>1. Limit \in Nat /\ 1 <= Limit
  BY AttemptsAssumption
<1>2. Limit * s \in Nat /\ Limit * t \in Nat /\ Limit * (1 + s) = Limit + Limit * s
  BY <1>1
<1>3. s <= Limit * s
  BY <1>1
<1>4. s <= t => Limit * s <= Limit * t
  BY <1>1
<1>5. s + 1 <= t => Limit * s + Limit <= Limit * t
  <2>1. Limit * (s + 1) = Limit * s + Limit
    BY <1>1
  <2>2. s + 1 <= t => Limit * (s + 1) <= Limit * t
    BY <1>1
  <2> QED BY <2>1, <2>2
<1> QED BY <1>2, <1>3, <1>4, <1>5

\* A step of another handler, and a lapse, take a lock from nobody who has it.
LEMMA HoldsKept ==
    ASSUME LockTypeOK, NEW r \in Requests, NEW k \in Keys, NEW p \in Requests,
           req'[p] = req[p], Holds(p),
           \/ p # r /\ Acquire(r, k)
           \/ p # r /\ Release(r, k)
           \/ p # r /\ StopTimer(r, k) /\ UNCHANGED holder
           \/ Lapse(k)
           \/ UNCHANGED <<holder, renewed>>
    PROVE  Holds(p)'
BY LockAssumption DEF Holds, LockTypeOK, Acquire, Release, StopTimer, Lapse

\* What a step may do to the stray handlers.
LEMMA AstrayNext ==
    ASSUME Typed, AstrayOK, [Next]_vars
    PROVE  AstrayOK' /\ Spent \in Nat /\ Spent' \in Nat /\ Spent <= Spent'
<1>t. /\ req \in [Requests -> Request] /\ LockTypeOK /\ faults \in Nat
      /\ \A r \in Requests : ~At(r, "idle") => req[r].key \in Keys
      /\ IsFiniteSet(Astray) /\ Cardinality(Astray) \in Nat
  BY FS_CardinalityType DEF Typed, TypeOK, LockTypeOK, HandlerOK, AstrayOK
<1>0. ASSUME Astray' \subseteq Astray, faults' = faults
      PROVE  AstrayOK' /\ Spent \in Nat /\ Spent' \in Nat /\ Spent <= Spent'
  <2>1. /\ IsFiniteSet(Astray') /\ Cardinality(Astray') \in Nat
        /\ Cardinality(Astray') <= Cardinality(Astray)
    BY <1>0, <1>t, CardinalityLess
  <2> QED BY <1>0, <1>t, <2>1 DEF AstrayOK, Spent
<1> USE DEF history
<1>1. ASSUME NEW r \in Requests, NEW k \in Keys, Begin(r, k)
      PROVE  Astray' \subseteq Astray /\ faults' = faults
  BY <1>1, <1>t DEF Begin, Astray, Holds, Idle, lockVars
<1>2. ASSUME NEW r \in Requests, Step(r)
      PROVE  Astray' \subseteq Astray /\ faults' = faults
  <2>1. CASE Enter(r)
    <3>1. /\ req[r].key \in Keys /\ Acquire(r, req[r].key)
          /\ \A p \in Requests \ {r} : req'[p] = req[p]
          /\ req'[r].key = req[r].key
      BY <2>1, <1>t DEF Enter, Goto, At, Request
    <3>2. Holds(r)'
      BY <3>1, <1>t DEF Acquire, Holds, LockTypeOK
    <3>3. ASSUME NEW p \in Requests \ {r}, Holds(p) PROVE Holds(p)'
      <4>1. req'[p] = req[p] /\ p # r
        BY <3>1
      <4>2. LockTypeOK /\ req[r].key \in Keys /\ Acquire(r, req[r].key)
        BY <3>1, <1>t
      <4> QED BY <3>3, <4>1, <4>2, HoldsKept
    <3> QED BY <3>1, <3>2, <3>3 DEF Astray, Acquire
  <2>2. CASE Leave(r)
    <3>1. /\ req[r].key \in Keys /\ Release(r, req[r].key)
          /\ \A p \in Requests \ {r} : req'[p] = req[p]
          /\ req'[r].pc = "idle"
      BY <2>2, <1>t DEF Leave, Return, Idle, At
    <3>2. ASSUME NEW p \in Requests \ {r}, Holds(p) PROVE Holds(p)'
      <4>1. req'[p] = req[p] /\ p # r
        BY <3>1
      <4>2. LockTypeOK /\ req[r].key \in Keys /\ Release(r, req[r].key)
        BY <3>1, <1>t
      <4> QED BY <3>2, <4>1, <4>2, HoldsKept
    <3> QED BY <3>1, <3>2 DEF Astray, Release, StopTimer
  <2>3. CASE CannotEnter(r) \/ Read(r) \/ AttemptCounts(r) \/ PasswordRight(r)
               \/ Count(r) \/ Clear(r) \/ OpenSession(r) \/ Fail(r)
    <3>1. UNCHANGED lockVars
      BY <2>3 DEF CannotEnter, Read, AttemptCounts, PasswordRight, Count, Clear,
                  OpenSession, Fail
    <3>2. /\ \A p \in Requests \ {r} : req'[p] = req[p]
          /\ req'[r].pc \in {"read", "attempt", "count", "clear"} =>
                /\ req[r].pc \in {"read", "attempt", "count", "clear"}
                /\ req'[r].key = req[r].key
      BY <2>3, <1>t DEF CannotEnter, Read, AttemptCounts, PasswordRight, Count, Clear,
                  OpenSession, Fail, Return, Goto, Idle, At, Request
    <3> QED BY <3>1, <3>2 DEF Astray, Holds, lockVars
  <2> QED BY <1>2, <2>1, <2>2, <2>3 DEF Step
<1>3. ASSUME NEW r \in Requests, Crash(r)
      PROVE  Astray' \subseteq Astray /\ faults' = faults
  <2>1. /\ \A p \in Requests \ {r} : req'[p] = req[p]
        /\ req'[r].pc = "idle" /\ req[r].key \in Keys
        /\ \/ StopTimer(r, req[r].key) /\ UNCHANGED holder
           \/ UNCHANGED <<holder, renewed>>
        /\ faults' = faults
    BY <1>3, <1>t DEF Crash, Return, Idle, StopTimer
  <2>2. \A p \in Requests \ {r} : Holds(p) => Holds(p)'
    BY <2>1, <1>t, HoldsKept
  <2> QED BY <2>1, <2>2 DEF Astray
<1>4. ASSUME NEW k \in Keys, LockStep(k)
      PROVE  AstrayOK' /\ Spent \in Nat /\ Spent' \in Nat /\ Spent <= Spent'
  <2>1. req' = req
    BY <1>4 DEF LockStep
  <2>2. CASE Lapse(k)
    <3>1. \A p \in Requests : Holds(p) => Holds(p)'
      BY <2>1, <2>2, <1>t, HoldsKept
    <3> QED BY <1>0, <2>1, <2>2, <3>1 DEF Astray, Lapse
  <2>3. CASE ExtendFails(k)
    <3>1. \A p \in Requests : Holds(p) => Holds(p)' \/ p = holder[k]
      BY <2>1, <2>3, <1>t DEF ExtendFails, Holds
    <3>2. Astray' \subseteq Astray \cup {holder[k]} /\ faults' = faults + 1
      BY <2>1, <2>3, <3>1 DEF Astray, ExtendFails
    <3>3. /\ IsFiniteSet(Astray') /\ Cardinality(Astray') \in Nat
          /\ Cardinality(Astray') <= Cardinality(Astray) + 1
      BY <1>t, <3>2, CardinalityMore
    <3> QED BY <1>t, <3>2, <3>3 DEF AstrayOK, Spent
  <2> QED BY <1>4, <2>2, <2>3 DEF LockStep
<1>5. Tick \/ UNCHANGED vars => Astray' \subseteq Astray /\ faults' = faults
  BY DEF Tick, vars, lockVars, Astray, Holds
<1> QED BY <1>0, <1>1, <1>2, <1>3, <1>4, <1>5 DEF Next

\* The attempts to be counted are those of the stray handlers and of the
\* holder of the lock.
LEMMA PendingBounded ==
    ASSUME Typed, AstrayOK, NEW k \in Keys
    PROVE  /\ IsFiniteSet(Pending(k)) /\ Cardinality(Pending(k)) \in Nat
           /\ Cardinality(Astray) \in Nat
           /\ Cardinality(Pending(k)) <= Cardinality(Astray) + 1
           /\ \/ Cardinality(Pending(k)) <= Cardinality(Astray)
              \/ \E r \in Pending(k) : Holds(r)
<1>1. IsFiniteSet(Astray) /\ Cardinality(Astray) \in Nat
  BY FS_CardinalityType DEF AstrayOK
<1>2. \A r \in Pending(k) : r \in Astray \/ (r = holder[k] /\ Holds(r))
  BY DEF Pending, Astray, Holds, At
<1>3. Pending(k) \subseteq Astray \cup {holder[k]}
  BY <1>2
<1>4. CASE Pending(k) \subseteq Astray
  BY <1>1, <1>3, <1>4, CardinalityLess, CardinalityMore
<1>5. CASE ~(Pending(k) \subseteq Astray)
  BY <1>1, <1>2, <1>3, <1>5, CardinalityMore
<1> QED BY <1>4, <1>5

LEMMA ShownTyped ==
    ASSUME Typed, NEW k \in Keys
    PROVE  Shown(k) \in 0 .. Limit
BY StoredTyped, AttemptsAssumption DEF Shown, Retry

\* The bound, from the accounts.
LEMMA StreakBoundedIf == Typed /\ SInv => StreakBounded
<1> SUFFICES ASSUME Typed, SInv, NEW k \in Keys
             PROVE  streak[k] <= Limit * (1 + faults) + lost[k]
  BY DEF StreakBounded
<1> DEFINE a == Cardinality(Astray)
           p == Cardinality(Pending(k))
<1>t. /\ streak[k] \in Nat /\ lost[k] \in Nat /\ faults \in Nat
      /\ a \in Nat /\ p \in Nat /\ a <= faults /\ p <= a + 1
      /\ Limit \in Nat /\ 1 <= Limit
  BY PendingBounded, AttemptsAssumption DEF Typed, TypeOK, LockTypeOK, SInv, AstrayOK
<1>1. /\ Spent \in Nat /\ Spent + a = faults
  BY <1>t DEF Spent
<1>2. /\ Limit * (1 + faults) = Limit + Limit * faults
      /\ Limit * faults = Rounds + Limit * a
      /\ Rounds \in Nat /\ Limit * a \in Nat /\ a <= Limit * a
  <2>1. Limit * (Spent + a) = Limit * Spent + Limit * a
    BY <1>t, <1>1
  <2> QED BY <1>t, <1>1, <2>1, TimesLimit DEF Rounds
<1>3. streak[k] <= Limit + a + lost[k] + Rounds
  <2>1. CASE p <= a
    BY <1>t, <1>2, <2>1, ShownTyped DEF SInv, Accounted, Owed
  <2>2. CASE \E r \in Pending(k) : Holds(r)
    <3>1. PICK r \in Pending(k) : Holds(r)
      BY <2>2
    <3>2. /\ r \in Requests /\ req[r].pc = "count" /\ req[r].key = k
          /\ req[r].data.count \in Nat /\ req[r].data.count < Limit
      BY <3>1 DEF Pending, At, Typed, TypeOK, HandlerOK, Request, Retry
    <3>3. streak[k] <= req[r].data.count + (p + lost[k] + Rounds)
      BY <3>1, <3>2 DEF SInv, Foreseen, Owed
    <3> QED BY <1>t, <1>2, <3>2, <3>3
  <2> QED BY <2>1, <2>2, PendingBounded DEF SInv
<1> HIDE DEF a, p
<1> QED BY <1>t, <1>2, <1>3

\* What a handler at its attempt holds it held before; what it knows it has
\* known or reads just now.
LEMMA HoldsEarlier ==
    ASSUME Typed, [Next]_vars, NEW p \in Requests,
           req'[p].pc \in {"attempt", "count"}, Holds(p)'
    PROVE  /\ Holds(p) /\ req'[p].key = req[p].key /\ req[p].key \in Keys
           /\ \/ Read(p)
              \/ req[p].pc \in {"attempt", "count"} /\ req'[p].data = req[p].data
<1>t. /\ req \in [Requests -> Request] /\ LockTypeOK
      /\ \A r \in Requests : ~At(r, "idle") => req[r].key \in Keys
  BY DEF Typed, TypeOK, HandlerOK
<1> DEFINE Earlier == /\ Holds(p) /\ req'[p].key = req[p].key /\ req[p].key \in Keys
                      /\ \/ Read(p)
                         \/ /\ req[p].pc \in {"attempt", "count"}
                            /\ req'[p].data = req[p].data
<1> USE DEF history
<1>0. ASSUME holder' = holder, renewed' \subseteq renewed, req'[p] = req[p] PROVE Earlier
  BY <1>0, <1>t DEF Holds, At
<1>1. ASSUME NEW r \in Requests, NEW k \in Keys, Begin(r, k) PROVE Earlier
  <2>1. p # r /\ req'[p] = req[p]
    BY <1>1, <1>t DEF Begin, Idle
  <2> QED BY <1>0, <1>1, <2>1 DEF Begin, lockVars
<1>2. ASSUME NEW r \in Requests, Step(r) PROVE Earlier
  <2>1. CASE Enter(r)
    <3>1. req'[p] = req[p] /\ p # r
      BY <2>1, <1>t DEF Enter, Goto
    <3>2. Holds(p)
      BY <2>1, <3>1, <1>t DEF Enter, Acquire, Holds, LockTypeOK, At
    <3> QED BY <3>1, <3>2, <1>t DEF At
  <2>2. CASE Leave(r)
    <3>1. req'[p] = req[p] /\ p # r
      BY <2>2, <1>t DEF Leave, Return, Idle
    <3>2. Holds(p)
      BY <2>2, <3>1, <1>t, LockAssumption DEF Leave, Release, StopTimer, Holds, LockTypeOK, At
    <3> QED BY <3>1, <3>2, <1>t DEF At
  <2>3. CASE CannotEnter(r) \/ Read(r) \/ AttemptCounts(r) \/ PasswordRight(r)
               \/ Count(r) \/ Clear(r) \/ OpenSession(r) \/ Fail(r)
    <3>1. UNCHANGED lockVars
      BY <2>3 DEF CannotEnter, Read, AttemptCounts, PasswordRight, Count, Clear,
                  OpenSession, Fail
    <3>2. CASE p # r
      <4>1. req'[p] = req[p]
        BY <2>3, <3>2, <1>t DEF CannotEnter, Read, AttemptCounts, PasswordRight, Count, Clear,
                  OpenSession, Fail, Return, Goto
      <4> QED BY <1>0, <3>1, <4>1 DEF lockVars
    <3>3. CASE p = r
      <4>1. CASE Read(r)
        BY <3>1, <3>3, <4>1, <1>t DEF Read, At, Holds, lockVars, Request
      <4>2. CASE ~Read(r)
        <5>1. AttemptCounts(r)
          BY <2>3, <3>3, <4>2, <1>t DEF CannotEnter, AttemptCounts, PasswordRight, Count,
             Clear, OpenSession, Fail, Return, Goto, Idle, Request
        <5> QED BY <3>1, <3>3, <5>1, <1>t DEF AttemptCounts, Goto, At, Holds, lockVars, Request
      <4> QED BY <4>1, <4>2
    <3> QED BY <3>2, <3>3
  <2> QED BY <1>2, <2>1, <2>2, <2>3 DEF Step
<1>3. ASSUME NEW r \in Requests, Crash(r) PROVE Earlier
  <2>1. req'[p] = req[p] /\ holder' = holder /\ renewed' \subseteq renewed
    BY <1>3, <1>t DEF Crash, Return, Idle, StopTimer
  <2> QED BY <1>0, <2>1
<1>4. ASSUME NEW k \in Keys, LockStep(k) PROVE Earlier
  <2>1. req' = req
    BY <1>4 DEF LockStep
  <2>2. Holds(p)
    BY <1>4, <2>1, <1>t, LockAssumption DEF LockStep, Lapse, ExtendFails, Holds, LockTypeOK
  <2> QED BY <2>1, <2>2, <1>t DEF At
<1>5. CASE Tick \/ UNCHANGED vars
  <2>1. req' = req /\ holder' = holder /\ renewed' = renewed
    BY <1>5 DEF Tick, vars, lockVars
  <2> QED BY <1>0, <2>1
<1> QED BY <1>1, <1>2, <1>3, <1>4, <1>5 DEF Next

\* How the attempts that no counter shows move.
LEMMA OwedMove ==
    ASSUME Typed, Typed', AstrayOK, [Next]_vars, NEW k \in Keys
    PROVE  /\ Owed(k) \in Nat /\ Owed(k)' \in Nat
           /\ lost'[k] = lost[k] /\ Pending(k) \subseteq Pending(k)'
                 => Owed(k) <= Owed(k)'
           /\ lost'[k] = lost[k] /\ Pending(k) \subseteq Pending(k)'
                 /\ (\E x : x \in Pending(k)' \ Pending(k))
                 => Owed(k) + 1 <= Owed(k)'
           /\ lost'[k] = lost[k] + 1 /\ (\E x : Pending(k) \subseteq Pending(k)' \cup {x})
                 => Owed(k) <= Owed(k)'
           /\ lost'[k] = lost[k] /\ (\E x : Pending(k) \subseteq Pending(k)' \cup {x})
                 => /\ Owed(k) <= Owed(k)' + 1
                    /\ Spent + 1 <= Spent' => Owed(k) + Limit <= Owed(k)' + 1
<1> DEFINE p == Cardinality(Pending(k))
           q == Cardinality(Pending(k)')
<1>1. AstrayOK' /\ Spent \in Nat /\ Spent' \in Nat /\ Spent <= Spent'
  BY AstrayNext
<1>2. IsFiniteSet(Pending(k)) /\ IsFiniteSet(Pending(k)') /\ p \in Nat /\ q \in Nat
  <2>1. IsFiniteSet(Pending(k)) /\ p \in Nat
    BY PendingBounded
  <2>2. IsFiniteSet(Pending(k)')
    <3>1. \A r \in Pending(k)' : r \in Astray' \/ r = holder'[k]
      BY DEF Pending, Astray, Holds, At
    <3>2. Pending(k)' \subseteq Astray' \cup {holder'[k]}
      BY <3>1
    <3>3. IsFiniteSet(Astray')
      BY <1>1 DEF AstrayOK
    <3> QED BY <3>2, <3>3, CardinalityMore
  <2> QED BY <2>1, <2>2, FS_CardinalityType
<1>3. /\ Rounds \in Nat /\ Rounds' \in Nat /\ Rounds <= Rounds'
      /\ Spent + 1 <= Spent' => Rounds + Limit <= Rounds'
  BY <1>1, TimesLimit DEF Rounds
<1>4. lost[k] \in Nat /\ lost'[k] \in Nat /\ Limit \in Nat
  BY AttemptsAssumption DEF Typed, TypeOK
<1>5. /\ Pending(k) \subseteq Pending(k)' => p <= q
      /\ Pending(k) \subseteq Pending(k)' /\ (\E x : x \in Pending(k)' \ Pending(k))
            => p + 1 <= q
  BY <1>2, CardinalityLess
<1>6. (\E x : Pending(k) \subseteq Pending(k)' \cup {x}) => p <= q + 1
  BY <1>2, CardinalityMore
<1>7. Owed(k) = p + lost[k] + Rounds /\ Owed(k)' = q + lost'[k] + Rounds'
  BY DEF Owed
<1> HIDE DEF p, q
<1> QED BY <1>2, <1>3, <1>4, <1>5, <1>6, <1>7

LEMMA InitSInv == Init => SInv
<1> SUFFICES ASSUME Init PROVE SInv OBVIOUS
<1>1. Typed
  BY InitTyped
<1>2. Astray = {}
  BY DEF Init, Astray, Idle
<1>3. AstrayOK
  BY <1>1, <1>2, FS_EmptySet DEF AstrayOK, Typed, TypeOK, LockTypeOK
<1>4. ASSUME NEW k \in Keys PROVE Accounted(k)
  <2>1. Spent \in Nat /\ Rounds \in Nat
    BY <1>1, <1>2, FS_EmptySet, TimesLimit DEF Spent, Rounds, Typed, TypeOK, LockTypeOK
  <2>2. /\ streak[k] = 0 /\ lost[k] = 0 /\ Shown(k) \in Nat
        /\ Cardinality(Pending(k)) \in Nat
    BY <1>1, <1>3, ShownTyped, PendingBounded DEF Init
  <2> QED BY <2>1, <2>2 DEF Accounted, Owed
<1>5. \A r \in Requests : Foreseen(r)
  BY DEF Init, Idle, Foreseen
<1> QED BY <1>3, <1>4, <1>5 DEF SInv

\* A step that makes no attempt and writes no counter.
LEMMA AccountsKept ==
    ASSUME Typed, Typed', SInv, [Next]_vars, UNCHANGED <<now, retry, streak>>,
           \A k \in Keys : Owed(k) <= Owed(k)'
    PROVE  SInv'
<1>1. AstrayOK'
  BY AstrayNext DEF SInv
<1>2. ASSUME NEW k \in Keys PROVE Accounted(k)'
  <2>1. Shown(k)' = Shown(k)
    BY DEF Shown, Stored, Live
  <2>2. /\ streak[k] \in Nat /\ Shown(k) \in Nat
        /\ Owed(k) \in Nat /\ Owed(k)' \in Nat
    BY OwedMove, ShownTyped DEF SInv, Typed, TypeOK
  <2> QED BY <2>1, <2>2 DEF SInv, Accounted
<1>3. ASSUME NEW p \in Requests, NEW k \in Keys, req'[p].key = k,
             req'[p].pc \in {"attempt", "count"}, Holds(p)'
      PROVE  streak'[k] <= req'[p].data.count + Owed(k)'
  <2>1. /\ Holds(p) /\ req'[p].key = req[p].key /\ req[p].key \in Keys
        /\ \/ Read(p)
           \/ req[p].pc \in {"attempt", "count"} /\ req'[p].data = req[p].data
    BY <1>3, HoldsEarlier
  <2>2. k = req[p].key
    BY <1>3, <2>1
  <2>3. /\ streak[k] \in Nat /\ Shown(k) \in Nat
        /\ Owed(k) \in Nat /\ Owed(k)' \in Nat
        /\ req[p] \in Request
    BY OwedMove, ShownTyped DEF SInv, Typed, TypeOK
  <2>4. CASE Read(p)
    <3>1. /\ req'[p].data = Stored(k)
          /\ req'[p].pc = IF IsOpen(Stored(k)) THEN "attempt" ELSE "release"
      BY <2>2, <2>3, <2>4 DEF Read, Request, Typed, TypeOK
    <3>2. Shown(k) = Stored(k).count
      <4>1. Stored(k).lockedUntil <= now
        BY <1>3, <3>1 DEF IsOpen
      <4>2. Stored(k).lockedUntil \in Nat /\ now \in Nat
        BY StoredTyped DEF Retry, Typed, TypeOK
      <4> QED BY <4>1, <4>2 DEF Shown
    <3>3. streak[k] <= Stored(k).count + Owed(k)
      BY <3>2 DEF SInv, Accounted
    <3> QED BY <2>1, <2>2, <2>3, <3>1, <3>2, <3>3
  <2>5. CASE req[p].pc \in {"attempt", "count"} /\ req'[p].data = req[p].data
    <3>1. streak[k] <= req[p].data.count + Owed(k)
      BY <2>1, <2>2, <2>5 DEF SInv, Foreseen
    <3>2. req[p].data.count \in Nat
      BY <2>3 DEF Request, Retry
    <3> QED BY <2>1, <2>2, <2>3, <2>5, <3>1, <3>2
  <2> QED BY <2>1, <2>4, <2>5
<1> QED BY <1>1, <1>2, <1>3 DEF SInv, Foreseen

\* A counter that is written shows the attempt of the writer.
LEMMA ShownWhenCounted ==
    ASSUME Typed, NEW r \in Requests, Count(r), NEW k \in Keys, k = req[r].key
    PROVE  /\ Shown(k)' = req[r].data.count + 1
           /\ \A j \in Keys \ {k} : Shown(j)' = Shown(j)
<1> DEFINE d == req[r].data
           c == [CountedIn(d, req[r].now) EXCEPT !.gone = now + Timeout]
<1>1. /\ k \in Keys /\ d \in Retry /\ req[r].now \in Nat /\ now \in Nat
      /\ retry \in [Keys -> Retry] /\ req[r].began \in Nat
      /\ d.count < Limit /\ d.lockedUntil <= req[r].now
      /\ req[r].began <= req[r].now /\ req[r].now <= now
      /\ now <= req[r].began + Latency
      /\ Timeout \in Nat /\ Limit \in Nat /\ Latency \in Nat /\ Latency < Timeout
  BY AttemptsAssumption DEF Typed, TypeOK, HandlerOK, Request, Count, At
<1>2. /\ retry'[k] = c /\ now' = now
      /\ \A j \in Keys \ {k} : retry'[j] = retry[j]
  BY <1>1 DEF Count
<1>3. /\ c.gone = now + Timeout
      /\ c.count = CountedIn(d, req[r].now).count
      /\ c.lockedUntil = CountedIn(d, req[r].now).lockedUntil
  BY <1>1, CountedTyped DEF Retry
<1>4. Stored(k)' = c
  BY <1>1, <1>2, <1>3 DEF Stored, Live
<1>5. CASE d.count + 1 >= Limit
  <2>1. c.lockedUntil = req[r].now + Timeout
    BY <1>1, <1>3, <1>5 DEF CountedIn, Retry
  <2>2. c.lockedUntil > now /\ Limit = d.count + 1
    BY <1>1, <1>5, <2>1 DEF Retry
  <2> QED BY <1>2, <1>4, <2>2 DEF Shown, Stored, Live
<1>6. CASE ~(d.count + 1 >= Limit)
  <2>1. c.lockedUntil = d.lockedUntil /\ c.count = d.count + 1
    BY <1>1, <1>3, <1>6 DEF CountedIn, Retry
  <2>2. ~(c.lockedUntil > now)
    BY <1>1, <2>1 DEF Retry
  <2> QED BY <1>2, <1>4, <2>1, <2>2 DEF Shown, Stored, Live
<1> QED BY <1>5, <1>6

LEMMA CountSpends ==
    ASSUME Typed, AstrayOK, NEW r \in Astray, Count(r)
    PROVE  Spent + 1 <= Spent'
<1>t. /\ req \in [Requests -> Request] /\ faults \in Nat
  BY DEF Typed, TypeOK, LockTypeOK
<1>1. Astray' \subseteq Astray /\ r \notin Astray'
  <2>1. /\ \A p \in Requests \ {r} : req'[p] = req[p]
        /\ req'[r].pc = "release" /\ UNCHANGED lockVars
    BY <1>t DEF Count, Goto, Request, Astray
  <2> QED BY <2>1 DEF Astray, Holds, lockVars
<1>2. /\ Cardinality(Astray) \in Nat /\ Cardinality(Astray') \in Nat
      /\ Cardinality(Astray') + 1 <= Cardinality(Astray)
  BY <1>1, CardinalityLess DEF AstrayOK
<1> QED BY <1>t, <1>2 DEF Spent, Count, lockVars

LEMMA NextSInv == Typed /\ SInv /\ [Next]_vars => SInv'
<1> SUFFICES ASSUME Typed, SInv, [Next]_vars PROVE SInv' OBVIOUS
<1>t. /\ req \in [Requests -> Request] /\ Typed' /\ AstrayOK /\ AstrayOK'
      /\ streak \in [Keys -> Nat] /\ lost \in [Keys -> Nat]
      /\ Limit \in Nat /\ 1 <= Limit
      /\ \A r \in Requests : ~At(r, "idle") => req[r].key \in Keys
  BY NextTyped, AstrayNext, AttemptsAssumption DEF SInv, Typed, TypeOK, HandlerOK
<1>n. ASSUME NEW k \in Keys
      PROVE  /\ Owed(k) \in Nat /\ Owed(k)' \in Nat
             /\ Shown(k) \in Nat /\ Shown(k)' \in Nat /\ Shown(k) <= Limit
             /\ streak[k] \in Nat /\ streak[k] <= Shown(k) + Owed(k)
  <2>1. \A j \in Keys : Shown(j) \in 0 .. Limit
    BY ShownTyped
  <2>2. Shown(k)' \in Nat
    <3>1. /\ \A j \in Keys : retry'[j].count \in Nat
          /\ NoRetry.count \in Nat
      BY <1>t DEF Typed, TypeOK, Retry, NoRetry
    <3> QED BY <1>t, <3>1 DEF Shown, Stored
  <2> QED BY <1>t, <2>1, <2>2, OwedMove DEF SInv, Accounted
<1> USE DEF history
\* A step of r that leaves the others alone.
<1>p. ASSUME NEW r \in Requests, \A q \in Requests \ {r} : req'[q] = req[q]
      PROVE  \A k \in Keys :
                /\ Pending(k) \subseteq Pending(k)' \cup {r}
                /\ req[r].key # k => Pending(k) \subseteq Pending(k)'
                /\ req[r].pc # "count" => Pending(k) \subseteq Pending(k)'
  BY <1>p DEF Pending, At
<1>1. ASSUME UNCHANGED <<now, retry, history>>,
             \A k \in Keys : Pending(k) \subseteq Pending(k)'
      PROVE  SInv'
  BY <1>1, <1>t, OwedMove, AccountsKept
<1>2. ASSUME NEW r \in Requests, At(r, "count"),
             \A q \in Requests \ {r} : req'[q] = req[q],
             UNCHANGED <<now, retry, streak>>, lost' = [lost EXCEPT ![req[r].key] = @ + 1]
      PROVE  SInv'
  <2>1. \A k \in Keys : IF req[r].key = k THEN lost'[k] = lost[k] + 1 ELSE lost'[k] = lost[k]
    BY <1>2, <1>t
  <2> QED BY <1>2, <1>t, <1>p, <2>1, OwedMove, AccountsKept
<1>3. ASSUME NEW r \in Requests, AttemptCounts(r) PROVE SInv'
  <2>1. PICK k \in Keys : k = req[r].key
    BY <1>3, <1>t DEF AttemptCounts, At
  <2>2. /\ \A q \in Requests \ {r} : req'[q] = req[q]
        /\ req[r].pc = "attempt" /\ req'[r].pc = "count" /\ req'[r].key = k
        /\ streak'[k] = streak[k] + 1
        /\ \A j \in Keys \ {k} : streak'[j] = streak[j]
        /\ lost' = lost /\ \A j \in Keys : Shown(j)' = Shown(j)
    BY <1>3, <1>t, <2>1 DEF AttemptCounts, Goto, At, Request, Shown, Stored, Live
  <2>3. r \in Pending(k)' \ Pending(k) /\ \A j \in Keys : Pending(j) \subseteq Pending(j)'
    BY <1>p, <2>2 DEF Pending, At
  <2>4. /\ Owed(k) + 1 <= Owed(k)'
        /\ \A j \in Keys : Owed(j) <= Owed(j)'
    BY <1>t, <2>2, <2>3, OwedMove
  <2>5. ASSUME NEW j \in Keys PROVE Accounted(j)'
    BY <1>n, <2>2, <2>4 DEF Accounted
  <2>6. ASSUME NEW p \in Requests, NEW j \in Keys, req'[p].key = j,
               req'[p].pc \in {"attempt", "count"}, Holds(p)'
        PROVE  streak'[j] <= req'[p].data.count + Owed(j)'
    <3>1. /\ Holds(p) /\ req[p].key = j /\ req'[p].data = req[p].data
          /\ req[p].pc \in {"attempt", "count"}
      <4>1. ~Read(p)
        BY <2>2, <2>6 DEF Read, At
      <4> QED BY <2>6, <4>1, HoldsEarlier
    <3>2. streak[j] <= req[p].data.count + Owed(j) /\ req[p].data.count \in Nat
      BY <1>t, <3>1 DEF SInv, Foreseen, Request, Retry
    <3> QED BY <1>n, <2>2, <2>4, <3>1, <3>2
  <2> QED BY <1>t, <2>5, <2>6 DEF SInv, Foreseen
<1>4. ASSUME NEW r \in Requests, Count(r) PROVE SInv'
  <2>1. PICK k \in Keys : k = req[r].key
    BY <1>4, <1>t DEF Count, At
  <2>2. /\ \A q \in Requests \ {r} : req'[q] = req[q]
        /\ req[r].pc = "count" /\ req'[r].pc = "release"
        /\ streak' = streak /\ lost' = lost
        /\ req[r].data.count \in Nat
    BY <1>4, <1>t DEF Count, Goto, At, Request, Retry
  <2>3. /\ Shown(k)' = req[r].data.count + 1
        /\ \A j \in Keys \ {k} : Shown(j)' = Shown(j)
    BY <1>4, <2>1, ShownWhenCounted
  <2>4. /\ Owed(k) <= Owed(k)' + 1
        /\ r \in Astray => Owed(k) + Limit <= Owed(k)' + 1
        /\ \A j \in Keys \ {k} : Owed(j) <= Owed(j)'
    <3>1. /\ \A j \in Keys : Pending(j) \subseteq Pending(j)' \cup {r}
          /\ \A j \in Keys \ {k} : Pending(j) \subseteq Pending(j)'
      BY <1>p, <2>1, <2>2
    <3>2. r \in Astray => Spent + 1 <= Spent'
      BY <1>4, <1>t, CountSpends
    <3> QED BY <1>t, <2>2, <3>1, <3>2, OwedMove
  <2>5. r \in Astray \/ Holds(r)
    BY <2>2 DEF Astray
  <2>6. ASSUME NEW j \in Keys PROVE Accounted(j)'
    <3>1. CASE j # k
      BY <1>n, <2>2, <2>3, <2>4, <3>1 DEF Accounted
    <3>2. CASE j = k /\ r \in Astray
      BY <1>n, <1>t, <2>2, <2>3, <2>4, <3>2 DEF Accounted
    <3>3. CASE j = k /\ Holds(r)
      <4>1. streak[k] <= req[r].data.count + Owed(k)
        BY <2>1, <2>2, <3>3 DEF SInv, Foreseen
      <4> QED BY <1>n, <2>2, <2>3, <2>4, <3>3, <4>1 DEF Accounted
    <3> QED BY <2>5, <3>1, <3>2, <3>3
  <2>7. ASSUME NEW p \in Requests, NEW j \in Keys, req'[p].key = j,
               req'[p].pc \in {"attempt", "count"}, Holds(p)'
        PROVE  streak'[j] <= req'[p].data.count + Owed(j)'
    <3>1. p # r /\ req'[p] = req[p]
      BY <2>2, <2>7
    <3>2. /\ Holds(p) /\ req[p].key = j /\ req[p].pc \in {"attempt", "count"}
      BY <2>7, <3>1, HoldsEarlier DEF Read, At
    <3>3. streak[j] <= req[p].data.count + Owed(j) /\ req[p].data.count \in Nat
      BY <1>t, <3>2 DEF SInv, Foreseen, Request, Retry
    <3>4. Owed(j) <= Owed(j)'
      <4>1. CASE j # k
        BY <2>4, <4>1
      <4>2. CASE j = k
        <5>1. ~Holds(r)
          BY <2>1, <3>1, <3>2, <4>2 DEF Holds
        <5> QED BY <1>n, <1>t, <2>4, <2>5, <4>2, <5>1
      <4> QED BY <4>1, <4>2
    <3> QED BY <1>n, <2>2, <3>1, <3>3, <3>4
  <2> QED BY <1>t, <2>6, <2>7 DEF SInv, Foreseen
<1>5. ASSUME NEW r \in Requests, Clear(r) PROVE SInv'
  <2>1. PICK k \in Keys : k = req[r].key
    BY <1>5, <1>t DEF Clear, At
  <2>2. /\ \A q \in Requests \ {r} : req'[q] = req[q]
        /\ req[r].pc = "clear" /\ req'[r].pc = "open"
        /\ streak'[k] = 0
        /\ \A j \in Keys \ {k} : /\ streak'[j] = streak[j] /\ lost'[j] = lost[j]
                                 /\ Shown(j)' = Shown(j)
    BY <1>5, <1>t, <2>1 DEF Clear, Goto, At, Request, Shown, Stored, Live, Typed, TypeOK
  <2>3. \A j \in Keys \ {k} : Owed(j) <= Owed(j)'
    BY <1>p, <1>t, <2>2, OwedMove
  <2>4. ASSUME NEW j \in Keys PROVE Accounted(j)'
    BY <1>n, <2>2, <2>3 DEF Accounted
  <2>5. ASSUME NEW p \in Requests, NEW j \in Keys, req'[p].key = j,
               req'[p].pc \in {"attempt", "count"}, Holds(p)'
        PROVE  streak'[j] <= req'[p].data.count + Owed(j)'
    <3>1. p # r /\ req'[p] = req[p]
      BY <2>2, <2>5
    <3>2. /\ Holds(p) /\ req[p].key = j /\ req[p].pc \in {"attempt", "count"}
      BY <2>5, <3>1, HoldsEarlier DEF Read, At
    <3>3. streak[j] <= req[p].data.count + Owed(j) /\ req[p].data.count \in Nat
      BY <1>t, <3>2 DEF SInv, Foreseen, Request, Retry
    <3> QED BY <1>n, <2>2, <2>3, <3>1, <3>3
  <2> QED BY <1>t, <2>4, <2>5 DEF SInv, Foreseen
<1>6. CASE Tick
  <2>1. /\ req' = req /\ retry' = retry /\ now' = now + 1 /\ now \in Nat
        /\ \A k \in Keys : \/ streak'[k] = 0
                           \/ /\ ~StreakEnds(k)
                              /\ streak'[k] = streak[k] /\ lost'[k] = lost[k]
    BY <1>6 DEF Tick, Typed, TypeOK
  <2>2. ASSUME NEW k \in Keys, ~StreakEnds(k)
        PROVE  Shown(k)' = Shown(k)
    BY <2>1, <2>2 DEF StreakEnds, Shown, Stored, Live, NoRetry, Typed, TypeOK, Retry
  <2>3. ASSUME NEW k \in Keys, lost'[k] = lost[k]
        PROVE  Owed(k) <= Owed(k)'
    <3>1. Pending(k) \subseteq Pending(k)'
      BY <2>1 DEF Pending, At
    <3> QED BY <1>t, <2>3, <3>1, OwedMove
  <2>4. ASSUME NEW k \in Keys PROVE Accounted(k)'
    BY <1>n, <2>1, <2>2, <2>3 DEF Accounted
  <2>5. ASSUME NEW p \in Requests, NEW j \in Keys, req'[p].key = j,
               req'[p].pc \in {"attempt", "count"}, Holds(p)'
        PROVE  streak'[j] <= req'[p].data.count + Owed(j)'
    <3>1. req'[p] = req[p]
      BY <2>1
    <3>2. /\ Holds(p) /\ req[p].key = j /\ req[p].pc \in {"attempt", "count"}
      BY <2>5, <3>1, HoldsEarlier DEF Read, At
    <3>3. streak[j] <= req[p].data.count + Owed(j) /\ req[p].data.count \in Nat
      BY <1>t, <3>2 DEF SInv, Foreseen, Request, Retry
    <3> QED BY <1>n, <2>1, <2>3, <3>1, <3>3
  <2> QED BY <1>t, <2>4, <2>5 DEF SInv, Foreseen
<1>7. ASSUME NEW r \in Requests, NEW k \in Keys, Begin(r, k) PROVE SInv'
  <2>1. /\ \A q \in Requests \ {r} : req'[q] = req[q]
        /\ req[r].pc # "count"
    BY <1>7, <1>t DEF Begin, At
  <2> QED BY <1>1, <1>7, <1>p, <2>1 DEF Begin
<1>8. ASSUME NEW r \in Requests, Step(r) PROVE SInv'
  <2>1. CASE Enter(r) \/ CannotEnter(r) \/ Read(r) \/ PasswordRight(r)
               \/ OpenSession(r) \/ Leave(r)
    <3>1. /\ \A q \in Requests \ {r} : req'[q] = req[q]
          /\ req[r].pc # "count" /\ UNCHANGED <<now, retry, history>>
      BY <2>1, <1>t DEF Enter, CannotEnter, Read, PasswordRight, OpenSession, Leave,
         Goto, Return, At
    <3> QED BY <1>1, <1>p, <3>1
  <2>2. CASE Fail(r)
    <3>1. /\ \A q \in Requests \ {r} : req'[q] = req[q]
          /\ UNCHANGED <<now, retry, streak>>
      BY <2>2, <1>t DEF Fail, Goto
    <3>2. CASE At(r, "count")
      BY <1>2, <2>2, <3>1, <3>2 DEF Fail, Uncounted
    <3>3. CASE ~At(r, "count")
      BY <1>1, <1>p, <2>2, <3>1, <3>3 DEF Fail, Uncounted, At
    <3> QED BY <3>2, <3>3
  <2> QED BY <1>3, <1>4, <1>5, <1>8, <2>1, <2>2 DEF Step
<1>9. ASSUME NEW r \in Requests, Crash(r) PROVE SInv'
  <2>1. /\ \A q \in Requests \ {r} : req'[q] = req[q]
        /\ UNCHANGED <<now, retry, streak>>
    BY <1>9, <1>t DEF Crash, Return
  <2>2. CASE At(r, "count")
    BY <1>2, <1>9, <2>1, <2>2 DEF Crash, Uncounted
  <2>3. CASE ~At(r, "count")
    BY <1>1, <1>p, <1>9, <2>1, <2>3 DEF Crash, Uncounted, At
  <2> QED BY <2>2, <2>3
<1>10. ASSUME NEW k \in Keys, LockStep(k) PROVE SInv'
  BY <1>1, <1>10 DEF LockStep, Pending, At
<1>11. CASE UNCHANGED vars
  BY <1>1, <1>11 DEF vars, Pending, At
<1> QED BY <1>6, <1>7, <1>8, <1>9, <1>10, <1>11 DEF Next

\* The attempts made in a streak pass the limit only by those that failures
\* left uncounted and by one more round for each extension that failed, in
\* any number of handlers and keys and whatever crashes.
THEOREM StreaksAreBounded == Spec => []StreakBounded
<1>1. Spec => [](Typed /\ SInv)
  BY InitTyped, NextTyped, InitSInv, NextSInv, PTL DEF Spec
<1> QED BY <1>1, StreakBoundedIf, PTL
=============================================================================
