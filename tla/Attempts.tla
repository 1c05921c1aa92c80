------------------------------ MODULE Attempts ------------------------------
(***************************************************************************)
(* AuthService.login and AuthService.resendVerifyEmail from the check of   *)
(* the user on: under the lock of the retry key both read the counter,     *)
(* refuse while it is locked out, make the attempt (compare the password,  *)
(* or store and mail a new code), and write the counter back.  A login     *)
(* counts when the password is wrong, a resend always.                     *)
(*                                                                         *)
(* The counter is a JSON value read and written whole, so what two         *)
(* handlers without the lock count may be lost.  Passwords are not         *)
(* modelled: a comparison succeeds or not.  Accounts, codes and mails are  *)
(* in module Verification, the sessions a login opens in module Sessions.  *)
(***************************************************************************)
EXTENDS Lock

CONSTANTS
    LoginKeys,      \* login_retry:userId; the other keys are resend_otp:email
    Limit,          \* setting.maxLoginRetry, setting.maxResendOtp
    Timeout,        \* setting.loginTimeout, setting.resendOtpTimeout
    Latency,        \* bound on the time a handler lasts
    MaxTime,        \* bound on the clock
    MaxLost         \* bound on the attempts a failure leaves uncounted

ASSUME AttemptsAssumption ==
    /\ LoginKeys \subseteq Keys
    /\ Null \notin Keys
    /\ Limit \in Nat \ {0}
    /\ Timeout \in Nat \ {0}
    /\ Latency \in 0 .. Timeout - 1
    /\ MaxTime \in Nat
    /\ MaxLost \in Nat

VARIABLES
    now,            \* Date.now() and the clock of Redis
    retry,          \* the value at each retry key, and when the key is gone
    req,            \* the handler in each slot and what it remembers
    streak,         \* attempts made since the counter was last back at 0
    lost            \* those of them that a failure left uncounted

history == <<streak, lost>>
vars == <<lockVars, now, retry, req, history>>

Retry == [count : Nat, lockedUntil : Nat, gone : Nat]
NoRetry == [count |-> 0, lockedUntil |-> 0, gone |-> 0]

\* lock: waits for the lock; the ones of Inside are in the callback.
Inside == {"read", "attempt", "count", "clear", "open", "release"}

Request == [pc : Inside \cup {"idle", "lock"},
            key : Keys \cup {Null},
            data : Retry,               \* retryData, resendData
            now : Nat,
            began : Nat]

Idle == [pc |-> "idle", key |-> Null, data |-> NoRetry, now |-> 0, began |-> 0]

At(r, pc) == req[r].pc = pc
IsInside(r) == req[r].pc \in Inside
Goto(r, pc) == req' = [req EXCEPT ![r].pc = pc]
Return(r) == req' = [req EXCEPT ![r] = Idle]
Has(r, k) == IsInside(r) /\ req[r].key = k

Live(k) == now < retry[k].gone

Init ==
    /\ LockInit
    /\ now = 0
    /\ retry = [k \in Keys |-> NoRetry]
    /\ req = [r \in Requests |-> Idle]
    /\ streak = [k \in Keys |-> 0]
    /\ lost = [k \in Keys |-> 0]

----------------------------------------------------------------------------
(* The handler up to its callback.  A user who does not exist, or whose    *)
(* isVerified is not what the handler wants, is refused without an effect. *)

Begin(r, k) ==
    /\ At(r, "idle")
    /\ req' = [req EXCEPT ![r] = [Idle EXCEPT !.pc = "lock", !.key = k,
                                              !.began = now]]
    /\ UNCHANGED <<lockVars, now, retry, history>>

\* Mutant: the lock is taken for granted.
EnterUnlocked(r) ==
    /\ At(r, "lock")
    /\ Goto(r, "read")
    /\ holder' = [holder EXCEPT ![req[r].key] = r]
    /\ renewed' = renewed \cup {req[r].key}
    /\ UNCHANGED <<faults, now, retry, history>>

Enter(r) ==
    /\ At(r, "lock")
    /\ Acquire(r, req[r].key)
    /\ Goto(r, "read")
    /\ UNCHANGED <<now, retry, history>>

\* Redlock gives up, at the latest after its last retry.
CannotEnter(r) ==
    /\ At(r, "lock")
    /\ Return(r)
    /\ UNCHANGED <<lockVars, now, retry, history>>

----------------------------------------------------------------------------
(* The callback *)

Stored(k) == IF Live(k) THEN retry[k] ELSE NoRetry

\* Mutant: a lock-out is over one tick early.
OpensEarly(data) == data.lockedUntil <= now + 1

IsOpen(data) == data.lockedUntil <= now

Read(r) ==
    LET data == Stored(req[r].key)
    IN  /\ At(r, "read")
        /\ req' = [req EXCEPT ![r].pc = IF IsOpen(data) THEN "attempt"
                                                        ELSE "release",
                              ![r].data = data,
                              ![r].now = now]
        /\ UNCHANGED <<lockVars, now, retry, history>>

\* The password is wrong, or the code is stored and its mail published.
AttemptCounts(r) ==
    /\ At(r, "attempt")
    /\ Goto(r, "count")
    /\ streak' = [streak EXCEPT ![req[r].key] = @ + 1]
    /\ UNCHANGED <<lockVars, now, retry, lost>>

PasswordRight(r) ==
    /\ At(r, "attempt")
    /\ req[r].key \in LoginKeys
    /\ Goto(r, "clear")
    /\ UNCHANGED <<lockVars, now, retry, history>>

\* Mutant: what is kept is the number of attempts left.
CountedDown(d, t) ==
    IF d.count = 0
    THEN [d EXCEPT !.count = @ - 1, !.lockedUntil = t + Timeout]
    ELSE [d EXCEPT !.count = @ - 1]

\* Mutant: the lock-out is one attempt late.
CountedLate(d, t) ==
    IF d.count >= Limit
    THEN [d EXCEPT !.count = 0, !.lockedUntil = t + Timeout]
    ELSE [d EXCEPT !.count = @ + 1]

CountedIn(d, t) ==
    IF d.count + 1 >= Limit
    THEN [d EXCEPT !.count = 0, !.lockedUntil = t + Timeout]
    ELSE [d EXCEPT !.count = @ + 1]

Count(r) ==
    /\ At(r, "count")
    /\ Goto(r, "release")
    /\ retry' = [retry EXCEPT ![req[r].key] =
                   [CountedIn(req[r].data, req[r].now) EXCEPT
                      !.gone = now + Timeout]]
    /\ UNCHANGED <<lockVars, now, history>>

Clear(r) ==
    /\ At(r, "clear")
    /\ Goto(r, "open")
    /\ retry' = [retry EXCEPT ![req[r].key] = NoRetry]
    /\ streak' = [streak EXCEPT ![req[r].key] = 0]
    /\ lost' = [lost EXCEPT ![req[r].key] = 0]
    /\ UNCHANGED <<lockVars, now>>

\* sessionService.gen
OpenSession(r) ==
    /\ At(r, "open")
    /\ Goto(r, "release")
    /\ UNCHANGED <<lockVars, now, retry, history>>

\* finally
Leave(r) ==
    /\ At(r, "release")
    /\ Release(r, req[r].key)
    /\ Return(r)
    /\ UNCHANGED <<now, retry, history>>

----------------------------------------------------------------------------
(* Failures *)

\* Whatever the handler was awaiting, an attempt not yet counted is lost.
Uncounted(r) ==
    IF At(r, "count")
    THEN /\ lost[req[r].key] < MaxLost
         /\ lost' = [lost EXCEPT ![req[r].key] = @ + 1]
    ELSE UNCHANGED lost

\* A query of the callback fails: the callback throws.
Fail(r) ==
    /\ IsInside(r) /\ ~At(r, "release")
    /\ Goto(r, "release")
    /\ Uncounted(r)
    /\ UNCHANGED <<lockVars, now, retry, streak>>

\* The process that serves r is gone; what it locked stays locked.
Crash(r) ==
    /\ ~At(r, "idle")
    /\ Return(r)
    /\ IF IsInside(r) THEN StopTimer(r, req[r].key) ELSE UNCHANGED <<renewed, faults>>
    /\ Uncounted(r)
    /\ UNCHANGED <<holder, now, retry, streak>>

\* A streak ends when the key is gone or the lock-out over.
StreakEnds(k) ==
    \/ retry[k].gone = now + 1
    \/ Live(k) /\ retry[k].lockedUntil = now + 1

Tick ==
    /\ now < MaxTime
    /\ \A r \in Requests : ~At(r, "idle") => now < req[r].began + Latency
    /\ now' = now + 1
    /\ streak' = [k \in Keys |-> IF StreakEnds(k) THEN 0 ELSE streak[k]]
    /\ lost' = [k \in Keys |-> IF StreakEnds(k) THEN 0 ELSE lost[k]]
    /\ UNCHANGED <<lockVars, retry, req>>

LockStep(k) ==
    /\ ExtendFails(k) \/ Lapse(k)
    /\ UNCHANGED <<now, retry, req, history>>

Step(r) ==
    \/ Enter(r) \/ CannotEnter(r)
    \/ Read(r) \/ AttemptCounts(r) \/ PasswordRight(r)
    \/ Count(r) \/ Clear(r) \/ OpenSession(r) \/ Leave(r) \/ Fail(r)

Next ==
    \/ \E r \in Requests :
          \/ \E k \in Keys : Begin(r, k)
          \/ Step(r)
          \/ Crash(r)
    \/ \E k \in Keys : LockStep(k)
    \/ Tick

Spec == Init /\ [][Next]_vars

\* A query is answered or fails, and a ttl runs out.
Fairness ==
    /\ \A r \in Requests : WF_vars(Step(r))
    /\ \A k \in Keys : WF_vars(Lapse(k) /\ UNCHANGED <<now, retry, req, history>>)

FairSpec == Spec /\ Fairness

----------------------------------------------------------------------------
(* Properties *)

TypeOK ==
    /\ LockTypeOK
    /\ now \in Nat
    /\ retry \in [Keys -> Retry]
    /\ req \in [Requests -> Request]
    /\ streak \in [Keys -> Nat]
    /\ lost \in [Keys -> Nat]

\* Two handlers are in the callback of one key only after an extension of
\* the lock has failed: the read and the write of the counter are then no
\* longer one step for the others (withLock around the callbacks of login
\* and resendVerifyEmail).
ExclusiveWhileRenewed ==
    faults = 0 => \A q, r \in Requests, k \in Keys :
                     Has(q, k) /\ Has(r, k) => q = r

\* The passwords tried, or the codes mailed, before the counter is back at 0
\* exceed the limit only by what failures left uncounted and, for each
\* extension that failed, by one more round: the handler that goes on
\* without the lock overwrites what the others counted, a lock-out even.
StreakBounded ==
    \A k \in Keys : streak[k] <= Limit * (1 + faults) + lost[k]

\* No lock stays for ever: what a crashed handler locked, or could not
\* delete, lapses (the finally of withLock stops the timer).
LocksFreed ==
    \A k \in Keys, r \in Requests : holder[k] = r ~> holder[k] # r

\* The counting implements the abstract throttle until an extension fails.
OneAtATime == INSTANCE Throttle WITH
    failures <- [k \in Keys |-> Stored(k).count],
    kept <- [k \in Keys |-> retry[k].gone],
    until <- [k \in Keys |-> IF Stored(k).lockedUntil > now
                             THEN retry[k].lockedUntil ELSE 0],
    disturbed <- faults > 0

ThrottleSpec == OneAtATime!Spec
=============================================================================
